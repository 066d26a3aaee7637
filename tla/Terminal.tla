------------------------------ MODULE Terminal ------------------------------
(***************************************************************************)
(* Who owns the terminal: interactive.py `_RawMode`, which takes it for    *)
(* the length of a browse and gives it back however the browse ends -- a   *)
(* key, Ctrl-C, a fatal signal, Ctrl-Z and `fg`.                           *)
(*                                                                         *)
(* The main thread has a list of steps still to do.  Python runs a signal  *)
(* handler between two of them, which puts the handler's steps in front;   *)
(* a signal without a handler acts on the process at once.  Installing or  *)
(* restoring the handlers of all signals is one step.                      *)
(***************************************************************************)
EXTENDS Sequences, FiniteSets, Naturals

CONSTANTS
    Fatal,      \* _FATAL_SIGNALS
    Stop,       \* SIGTSTP
    Originals,  \* the dispositions the process may have been started with
    AnyTime,    \* signals come at every step, not only while a key is awaited
    MaxSignals  \* bound: how many signals and Ctrl-Cs come

Caught == Fatal \cup {Stop}
Outer == {"default", "ignored"}

ASSUME TerminalAssumption ==
    /\ Stop \notin Fatal /\ "none" \notin Fatal
    /\ Originals \subseteq [Caught -> Outer]
    /\ AnyTime \in BOOLEAN /\ MaxSignals \in Nat

VARIABLES
    original, \* the dispositions before the browse
    disposed, \* the dispositions now
    previous, \* _RawMode._previous, or <<>> when it is empty
    saved,    \* _RawMode._saved is not None
    tty,      \* "cooked" or "raw"
    cursor,   \* "shown" or "hidden"
    agenda,   \* the steps the main thread has left
    within,   \* the body of the `with` has begun and not ended
    fate,     \* "running", "stopped", "gone": the block or the process is over
    told,     \* a fatal signal has been taken in
    cause,    \* the signal the process went of, if it did
    pending,  \* the signals that wait for a stopped process
    signals   \* signals sent

taken == <<disposed, previous, saved, tty, cursor>>
vars == <<original, taken, agenda, within, fate, told, cause, pending, signals>>

-----------------------------------------------------------------------------
(* The steps of _RawMode.                                                  *)

Do(what) == <<[do |-> what]>>
Raising(what, s) == <<[do |-> what, signal |-> s]>>

Enter == Do("save") \o Do("cbreak") \o Do("hide") \o Do("catch")
Exit == Do("give") \o Do("show") \o Do("restore")

\* Seeded bug: it puts the terminal back and goes on.
DieSwallows(s) == Exit

\* _die: "put the terminal back, then die as we would have".
Die(s) == Exit \o Raising("default", s) \o Raising("kill", s)

\* Seeded bug: resumed, it takes the modes back and not the handlers.
SuspendForgetsCatch ==
    Exit \o Raising("default", Stop) \o Raising("kill", Stop)
         \o Do("resave") \o Do("cbreak") \o Do("hide")

\* Seeded bug: the process stops before it has given the terminal back.
SuspendStopsFirst ==
    Raising("default", Stop) \o Raising("kill", Stop) \o Exit
        \o Do("resave") \o Do("cbreak") \o Do("hide") \o Do("catch")

\* _suspend: hand the terminal back, stop, and take it again on resume.
Suspend ==
    Exit \o Raising("default", Stop) \o Raising("kill", Stop)
         \o Do("resave") \o Do("cbreak") \o Do("hide") \o Do("catch")

Handler(s) == IF s = Stop THEN Suspend ELSE Die(s)

Init ==
    /\ original \in Originals
    /\ disposed = original /\ previous = <<>>
    /\ saved = FALSE /\ tty = "cooked" /\ cursor = "shown"
    /\ agenda = Enter \o Do("browse") \o Exit
    /\ within = FALSE
    /\ fate = "running" /\ told = FALSE /\ cause = "none" /\ pending = {} /\ signals = 0

Running(what) == fate = "running" /\ agenda # <<>> /\ Head(agenda).do = what
Done == agenda' = Tail(agenda)
Unsignalled == UNCHANGED <<original, within, fate, told, cause, pending, signals>>

Save ==
    /\ Running("save") \/ Running("resave")
    /\ saved' = TRUE
    /\ Done /\ Unsignalled /\ UNCHANGED <<disposed, previous, tty, cursor>>

Cbreak ==
    /\ Running("cbreak") /\ tty' = "raw"
    /\ Done /\ Unsignalled /\ UNCHANGED <<disposed, previous, saved, cursor>>

Hide ==
    /\ Running("hide") /\ cursor' = "hidden"
    /\ Done /\ Unsignalled /\ UNCHANGED <<disposed, previous, saved, tty>>

\* Seeded bug: what it displaced is read after it has been displaced.
CatchSwapped ==
    /\ Running("catch")
    /\ disposed' = [s \in Caught |-> "handler"]
    /\ previous' = disposed'
    /\ Done /\ Unsignalled /\ UNCHANGED <<saved, tty, cursor>>

\* _catch_signals: what it displaces is what __exit__ hands back.
Catch ==
    /\ Running("catch")
    /\ previous' = disposed
    /\ disposed' = [s \in Caught |-> "handler"]
    /\ Done /\ Unsignalled /\ UNCHANGED <<saved, tty, cursor>>

\* _restore_signals.
Give ==
    /\ Running("give")
    /\ disposed' = IF previous = <<>> THEN disposed ELSE previous
    /\ previous' = <<>>
    /\ Done /\ Unsignalled /\ UNCHANGED <<saved, tty, cursor>>

Show ==
    /\ Running("show")
    /\ cursor' = IF saved THEN "shown" ELSE cursor
    /\ Done /\ Unsignalled /\ UNCHANGED <<disposed, previous, saved, tty>>

Restore ==
    /\ Running("restore")
    /\ tty' = IF saved THEN "cooked" ELSE tty
    /\ saved' = FALSE
    /\ Done /\ Unsignalled /\ UNCHANGED <<disposed, previous, cursor>>

\* signal.signal(signum, SIG_DFL).
Default ==
    /\ Running("default")
    /\ disposed' = [disposed EXCEPT ![Head(agenda).signal] = "default"]
    /\ Done /\ Unsignalled /\ UNCHANGED <<previous, saved, tty, cursor>>

\* A signal whose default action is taken.
Act(s) ==
    /\ fate' = IF s = Stop THEN "stopped" ELSE "gone"
    /\ cause' = IF s = Stop THEN cause ELSE s

\* os.kill(os.getpid(), signum).
Kill ==
    /\ Running("kill")
    /\ Act(Head(agenda).signal)
    /\ Done /\ UNCHANGED <<original, taken, within, told, pending, signals>>

\* The reader quits, or asks for a reload: the `with` block ends.
Browse ==
    /\ Running("browse")
    /\ Done /\ within' = FALSE
    /\ UNCHANGED <<original, taken, fate, told, cause, pending, signals>>

Begin ==
    /\ Running("browse") /\ ~within
    /\ within' = TRUE
    /\ UNCHANGED <<original, taken, agenda, fate, told, cause, pending, signals>>

Finish ==
    /\ fate = "running" /\ agenda = <<>>
    /\ fate' = "gone"
    /\ UNCHANGED <<original, taken, agenda, within, told, cause, pending, signals>>

-----------------------------------------------------------------------------
(* Signals.                                                                *)

\* Almost all of the time the main thread waits for a key.
MayCome ==
    /\ signals < MaxSignals
    /\ AnyTime \/ (within /\ Running("browse")) \/ fate = "stopped"

\* A signal reaches a process that runs.
Deliver(s) ==
    /\ fate = "running" /\ MayCome /\ signals' = signals + 1
    /\ CASE disposed[s] = "handler" ->
               agenda' = Handler(s) \o agenda /\ UNCHANGED <<fate, cause>>
         [] disposed[s] = "default" -> Act(s) /\ UNCHANGED agenda
         [] disposed[s] = "ignored" -> UNCHANGED <<agenda, fate, cause>>
    /\ told' = (told \/ (s \in Fatal /\ disposed[s] = "handler"))
    /\ UNCHANGED <<original, taken, within, pending>>

\* One that reaches a stopped process waits for it to be resumed.
Wait(s) ==
    /\ fate = "stopped" /\ s # Stop /\ MayCome /\ signals' = signals + 1
    /\ pending' = pending \cup {s}
    /\ UNCHANGED <<original, taken, agenda, within, fate, told, cause>>

\* `fg`.  A fatal signal that waited acts first, if it is not ignored.
Resume ==
    /\ fate = "stopped"
    /\ \/ /\ \A s \in pending : disposed[s] = "ignored"
          /\ fate' = "running" /\ UNCHANGED cause
       \/ \E s \in pending : disposed[s] = "default" /\ Act(s)
    /\ pending' = {}
    /\ UNCHANGED <<original, taken, agenda, within, told, signals>>

\* Ctrl-C: KeyboardInterrupt.  In the body of the `with` it leads to __exit__,
\* elsewhere it goes straight to `main`.
Interrupt ==
    /\ fate = "running" /\ MayCome /\ signals' = signals + 1
    /\ agenda # <<>>
    /\ agenda' = IF within THEN Exit ELSE <<>>
    /\ within' = FALSE
    /\ UNCHANGED <<original, taken, fate, told, cause, pending>>

Gone == fate = "gone" /\ UNCHANGED vars

Step ==
    \/ Save \/ Cbreak \/ Hide \/ Catch \/ Give \/ Show \/ Restore
    \/ Default \/ Kill \/ Begin \/ Browse \/ Finish

Next ==
    \/ Step \/ Resume \/ Interrupt \/ Gone
    \/ \E s \in Caught : Deliver(s) \/ Wait(s)

\* The main thread runs, except that nobody has to press a key.
Spec == Init /\ [][Next]_vars /\ WF_vars(Step /\ ~Browse)

-----------------------------------------------------------------------------
(* Correctness.                                                            *)

\* Every variable has its type; the modes are saved whenever the terminal is
\* raw, and a resumed process has nothing waiting for it.
TypeOK ==
    /\ original \in [Caught -> Outer]
    /\ disposed \in [Caught -> Outer \cup {"handler"}]
    /\ previous = <<>> \/ previous \in [Caught -> Outer \cup {"handler"}]
    /\ saved \in BOOLEAN /\ within \in BOOLEAN /\ told \in BOOLEAN
    /\ tty \in {"cooked", "raw"} /\ cursor \in {"shown", "hidden"}
    /\ fate \in {"running", "stopped", "gone"} /\ cause \in Fatal \cup {"none"}
    /\ pending \subseteq Fatal /\ signals \in 0 .. MaxSignals
    /\ tty = "raw" => saved
    /\ pending # {} => fate = "stopped"

\* "Restored unconditionally": when the process is stopped or gone, whoever has
\* the terminal next has echo, line editing and a cursor.
HandedBack == fate # "running" => tty = "cooked" /\ cursor = "shown"

\* While a key is awaited the terminal is the browse's and every signal that
\* would leave it that way is caught, after however many Ctrl-Zs.
ArmedWhileBrowsing ==
    within /\ Running("browse") =>
        /\ tty = "raw" /\ cursor = "hidden" /\ saved
        /\ \A s \in Caught : disposed[s] = "handler"

\* `_suspend`: "`__exit__` still hands back the truth", that is the dispositions
\* the process came with.
TruthHandedBack == fate = "gone" /\ cause = "none" => disposed = original

\* "A tool that swallows SIGTERM is worse than one that leaves a messy
\* terminal": a fatal signal ends the browse, and ends it as a signal does.
FatalEnds == told ~> (fate = "gone" /\ cause \in Fatal)

=============================================================================
