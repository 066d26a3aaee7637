------------------------------- MODULE Session -------------------------------
(***************************************************************************)
(* One interactive `nodetop status`: the loop of cli.py `main`, which takes*)
(* a reading, draws it and takes another when asked; the entitlement       *)
(* answers each frame is drawn from, which may be remembered ones          *)
(* (core/access.py); and the `_Recheck` thread that asks the control plane *)
(* again behind a frame drawn from memory and writes its answer down.      *)
(*                                                                         *)
(* A verdict carries the number of times the control plane had changed its *)
(* mind about that partition when it was asked, so that an old verdict can *)
(* be told from a new one.  Seconds are left out: `rested` says that       *)
(* twenty times the last recheck's cost has passed since it ended, and a   *)
(* remembered verdict may outlive the TTL at any moment.                   *)
(***************************************************************************)
EXTENDS Integers, FiniteSets

CONSTANTS
    Partitions,
    Rooms,       \* the sets of partitions that may have room at a reading
    Passes,      \* names for the recheck threads, at least two
    NoPass,      \* no recheck: Python's None
    AutoRefresh, \* a re-read is cheap: cost <= _REFRESH_COST_LIMIT
    SavesLand,   \* FALSE: a read-only or full cache directory
    MaxTurns,    \* bound: how often the control plane changes its mind
    MaxSilences  \* bound: how often it does not settle what it is asked

ASSUME SessionAssumption ==
    /\ IsFiniteSet(Passes) /\ Passes # {} /\ NoPass \notin Passes
    /\ Rooms \subseteq SUBSET Partitions /\ {} \notin Rooms
    /\ AutoRefresh \in BOOLEAN /\ SavesLand \in BOOLEAN
    /\ MaxTurns \in Nat /\ MaxSilences \in Nat

VARIABLES
    turn,     \* per partition, the changes of the control plane's mind so far
    silences, \* unsettled answers and failed passes so far
    disk,     \* the remembered verdicts that `load` would return
    pc,       \* `main`: "reading", "asking" (the frame waits), "browsing", "over"
    room,     \* candidates: the partitions with room at this reading
    missing,  \* those of them it remembers nothing of
    recall,   \* remembered_age is not None
    got,      \* the verdicts the next frame will be drawn from
    shown,    \* the verdicts the frame on screen was drawn from
    pass,     \* the recheck threads
    live,     \* _Recheck.live
    watching, \* the recheck this browse polls, if it started one
    rested,   \* the last recheck is long enough ago for another
    moved,    \* this reading was asked for by a recheck that contradicts the frame
    crossed   \* history: the partitions the frame has asked about itself while a
              \* recheck held an earlier answer that it had yet to write down

control == <<turn, silences>>
frame == <<room, missing, recall, got, shown, crossed>>
recheck == <<pass, live, watching, rested>>
vars == <<control, disk, pc, frame, recheck, moved>>

-----------------------------------------------------------------------------
(* Verdicts.                                                               *)

None == [says |-> "none", turn |-> -1]
Unknown == [p \in Partitions |-> None]
Mind(n) == IF n % 2 = 0 THEN "yes" ELSE "no"
Verdict == [says : {"yes", "no", "unsettled"}, turn : 0 .. MaxTurns]

Asked(v) == {p \in Partitions : v[p] # None}

\* Seeded bug: what is remembered stays on top.
MergedKeepsOld(old, new) == [p \in Partitions |-> IF old[p] # None THEN old[p] ELSE new[p]]

\* The remembered verdicts with these on top; saved, if the directory allows.
Merged(old, new) == [p \in Partitions |-> IF new[p] # None THEN new[p] ELSE old[p]]
Save(new) == disk' = IF SavesLand THEN Merged(disk, new) ELSE disk

\* The control plane's answer about a partition, at some cost in silences.
Answer(p, v) ==
    \/ v = [says |-> Mind(turn[p]), turn |-> turn[p]] /\ UNCHANGED control
    \/ /\ silences < MaxSilences
       /\ v = [says |-> "unsettled", turn |-> turn[p]]
       /\ silences' = silences + 1 /\ UNCHANGED turn

Running == {t \in Passes : pass[t].pc \in {"asking", "saving", "saved"}}
Resting == [pc |-> "off", todo |-> {}, got |-> Unknown]

Init ==
    /\ turn \in [Partitions -> 0 .. MaxTurns]
    /\ silences = 0
    /\ disk \in [Partitions -> {None} \cup {[says |-> Mind(n), turn |-> n] : n \in 0 .. MaxTurns}]
    /\ \A p \in Partitions : disk[p].turn <= turn[p]
    /\ pc = "reading"
    /\ room = {} /\ missing = {} /\ recall = FALSE
    /\ got = Unknown /\ shown = Unknown /\ crossed = {}
    /\ pass = [t \in Passes |-> Resting]
    /\ live = NoPass /\ watching = NoPass /\ rested = TRUE
    /\ moved = FALSE

-----------------------------------------------------------------------------
(* The control plane and the clock.                                        *)

ChangeMind(p) ==
    /\ turn[p] < MaxTurns
    /\ turn' = [turn EXCEPT ![p] = @ + 1]
    /\ UNCHANGED <<silences, disk, pc, frame, recheck, moved>>

\* access.load: a verdict older than the TTL is not returned any more; a merge
\* carries it on with the moment it was given, so that stays so.
Expire(p) ==
    /\ p \in Asked(disk)
    /\ disk' = [disk EXCEPT ![p] = None]
    /\ UNCHANGED <<control, pc, frame, recheck, moved>>

Rest ==
    /\ ~rested /\ rested' = TRUE
    /\ UNCHANGED <<control, disk, pc, frame, pass, live, watching, moved>>

-----------------------------------------------------------------------------
(* The recheck thread.                                                     *)

\* Seeded bug: a pass is begun whatever is still running.
BeginBeside(c) ==
    IF ~rested THEN watching' = NoPass /\ UNCHANGED <<pass, live, rested>>
    ELSE /\ \E t \in Passes \ Running : live' = t
         /\ watching' = live'
         /\ pass' = [pass EXCEPT ![live'] = [pc |-> "asking", todo |-> c, got |-> Unknown]]
         /\ UNCHANGED rested

\* Seeded bug: one pass for the life of the process.
BeginOnce(c) ==
    IF live # NoPass THEN watching' = NoPass /\ UNCHANGED <<pass, live, rested>>
    ELSE /\ live' = CHOOSE t \in Passes : TRUE
         /\ watching' = live'
         /\ pass' = [pass EXCEPT ![live'] = [pc |-> "asking", todo |-> c, got |-> Unknown]]
         /\ UNCHANGED rested

\* _Recheck.start, over the candidates c of the frame about to be drawn.
Begin(c) ==
    IF live \in Running \/ ~rested
    THEN watching' = NoPass /\ UNCHANGED <<pass, live, rested>>
    ELSE /\ live' = CHOOSE t \in Passes \ Running : TRUE
         /\ watching' = live'
         /\ pass' = [pass EXCEPT ![live'] = [pc |-> "asking", todo |-> c, got |-> Unknown]]
         /\ UNCHANGED rested

\* One partition's verdict comes in; the last one ends `ask`.
PassAsk(t, p) ==
    /\ pass[t].pc = "asking" /\ p \in pass[t].todo
    /\ \E v \in Verdict :
          /\ Answer(p, v)
          /\ LET left == pass[t].todo \ {p} IN
             pass' = [pass EXCEPT ![t].todo = left, ![t].got[p] = v,
                                  ![t].pc = IF left = {} THEN "saving" ELSE "asking"]
    /\ UNCHANGED <<disk, pc, frame, live, watching, rested, moved>>

\* `ask` raises: nothing is learned, the remembered answer stays.
PassFail(t) ==
    /\ pass[t].pc = "asking"
    /\ silences < MaxSilences /\ silences' = silences + 1
    /\ pass' = [pass EXCEPT ![t] = [Resting EXCEPT !.pc = "done"]]
    /\ rested' = FALSE
    /\ UNCHANGED <<turn, disk, pc, frame, live, watching, moved>>

PassSave(t) ==
    /\ pass[t].pc = "saving"
    /\ Save(pass[t].got)
    /\ pass' = [pass EXCEPT ![t].pc = "saved"]
    /\ UNCHANGED <<control, pc, frame, live, watching, rested, moved>>

\* last_finished and last_cost, then done.set().
PassDone(t) ==
    /\ pass[t].pc = "saved"
    /\ pass' = [pass EXCEPT ![t].pc = "done"]
    /\ rested' = FALSE
    /\ UNCHANGED <<control, disk, pc, frame, live, watching, moved>>

\* A daemon thread: it ends with the process.
Pass(t) ==
    /\ pc # "over"
    /\ PassFail(t) \/ PassSave(t) \/ PassDone(t) \/ \E p \in Partitions : PassAsk(t, p)

-----------------------------------------------------------------------------
(* The main thread.                                                        *)

\* The frame is drawn from the verdicts v; behind one that used remembered
\* verdicts, a recheck is begun.
Draw(c, v, remembered) ==
    /\ pc' = "browsing"
    /\ shown' = v
    /\ IF remembered THEN Begin(c) ELSE watching' = NoPass /\ UNCHANGED <<pass, live, rested>>
    /\ moved' = FALSE

\* Cluster.load, then access.load: what is remembered of the partitions with
\* room.  With no gap the frame can be drawn at once.
Read ==
    /\ pc = "reading"
    /\ \E c \in Rooms :
          LET known == [p \in Partitions |-> IF p \in c THEN disk[p] ELSE None] IN
          /\ room' = c
          /\ missing' = c \ Asked(disk)
          /\ recall' = (Asked(disk) # {})
          /\ got' = known
          /\ IF recall' /\ missing' = {}
             THEN /\ Draw(c, known, TRUE)
                  /\ crossed' = IF live \in Running THEN crossed ELSE {}
             ELSE pc' = "asking" /\ UNCHANGED <<shown, crossed, recheck, moved>>
    /\ UNCHANGED <<control, disk>>

\* The reading fails: _reject_broken_snapshot ends the program.
Broken ==
    /\ pc = "reading" /\ pc' = "over"
    /\ UNCHANGED <<control, disk, frame, recheck, moved>>

\* A recheck has been told about p and has not saved that yet.
Unsaved(p) ==
    \E t \in Passes : pass[t].pc \in {"asking", "saving"} /\ p \in Asked(pass[t].got)

\* The frame waits for the verdict of a partition nothing is remembered of.
Ask(p) ==
    /\ pc = "asking" /\ p \in missing \ Asked(got)
    /\ \E v \in Verdict : Answer(p, v) /\ got' = [got EXCEPT ![p] = v]
    /\ crossed' = IF Unsaved(p) THEN crossed \cup {p} ELSE crossed
    /\ UNCHANGED <<disk, pc, room, missing, recall, shown, recheck, moved>>

\* The gap is closed: what was asked is saved, and the frame drawn.
Show ==
    /\ pc = "asking" /\ missing \subseteq Asked(got)
    /\ Save([p \in Partitions |-> IF p \in missing THEN got[p] ELSE None])
    /\ Draw(room, got, recall)
    /\ missing' = {}
    /\ UNCHANGED <<control, room, recall, got, crossed>>

\* `r`, or a quiet interval: RELOAD.
Reload ==
    /\ pc = "browsing" /\ pc' = "reading"
    /\ watching' = NoPass
    /\ UNCHANGED <<control, disk, frame, pass, live, rested>>

PressR == Reload /\ UNCHANGED moved
IdleReload == AutoRefresh /\ Reload /\ UNCHANGED moved

\* _Recheck.moved: a finished pass disagrees with what is on screen.
Contradicts(t, p) ==
    /\ pass[t].pc = "done" /\ Asked(pass[t].got) # {}
    /\ shown[p] # None /\ shown[p].says # pass[t].got[p].says

MovedReload ==
    /\ watching # NoPass /\ \E p \in Partitions : Contradicts(watching, p)
    /\ Reload
    /\ moved' = TRUE

Quit ==
    /\ pc = "browsing" /\ pc' = "over"
    /\ UNCHANGED <<control, disk, frame, recheck, moved>>

Over == pc = "over" /\ UNCHANGED vars

Next ==
    \/ Rest \/ Read \/ Broken \/ Show \/ PressR \/ IdleReload \/ MovedReload \/ Quit \/ Over
    \/ \E p \in Partitions : ChangeMind(p) \/ Expire(p) \/ Ask(p)
    \/ \E t \in Passes : Pass(t)

\* Threads run, dry-runs come back within their timeout, the browse polls every
\* 0.3s while it has a recheck to watch, and a reader leaves the keyboard alone
\* for an idle interval every now and then.  Nobody has to press a key.
Fairness ==
    /\ WF_vars(Rest) /\ WF_vars(Read) /\ WF_vars(Show)
    /\ WF_vars(IdleReload) /\ WF_vars(MovedReload)
    /\ WF_vars(\E p \in Partitions : Ask(p))
    /\ \A t \in Passes : WF_vars(Pass(t))

Spec == Init /\ [][Next]_vars /\ Fairness

-----------------------------------------------------------------------------
(* Correctness.                                                            *)

Verdicts == [Partitions -> Verdict \cup {None}]

\* Every variable has the type of its counterpart, and a frame shows a verdict
\* for each of the partitions it was drawn for and for no other.
TypeOK ==
    /\ turn \in [Partitions -> 0 .. MaxTurns]
    /\ silences \in 0 .. MaxSilences
    /\ disk \in Verdicts /\ got \in Verdicts /\ shown \in Verdicts
    /\ pc \in {"reading", "asking", "browsing", "over"}
    /\ room \in SUBSET Partitions /\ missing \subseteq room /\ crossed \subseteq Partitions
    /\ recall \in BOOLEAN /\ rested \in BOOLEAN /\ moved \in BOOLEAN
    /\ pass \in [Passes -> [pc : {"off", "asking", "saving", "saved", "done"},
                            todo : SUBSET Partitions, got : Verdicts]]
    /\ live \in Passes \cup {NoPass} /\ watching \in {NoPass, live}
    /\ pc = "browsing" => Asked(shown) = room

\* "One at a time": `r` held down does not start a recheck per keypress, not
\* even when reloads orphan the one that is running.
OneRecheck == Cardinality(Running) <= 1

\* A redraw never puts an older answer about a partition over a newer one,
\* although three paths write the answers down and a frame may mix them.  It may
\* where the remembered answer lapsed during a recheck: the frame then asks, and
\* what the recheck was told before that is saved over it.
FrameNeverRegresses ==
    [][\A p \in (Asked(shown) \cap Asked(shown')) \ crossed :
          shown'[p].turn >= shown[p].turn]_vars

\* time_to_reload: "A reload rebuilds from the answer the recheck just wrote":
\* a reload made because the answer moved puts that answer on screen, or a
\* later one.
CorrectionReachesScreen ==
    [][moved /\ pc' = "browsing" =>
          \A p \in Asked(shown') \cap Asked(pass[live].got) :
              shown'[p].turn >= pass[live].got[p].turn]_vars

\* When the control plane settles and the same partitions keep having room, a
\* browse that is left open ends up showing its answers, however it started,
\* whatever was pressed and whichever answers failed to come the first time.
ScreenCatchesUp ==
    (\E c \in Rooms : <>[](room = c)) =>
        <>[](pc = "over" \/ \A p \in Asked(shown) : shown[p].says = Mind(turn[p]))

=============================================================================
