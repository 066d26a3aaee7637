---------------------------- MODULE SnapshotLoad ----------------------------
(***************************************************************************)
(* Taking one snapshot (Cluster.load, core/cluster.py): the loaders of a   *)
(* backend run together, one worker each, and share some of the commands   *)
(* they read.  The module is parameterised by the backend's table: which   *)
(* commands each loader reads, which of them the backend keeps, whether it *)
(* keeps failures, and whether a lock guards what it keeps.                *)
(*                                                                         *)
(* The cluster changes while it is being asked: an answer is the version   *)
(* of the cluster it describes.  What was asked is also recorded           *)
(* (CapturingRunner) and written to a file (cmd_snapshot); the same        *)
(* loaders then run over the file (RecordedRunner), in this version of the *)
(* tool or in one that words its commands with other flags.                *)
(***************************************************************************)
EXTENDS Integers, Sequences

CONSTANTS
    Tables,    \* the backends, each a record of what follows
    Everyone,  \* the loaders of any of them
    Flags,     \* the words of a command that begin with "-" or hold a "="
    MaxVersion \* bound: how often the cluster changes

Unasked == 0
Failed == -1
NoCommand == "no command"
Nobody == "nobody"

ASSUME SnapshotAssumption ==
    /\ Nobody \notin Everyone /\ MaxVersion \in Nat \ {0}
    /\ \A t \in Tables :
          /\ t.loaders \subseteq Everyone /\ NoCommand \notin t.commands
          /\ t.reads \in [t.loaders -> Seq(t.commands)]
          /\ t.latched \subseteq t.kept /\ t.kept \subseteq t.commands
          /\ t.tolerated \subseteq t.loaders \X t.commands
          /\ t.instead \in [t.commands -> t.commands \cup {NoCommand}]
          /\ t.locked \in BOOLEAN /\ (t.latched # {} => t.locked)
          /\ t.argv \in [t.commands -> Seq(STRING)] /\ t.later \in [t.commands -> Seq(STRING)]

VARIABLES
    table,   \* the backend of this load
    version, \* of the cluster, as it is now
    mode,    \* "live"; "writing" and "written", of the file; "over"; or "replay" of it
    argv,    \* command -> how the version that runs words it
    todo,    \* loader -> the commands it has yet to read
    asking,  \* the loaders whose command is running
    lock,    \* who holds the backend's lock
    kept,    \* command -> the answer the backend keeps
    used,    \* loader -> command -> the answer it worked with
    errors,  \* the loaders that failed
    asks,    \* command -> how often it has been run
    tape,    \* command -> the answer recorded last
    file,    \* the recording in the file, or none of this load
    first    \* what the live load came to: <<used, errors, asks>>

tool == <<table, argv>>
backend == <<lock, kept>>
recorder == <<asks, tape>>
vars == <<tool, version, mode, todo, asking, backend, used, errors, recorder, file, first>>

-----------------------------------------------------------------------------
(* The backend.                                                            *)

Loaders == table.loaders     \* the queries of a load: "nodes", "queues", ...
Commands == table.commands   \* what the backend runs
Reads == table.reads         \* loader -> the commands it reads, in order
Kept == table.kept           \* the commands whose answer the backend keeps
Latched == table.latched     \* those of them whose failure it keeps as well
Tolerated == table.tolerated \* <<loader, command>>: the loader does without this answer
Instead == table.instead     \* command -> what is read if it fails, or NoCommand
Locked == table.locked       \* a lock is held over a kept command while it is asked

Command(l) == Head(todo[l])
Done(l) == todo[l] = <<>>
Loaded == \A l \in Loaders : Done(l)

\* A load, or that of a recording, is done and what it came to is reported.
Reported == mode \in {"live", "replay"} /\ Loaded

Nothing == [l \in Loaders |-> [c \in Commands |-> Unasked]]

Init ==
    /\ table \in Tables
    /\ version = 1 /\ mode = "live" /\ argv = table.argv /\ todo = Reads /\ asking = {} /\ lock = Nobody
    /\ kept = [c \in Commands |-> Unasked] /\ used = Nothing /\ errors = {}
    /\ asks = [c \in Commands |-> 0] /\ tape = [c \in Commands |-> Unasked]
    /\ file = <<>> /\ first = <<Nothing, {}, asks>>

\* The cluster moves on, which matters as long as somebody reads it.
Change ==
    /\ mode = "live" /\ ~Loaded /\ version < MaxVersion
    /\ version' = version + 1
    /\ UNCHANGED <<tool, mode, todo, asking, backend, used, errors, recorder, file, first>>

-----------------------------------------------------------------------------
(* One loader.                                                             *)

\* It has an answer, or the failure of its command.  What a loader raises is
\* recorded under its label by `_try`.
Gets(l, answer) ==
    LET c == Command(l)
        instead == answer = Failed /\ Instead[c] # NoCommand
        raises == answer = Failed /\ ~instead /\ <<l, c>> \notin Tolerated IN
    /\ used' = [used EXCEPT ![l][c] = answer]
    /\ errors' = IF raises THEN errors \cup {l} ELSE errors
    /\ todo' = [todo EXCEPT ![l] =
          IF raises THEN <<>>
          ELSE IF instead THEN <<Instead[c]>> \o Tail(@)
          ELSE Tail(@)]

\* Seeded bug: what is kept is looked at, and filled, without the lock.
GuardedNever(c) == FALSE

\* A lock is held over a look at what is kept, and over the command that fills it.
Guarded(c) == Locked /\ c \in Kept

\* Its command's answer is kept already.
Find(l) ==
    /\ ~Done(l) /\ l \notin asking
    /\ LET c == Command(l) IN
       /\ c \in Kept /\ kept[c] # Unasked
       /\ Guarded(c) => lock = Nobody
       /\ Gets(l, kept[c])
    /\ UNCHANGED <<tool, version, mode, asking, backend, recorder, file, first>>

\* It is not, and the command is run.
Ask(l) ==
    /\ ~Done(l) /\ l \notin asking
    /\ LET c == Command(l) IN
       /\ c \in Kept => kept[c] = Unasked
       /\ Guarded(c) => lock = Nobody
       /\ lock' = IF Guarded(c) THEN l ELSE lock
    /\ asking' = asking \cup {l}
    /\ UNCHANGED <<tool, version, mode, todo, kept, used, errors, recorder, file, first>>

\* Seeded bug: a failure is kept like nothing at all.
KeepsSuccess(c, answer) == c \in Kept /\ answer # Failed

\* What the backend keeps.
Keeps(c, answer) == c \in Kept /\ (answer # Failed \/ c \in Latched)

\* Seeded bug: the lock is not released when the command raises.
ReleaseAfter(l, answer) == lock' = IF lock = l /\ answer # Failed THEN Nobody ELSE lock

\* The lock is released whatever came of the command.
Release(l, answer) == lock' = IF lock = l THEN Nobody ELSE lock

\* What the recorder keeps, failures too, under the words of the command: of two
\* commands of the same words, the one that answered last.
Taped(c, answer) == [d \in Commands |-> IF argv[d] = argv[c] THEN answer ELSE tape[d]]

\* RecordedRunner._signature: the program and its sub-command.
Signature(words) == SelectSeq(words, LAMBDA w : w \notin Flags)

\* The words k stand in the command line c, one after the other.
Within(k, c) == \E i \in 0 .. Len(c) - Len(k) : SubSeq(c, i + 1, i + Len(k)) = k

\* What replaying relies on.  Another version gives a command other flags, and a
\* command line that holds the words of another command holds more of its own; a
\* command that another's recording could be taken for is the first that some
\* loader reads, so every recording has it.
ASSUME WordsAssumption ==
    \A t \in Tables : \A c \in t.commands :
        /\ Signature(t.later[c]) = Signature(t.argv[c])
        /\ \A k \in t.commands : t.argv[k] # t.argv[c] =>
              /\ Within(t.argv[k], t.later[c]) =>
                    Within(t.argv[c], t.later[c]) /\ Len(t.argv[k]) < Len(t.argv[c])
              /\ Signature(t.argv[k]) = Signature(t.argv[c])
                    \/ Within(t.argv[k], t.argv[c]) \/ Within(t.argv[k], t.later[c]) =>
                 \E l \in t.loaders : t.reads[l] # <<>> /\ Head(t.reads[l]) = c

\* Seeded bug: the first recording of the same program and sub-command will do.
LookupAnyway(c) ==
    LET recorded == {k \in DOMAIN file : file[k] # Unasked}
        within == {k \in recorded : Within(table.argv[k], argv[c])}
    IN  IF within # {}
        THEN {k \in within : \A j \in within : Len(table.argv[k]) >= Len(table.argv[j])}
        ELSE {k \in recorded : Signature(table.argv[k]) = Signature(argv[c])}

\* RecordedRunner._lookup: the recordings that may answer a command: the longest
\* that its words contain, or else the one that differs in nothing but flags.
Lookup(c) ==
    LET recorded == {k \in DOMAIN file : file[k] # Unasked}
        within == {k \in recorded : Within(table.argv[k], argv[c])}
        alike == {k \in recorded : Signature(table.argv[k]) = Signature(argv[c])}
    IN  IF within # {}
        THEN {k \in within : \A j \in within : Len(table.argv[k]) >= Len(table.argv[j])}
        ELSE {k \in alike : \A j \in alike : table.argv[j] = table.argv[k]}

\* What a command can answer: the cluster as it is or a failure; or what was
\* recorded, and a failure where nothing is found.
Answers(c) ==
    IF mode = "live" THEN {version, Failed}
    ELSE IF Lookup(c) = {} THEN {Failed}
    ELSE {file[k] : k \in Lookup(c)}

\* The command ends: an answer, an error or a timeout.
Answer(l) ==
    /\ l \in asking
    /\ LET c == Command(l) IN
       \E answer \in Answers(c) :
          /\ kept' = IF Keeps(c, answer) THEN [kept EXCEPT ![c] = answer] ELSE kept
          /\ asks' = [asks EXCEPT ![c] = @ + 1]
          /\ tape' = IF mode = "live" THEN Taped(c, answer) ELSE tape
          /\ Release(l, answer)
          /\ Gets(l, answer)
    /\ asking' = asking \ {l}
    /\ UNCHANGED <<tool, version, mode, file, first>>

-----------------------------------------------------------------------------
(* The file.                                                               *)

reading == <<todo, asking, backend, used, errors, recorder>>

\* cmd_snapshot: a temporary file is made beside the target, and filled.
Draft ==
    /\ mode = "live" /\ Loaded
    /\ mode' = "writing" /\ first' = <<used, errors, asks>>
    /\ UNCHANGED <<tool, version, reading, file>>

Fill ==
    /\ mode = "writing" /\ mode' = "written"
    /\ UNCHANGED <<tool, version, reading, file, first>>

\* The disk is full, or the process is killed: the target is as it was.
Abandon ==
    /\ mode \in {"writing", "written"} /\ mode' = "over"
    /\ UNCHANGED <<tool, version, reading, file, first>>

\* The temporary file takes the target's name, and the process ends.
Rename ==
    /\ mode = "written" /\ mode' = "over"
    /\ file' = tape
    /\ UNCHANGED <<tool, version, reading, first>>

\* _load_replay: a new backend over the file, and the same loaders, in a version
\* of the tool that may word its commands otherwise.
Replay ==
    /\ mode = "over" /\ file # <<>>
    /\ mode' = "replay" /\ argv' \in {table.argv, table.later}
    /\ todo' = Reads /\ used' = Nothing /\ errors' = {}
    /\ kept' = [c \in Commands |-> Unasked] /\ asks' = [c \in Commands |-> 0]
    /\ UNCHANGED <<table, version, asking, lock, tape, file, first>>

\* Nothing is left to do: no recording was kept, or its replay is loaded.
Ended ==
    /\ (mode = "over" /\ file = <<>>) \/ (mode = "replay" /\ Loaded)
    /\ UNCHANGED vars

Loader(l) == Find(l) \/ Ask(l) \/ Answer(l)

Next ==
    \/ Change \/ Draft \/ Fill \/ Abandon \/ Rename \/ Replay \/ Ended
    \/ \E l \in Loaders : Loader(l)

\* Each worker gets its turn, and every command ends: it has a timeout.
Spec == Init /\ [][Next]_vars /\ \A l \in Everyone : WF_vars(l \in Loaders /\ Loader(l))

-----------------------------------------------------------------------------
(* Correctness.                                                            *)

Readings == {Unasked, Failed} \cup 1 .. MaxVersion

\* Every variable has its type, and whoever holds the lock is asking.
TypeOK ==
    /\ table \in Tables /\ version \in 1 .. MaxVersion
    /\ mode \in {"live", "writing", "written", "over", "replay"}
    /\ argv \in {table.argv, table.later} /\ file \in {<<>>, tape}
    /\ todo \in [Loaders -> Seq(Commands)] /\ asking \subseteq Loaders
    /\ lock \in asking \cup {Nobody}
    /\ kept \in [Commands -> Readings] /\ tape \in [Commands -> Readings]
    /\ used \in [Loaders -> [Commands -> Readings]]
    /\ errors \subseteq Loaders /\ asks \in [Commands -> Nat]

\* "A shared answer is still fetched exactly once": loaders that share a command
\* describe the cluster at one instant, where a lock guards it.
OneInstant ==
    Locked => \A c \in Kept : \A l, k \in Loaders :
        used[l][c] > Unasked /\ used[k][c] > Unasked => used[l][c] = used[k][c]

\* "The failure is cached too, so a controller that cannot answer is asked once
\* rather than once per consumer."
AskedOnce == \A c \in Latched : asks[c] <= 1

\* What a replay has of a command is what was recorded of that command, whatever
\* flags were added since ("a wrong answer, where failing to find it is only a
\* missing one").  And "replay should reproduce the breakage": a load that asked
\* everything once is had again, with its failures, by any version that words each
\* of its commands so that no other answers to it.
Own(c) ==
    \A k \in Commands \ {c} :
        /\ table.argv[k] # table.argv[c]
        /\ argv # table.argv =>
              ~Within(table.argv[k], argv[c]) /\ Signature(table.argv[k]) # Signature(argv[c])

ReplayReproduces ==
    mode = "replay" =>
        /\ \A l \in Loaders, c \in Commands : used[l][c] > Unasked => used[l][c] = tape[c]
        /\ Loaded /\ (\A c \in Commands : first[3][c] <= 1 /\ Own(c))
           => errors = first[2] /\ used = first[1]

\* A load ends: no loader waits for ever on a command or for the lock.
LoadEnds == <>Loaded

=============================================================================
