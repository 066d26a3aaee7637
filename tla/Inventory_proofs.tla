------------------------- MODULE Inventory_proofs -------------------------
(***************************************************************************)
(* What the lock of a backend guarantees for every backend's table,        *)
(* however many loaders share its commands and however often the cluster   *)
(* changes while they are read; what a recording of a load tells of it     *)
(* when it is replayed; and that what a snapshot says of any cluster, its  *)
(* hosts, the members of its queues and the room they have, is so.         *)
(***************************************************************************)
EXTENDS Inventory, FiniteSetTheorems, WellFoundedInduction, TLAPS

\* The shape of the state.
Shape ==
    /\ table \in Tables /\ version \in Nat \ {0}
    /\ mode \in {"live", "writing", "written", "over", "replay"}
    /\ todo \in [Loaders -> Seq(Commands)] /\ asking \in SUBSET Loaders
    /\ kept \in [Commands -> Int] /\ tape \in [Commands -> Int]
    /\ used \in [Loaders -> [Commands -> Int]] /\ asks \in [Commands -> Nat]
    /\ file \in {<<>>} \cup [Commands -> Int] /\ (mode = "replay" => file # <<>>)

\* A loader whose command runs has one to run; where there is a lock, and the
\* answer is one to keep, it holds the lock and there is no answer yet.
Guarding ==
    \A l \in asking :
        /\ todo[l] # <<>>
        /\ Guarded(Command(l)) => lock = l /\ kept[Command(l)] = Unasked

\* A command whose failure is kept is run until it has been answered, once.
Counting == \A c \in Latched : asks[c] = IF kept[c] = Unasked THEN 0 ELSE 1

\* Where there is a lock, what a loader worked with is what is kept.
Agreeing == Locked => \A l \in Loaders, c \in Kept : used[l][c] > Unasked => used[l][c] = kept[c]

\* Nobody is at work from the end of the load until its recording is replayed.
Resting == mode \in {"writing", "written", "over"} => Loaded

IInv == Shape /\ Guarding /\ Counting /\ Agreeing /\ Resting

-----------------------------------------------------------------------------
\* What an assumption says of the table of this load.
LEMMA TableShape ==
    ASSUME table \in Tables
    PROVE  /\ Loaders \subseteq Everyone /\ Kept \subseteq Commands /\ Latched \subseteq Kept
           /\ Reads \in [Loaders -> Seq(Commands)] /\ (Latched # {} => Locked)
           /\ Instead \in [Commands -> Commands \cup {NoCommand}]
           /\ Nobody \notin Loaders
BY SnapshotAssumption DEF Loaders, Kept, Commands, Latched, Reads, Locked, Instead

\* The command of a loader that is not done.
LEMMA CommandShape ==
    ASSUME Shape, NEW l \in Loaders, todo[l] # <<>>
    PROVE  Command(l) \in Commands /\ Tail(todo[l]) \in Seq(Commands)
<1>1. todo[l] \in Seq(Commands)
    BY DEF Shape
<1>2. QED
    BY <1>1 DEF Command

\* What a loader does with an answer.
LEMMA GetsShape ==
    ASSUME Shape, NEW l \in Loaders, todo[l] # <<>>, NEW answer \in Int, Gets(l, answer)
    PROVE  /\ used' = [used EXCEPT ![l][Command(l)] = answer]
           /\ used' \in [Loaders -> [Commands -> Int]]
           /\ todo' \in [Loaders -> Seq(Commands)]
           /\ \A k \in Loaders \ {l} : todo'[k] = todo[k]
<1>1. Command(l) \in Commands /\ Tail(todo[l]) \in Seq(Commands)
    BY CommandShape
<1>2. used' = [used EXCEPT ![l][Command(l)] = answer]
    BY DEF Gets
<1>3. used' \in [Loaders -> [Commands -> Int]]
    BY <1>1, <1>2 DEF Shape
<1>4. PICK next \in Seq(Commands) : todo' = [todo EXCEPT ![l] = next]
    <2> DEFINE instead == answer = Failed /\ Instead[Command(l)] # NoCommand
               raises == answer = Failed /\ ~instead /\ <<l, Command(l)>> \notin Tolerated
               next == IF raises THEN <<>>
                       ELSE IF instead THEN <<Instead[Command(l)]>> \o Tail(todo[l])
                       ELSE Tail(todo[l])
    <2>1. todo' = [todo EXCEPT ![l] = next]
        BY DEF Gets, Shape
    <2>2. instead => Instead[Command(l)] \in Commands
        BY <1>1, TableShape DEF Shape
    <2>3. next \in Seq(Commands)
        BY <1>1, <2>2
    <2>4. QED
        BY <2>1, <2>3
<1>5. QED
    BY <1>2, <1>3, <1>4 DEF Shape

\* What a command answers is an answer or a failure.
LEMMA AnswersShape ==
    ASSUME Shape, NEW c \in Commands, NEW answer \in Answers(c)
    PROVE  answer \in Int /\ answer # Unasked
<1>1. version \in Nat \ {0} /\ file \in {<<>>} \cup [Commands -> Int]
    BY DEF Shape
<1>2. \A k \in Lookup(c) : k \in DOMAIN file /\ file[k] # Unasked
    BY DEF Lookup
<1>3. file = <<>> => DOMAIN file = {}
    OBVIOUS
<1>4. \A k \in Lookup(c) : file[k] \in Int /\ file[k] # Unasked
    BY <1>1, <1>2, <1>3
<1>5. QED
    BY <1>1, <1>4 DEF Answers, Unasked, Failed

-----------------------------------------------------------------------------
LEMMA InitInvariant == Init => IInv
<1> SUFFICES ASSUME Init PROVE IInv
    OBVIOUS
<1>1. table \in Tables /\ asking = {}
    BY DEF Init
<1>2. Shape
    BY <1>1, TableShape DEF Init, Shape, Nothing, Unasked
<1>3. Counting /\ Agreeing /\ Guarding /\ Resting
    BY <1>1, TableShape DEF Init, Counting, Agreeing, Guarding, Resting, Nothing, Unasked
<1>4. QED
    BY <1>2, <1>3 DEF IInv

\* A loader that finds its answer works with what is kept.
LEMMA FindInvariant ==
    ASSUME IInv, NEW l \in Loaders, Find(l)
    PROVE  IInv'
<1> DEFINE c == Command(l)
<1>1. Shape /\ todo[l] # <<>> /\ c \in Kept /\ l \notin asking /\ Gets(l, kept[c])
    BY DEF IInv, Find, Done
<1>2. c \in Commands /\ kept[c] \in Int
    BY <1>1, CommandShape DEF Shape
<1>3. /\ used' = [used EXCEPT ![l][c] = kept[c]] /\ used' \in [Loaders -> [Commands -> Int]]
      /\ todo' \in [Loaders -> Seq(Commands)] /\ \A k \in Loaders \ {l} : todo'[k] = todo[k]
    BY <1>1, <1>2, GetsShape
<1>4. UNCHANGED <<table, version, mode, asking, lock, kept, asks, tape, file>>
    BY DEF Find, tool, backend, recorder
<1>5. Shape' /\ Counting'
    BY <1>3, <1>4 DEF IInv, Shape, Counting, Loaders, Commands, Latched
<1>6. Guarding'
    BY <1>1, <1>3, <1>4 DEF IInv, Guarding, Guarded, Command, Shape, Locked, Kept
<1>7. Agreeing'
    <2> SUFFICES ASSUME Locked, NEW k \in Loaders, NEW d \in Kept, used'[k][d] > Unasked
                 PROVE  used'[k][d] = kept[d]
        BY <1>4 DEF Agreeing, Locked, Loaders, Kept
    <2>1. d \in Commands
        BY <1>1, TableShape DEF Shape
    <2>2. CASE k = l /\ d = c
        BY <1>1, <1>2, <1>3, <2>2 DEF Shape
    <2>3. CASE ~(k = l /\ d = c)
        <3>1. used'[k][d] = used[k][d]
            BY <1>1, <1>2, <1>3, <2>1, <2>3 DEF Shape
        <3>2. QED
            BY <3>1 DEF IInv, Agreeing
    <2>4. QED
        BY <2>2, <2>3
<1>8. Resting'
    BY <1>1, <1>4 DEF IInv, Resting, Loaded, Done
<1>9. QED
    BY <1>5, <1>6, <1>7, <1>8 DEF IInv

LEMMA AskInvariant ==
    ASSUME IInv, NEW l \in Loaders, Ask(l)
    PROVE  IInv'
<1> DEFINE c == Command(l)
<1>1. Shape /\ todo[l] # <<>> /\ (c \in Kept => kept[c] = Unasked) /\ asking' = asking \cup {l}
    BY DEF IInv, Ask, Done
<1>2. /\ Guarded(c) => lock = Nobody /\ lock' = l
      /\ ~Guarded(c) => lock' = lock
    BY DEF Ask
<1>3. UNCHANGED <<table, version, mode, todo, kept, used, asks, tape, file>>
    BY DEF Ask, tool, recorder
<1>4. Shape' /\ Counting' /\ Agreeing'
    BY <1>1, <1>3 DEF IInv, Shape, Counting, Agreeing, Loaders, Commands, Latched, Locked, Kept
<1>5. ASSUME NEW k \in asking' PROVE todo'[k] # <<>> /\ (Guarded(Command(k))' => lock' = k /\ kept'[Command(k)'] = Unasked)
    <2>1. Command(k)' = Command(k) /\ Guarded(Command(k))' = Guarded(Command(k))
        BY <1>3 DEF Command, Guarded, Locked, Kept
    <2>2. CASE k = l
        BY <1>1, <1>2, <1>3, <2>1, <2>2 DEF Guarded
    <2>3. CASE k # l
        <3>1. k \in asking /\ (Guarded(Command(k)) => lock = k /\ kept[Command(k)] = Unasked) /\ todo[k] # <<>>
            BY <1>1, <1>5, <2>3 DEF IInv, Guarding
        <3>2. lock = k => lock # Nobody
            BY <1>1, <3>1, TableShape DEF Shape
        <3>3. QED
            BY <1>2, <1>3, <2>1, <3>1, <3>2
    <2>4. QED
        BY <2>2, <2>3
<1>6. Resting'
    BY <1>1, <1>3 DEF IInv, Resting, Loaded, Done
<1>7. QED
    BY <1>4, <1>5, <1>6 DEF IInv, Guarding

\* The answer to a kept command comes where there is none: nobody has worked with
\* one, and nobody else waits for one.
LEMMA AnswerInvariant ==
    ASSUME IInv, NEW l \in Loaders, Answer(l)
    PROVE  IInv'
<1> DEFINE c == Command(l)
<1>1. Shape /\ l \in asking /\ todo[l] # <<>> /\ (Guarded(c) => lock = l /\ kept[c] = Unasked)
    BY DEF IInv, Guarding, Answer
<1>2. PICK answer \in Answers(c) :
          /\ kept' = IF Keeps(c, answer) THEN [kept EXCEPT ![c] = answer] ELSE kept
          /\ asks' = [asks EXCEPT ![c] = @ + 1]
          /\ tape' = IF mode = "live" THEN Taped(c, answer) ELSE tape
          /\ Release(l, answer)
          /\ Gets(l, answer)
    BY DEF Answer
<1>3. asking' = asking \ {l} /\ UNCHANGED <<table, version, mode, file>>
    BY DEF Answer, tool
<1>4. c \in Commands /\ answer \in Int /\ answer # Unasked
    BY <1>1, CommandShape, AnswersShape
<1>5. /\ used' = [used EXCEPT ![l][c] = answer] /\ used' \in [Loaders -> [Commands -> Int]]
      /\ todo' \in [Loaders -> Seq(Commands)] /\ \A k \in Loaders \ {l} : todo'[k] = todo[k]
    BY <1>1, <1>2, <1>4, GetsShape
<1>6. Shape'
    <2>1. kept' \in [Commands -> Int] /\ tape' \in [Commands -> Int]
        BY <1>1, <1>2, <1>4 DEF Shape, Taped
    <2>2. asks' \in [Commands -> Nat]
        BY <1>1, <1>2, <1>4 DEF Shape
    <2>3. QED
        BY <1>1, <1>3, <1>5, <2>1, <2>2 DEF Shape, Loaders, Commands
<1>7. Counting'
    <2> SUFFICES ASSUME NEW d \in Latched
                 PROVE  asks'[d] = IF kept'[d] = Unasked THEN 0 ELSE 1
        BY <1>3 DEF Counting, Latched
    <2>1. d \in Commands /\ asks[d] = IF kept[d] = Unasked THEN 0 ELSE 1
        BY <1>1, TableShape DEF IInv, Counting, Shape
    <2>2. CASE d = c
        <3>1. Guarded(c) /\ Keeps(c, answer)
            BY <1>1, <2>2, TableShape DEF Guarded, Keeps, Shape
        <3>2. kept'[c] = answer /\ asks'[c] = 1
            BY <1>1, <1>2, <1>4, <2>1, <2>2, <3>1 DEF Shape
        <3>3. QED
            BY <1>4, <2>2, <3>2
    <2>3. CASE d # c
        BY <1>1, <1>2, <2>1, <2>3 DEF Shape
    <2>4. QED
        BY <2>2, <2>3
<1>8. Guarding'
    <2> SUFFICES ASSUME NEW k \in asking'
                 PROVE  todo'[k] # <<>> /\ (Guarded(Command(k)') => lock' = k /\ kept'[Command(k)'] = Unasked)
        BY <1>3 DEF Guarding, Guarded, Locked, Kept
    <2>1. k \in asking /\ k # l /\ k \in Loaders
        BY <1>1, <1>3 DEF Shape
    <2>2. todo[k] # <<>> /\ Command(k)' = Command(k) /\ todo'[k] = todo[k]
        BY <1>5, <2>1 DEF IInv, Guarding, Command
    <2>3. CASE Guarded(Command(k))
        <3>1. lock = k /\ kept[Command(k)] = Unasked
            BY <2>1, <2>3 DEF IInv, Guarding
        <3>2. ~Guarded(c) /\ lock' = lock
            BY <1>1, <1>2, <2>1, <3>1 DEF Release
        <3>3. Command(k) # c
            BY <2>3, <3>2
        <3>4. Command(k) \in Commands
            BY <1>1, <2>1, <2>2, CommandShape
        <3>5. kept'[Command(k)] = kept[Command(k)]
            BY <1>1, <1>2, <1>4, <3>3, <3>4 DEF Shape
        <3>6. QED
            BY <2>2, <3>1, <3>2, <3>5
    <2>4. QED
        BY <2>2, <2>3
<1>9. Agreeing'
    <2> SUFFICES ASSUME Locked, NEW k \in Loaders, NEW d \in Kept, used'[k][d] > Unasked
                 PROVE  used'[k][d] = kept'[d]
        BY <1>3 DEF Agreeing, Locked, Loaders, Kept
    <2>1. d \in Commands /\ used[k][d] \in Int /\ kept[d] \in Int
        BY <1>1, TableShape DEF Shape
    <2>2. CASE d = c
        <3>1. kept[c] = Unasked
            BY <1>1, <2>2 DEF Guarded
        <3>2. ~(used[k][c] > Unasked)
            BY <2>1, <2>2, <3>1 DEF IInv, Agreeing, Unasked
        <3>3. k = l /\ used'[k][c] = answer
            BY <1>1, <1>4, <1>5, <2>2, <3>2 DEF Shape
        <3>4. Keeps(c, answer)
            BY <2>2, <3>3 DEF Keeps, Failed, Unasked
        <3>5. QED
            BY <1>1, <1>2, <1>4, <2>2, <3>3, <3>4 DEF Shape
    <2>3. CASE d # c
        <3>1. used'[k][d] = used[k][d] /\ kept'[d] = kept[d]
            BY <1>1, <1>2, <1>4, <1>5, <2>1, <2>3 DEF Shape
        <3>2. QED
            BY <3>1 DEF IInv, Agreeing
    <2>4. QED
        BY <2>2, <2>3
<1>10. Resting'
    BY <1>1, <1>3 DEF IInv, Shape, Resting, Loaded, Done
<1>11. QED
    BY <1>6, <1>7, <1>8, <1>9, <1>10 DEF IInv

\* A replay starts over, with nobody at work.
LEMMA ReplayInvariant ==
    ASSUME IInv, Replay
    PROVE  IInv'
<1>1. Shape /\ table' = table /\ table \in Tables /\ asking' = asking
    BY DEF IInv, Shape, Replay
<1>2. asking = {}
    BY <1>1 DEF Replay, Resting, Loaded, Done, IInv, Guarding, Shape
<1>3. /\ mode' = "replay" /\ todo' = Reads /\ used' = Nothing
      /\ kept' = [d \in Commands |-> Unasked] /\ asks' = [d \in Commands |-> 0]
      /\ UNCHANGED <<version, tape, file>> /\ file # <<>>
    BY DEF Replay
<1>4. Shape'
    BY <1>1, <1>2, <1>3, TableShape DEF Shape, Nothing, Unasked, Loaders, Commands
<1>5. Counting' /\ Agreeing' /\ Guarding' /\ Resting'
    BY <1>1, <1>2, <1>3, TableShape DEF Counting, Agreeing, Guarding, Resting, Nothing, Unasked, Loaders, Commands, Latched, Kept, Locked
<1>6. QED
    BY <1>4, <1>5 DEF IInv

LEMMA StepInvariant == IInv /\ [Next]_vars => IInv'
<1> SUFFICES ASSUME IInv, [Next]_vars PROVE IInv'
    OBVIOUS
<1>1. CASE Change \/ Draft \/ Fill \/ Abandon \/ Rename \/ Ended \/ UNCHANGED vars
    <2>1. /\ UNCHANGED <<table, todo, asking, lock, kept, used, asks, tape>>
          /\ version' \in {version, version + 1} /\ file' \in {file, tape}
        BY <1>1 DEF Change, Draft, Fill, Abandon, Rename, Ended, vars, reading, tool, backend, recorder
    <2>2. /\ mode' \in {"live", "writing", "written", "over", "replay"}
          /\ mode' = "replay" => mode = "replay" /\ file' = file
        BY <1>1 DEF Change, Draft, Fill, Abandon, Rename, Ended, vars, IInv, Shape
    <2>3. Resting'
        BY <1>1, <2>1 DEF Change, Draft, Fill, Abandon, Rename, Ended, vars, Resting, Loaded, Done, IInv, Loaders
    <2>4. QED
        BY <2>1, <2>2, <2>3 DEF IInv, Shape, Guarding, Counting, Agreeing, Guarded, Command, Loaders, Commands, Latched, Kept, Locked
<1>2. CASE Replay
    BY <1>2, ReplayInvariant
<1>3. CASE \E l \in Loaders : Loader(l)
    BY <1>3, FindInvariant, AskInvariant, AnswerInvariant DEF Loader
<1>4. QED
    BY <1>1, <1>2, <1>3 DEF Next

LEMMA LoadInvariant == Spec => []IInv
    BY InitInvariant, StepInvariant, PTL DEF Spec

\* Loaders that share what a lock guards describe the cluster at one instant,
\* whoever asked first and whatever failed.
THEOREM SharedAnswersAgree == Spec => []OneInstant
<1>1. IInv => OneInstant
    BY DEF IInv, Agreeing, OneInstant
<1>2. QED
    BY <1>1, LoadInvariant, PTL

\* A command whose failure is kept is run once, in a load and in a replay.
THEOREM FailuresAreAskedOnce == Spec => []AskedOnce
<1>1. IInv => AskedOnce
    BY DEF IInv, Counting, AskedOnce
<1>2. QED
    BY <1>1, LoadInvariant, PTL

-----------------------------------------------------------------------------
(* The recording.                                                          *)

\* What stands in the recording while it is taken and while it is replayed: the
\* same answer for the same words, one for the first command of every loader that
\* has begun, and nothing in the replay that is not in it.
Recording ==
    /\ argv \in {table.argv, table.later} /\ (mode # "replay" => argv = table.argv)
    /\ file \in {<<>>, tape} /\ (mode = "live" => file = <<>>)
    /\ \A c, k \in Commands : table.argv[c] = table.argv[k] => tape[c] = tape[k]
    /\ \A l \in Loaders : Reads[l] # <<>> /\ (mode = "live" => todo[l] # Reads[l])
          => tape[Head(Reads[l])] # Unasked
    /\ mode = "live" => \A c \in Commands : kept[c] # Unasked => tape[c] # Unasked
    /\ mode = "replay" => \A c \in Commands :
          /\ kept[c] > Unasked => kept[c] = tape[c]
          /\ \A l \in Loaders : used[l][c] > Unasked => used[l][c] = tape[c]

\* Words stand in themselves, and in no others of their length.
LEMMA WithinItself ==
    ASSUME NEW w \in Seq(STRING)
    PROVE  Within(w, w)
<1>1. SubSeq(w, 0 + 1, 0 + Len(w)) = w /\ 0 \in 0 .. Len(w) - Len(w)
    OBVIOUS
<1>2. QED
    BY <1>1 DEF Within

LEMMA WithinIsShorter ==
    ASSUME NEW k \in Seq(STRING), NEW w \in Seq(STRING), Within(k, w)
    PROVE  Len(k) <= Len(w) /\ (Len(k) = Len(w) => k = w)
<1>1. PICK i \in 0 .. Len(w) - Len(k) : SubSeq(w, i + 1, i + Len(k)) = k
    BY DEF Within
<1>2. Len(k) \in Nat /\ Len(w) \in Nat
    OBVIOUS
<1>3. Len(k) <= Len(w)
    BY <1>1, <1>2
<1>4. ASSUME Len(k) = Len(w) PROVE k = w
    <2>1. i = 0
        BY <1>1, <1>2, <1>4
    <2>2. SubSeq(w, 1, Len(w)) = w
        OBVIOUS
    <2>3. QED
        BY <1>1, <1>4, <2>1, <2>2
<1>5. QED
    BY <1>3, <1>4

\* What another version is worded like.
LEMMA WordsShape ==
    ASSUME table \in Tables, argv \in {table.argv, table.later}, NEW c \in Commands
    PROVE  /\ table.argv[c] \in Seq(STRING) /\ argv[c] \in Seq(STRING)
           /\ argv[c] = table.argv[c] \/ argv[c] = table.later[c]
           /\ Signature(argv[c]) = Signature(table.argv[c])
BY SnapshotAssumption, WordsAssumption DEF Commands

\* Of what is recorded, a command is answered by what was recorded of its words.
LEMMA LookupTells ==
    ASSUME Shape, Recording, mode = "replay", NEW c \in Commands, tape[c] # Unasked, NEW k \in Lookup(c)
    PROVE  k \in Commands /\ table.argv[k] = table.argv[c] /\ file[k] = tape[c]
<1> DEFINE recorded == {j \in DOMAIN file : file[j] # Unasked}
           within == {j \in recorded : Within(table.argv[j], argv[c])}
           alike == {j \in recorded : Signature(table.argv[j]) = Signature(argv[c])}
<1>1. table \in Tables /\ file = tape /\ DOMAIN file = Commands /\ c \in recorded
    BY DEF Shape, Recording
<1>2. /\ table.argv[c] \in Seq(STRING) /\ argv[c] \in Seq(STRING)
      /\ argv[c] = table.argv[c] \/ argv[c] = table.later[c]
      /\ Signature(argv[c]) = Signature(table.argv[c])
    BY <1>1, WordsShape DEF Recording
<1>3. k \in Commands /\ k \in recorded
    BY <1>1 DEF Lookup
<1>4. table.argv[k] \in Seq(STRING)
    BY <1>1, <1>3, WordsShape DEF Recording
<1>5. table.argv[k] = table.argv[c]
    <2>1. CASE within # {}
        <3>1. k \in within /\ \A j \in within : Len(table.argv[k]) >= Len(table.argv[j])
            BY <2>1 DEF Lookup
        <3> SUFFICES ASSUME table.argv[k] # table.argv[c] PROVE FALSE
            OBVIOUS
        <3>2. c \in within /\ Len(table.argv[k]) <= Len(table.argv[c]) /\ Len(table.argv[k]) # Len(table.argv[c])
            <4>1. CASE argv[c] = table.argv[c]
                BY <1>1, <1>2, <1>4, <3>1, <4>1, WithinItself, WithinIsShorter
            <4>2. CASE argv[c] = table.later[c]
                BY <1>1, <1>2, <1>3, <1>4, <3>1, <4>2, WordsAssumption DEF Commands
            <4>3. QED
                BY <1>2, <4>1, <4>2
        <3>3. QED
            BY <1>2, <1>4, <3>1, <3>2
    <2>2. CASE within = {}
        <3>1. k \in alike /\ \A j \in alike : table.argv[j] = table.argv[k]
            BY <2>2 DEF Lookup
        <3>2. QED
            BY <1>1, <1>2, <3>1
    <2>3. QED
        BY <2>1, <2>2
<1>6. QED
    BY <1>1, <1>3, <1>5 DEF Recording

\* Nothing answers a command that was not recorded.
LEMMA LookupMisses ==
    ASSUME Shape, Recording, mode = "replay", NEW c \in Commands, tape[c] = Unasked
    PROVE  Lookup(c) = {}
<1> SUFFICES ASSUME NEW k \in Lookup(c) PROVE FALSE
    OBVIOUS
<1>1. table \in Tables /\ file = tape /\ DOMAIN file = Commands
    BY DEF Shape, Recording
<1>2. /\ argv[c] = table.argv[c] \/ argv[c] = table.later[c]
      /\ Signature(argv[c]) = Signature(table.argv[c])
    BY <1>1, WordsShape DEF Recording
<1>3. /\ k \in Commands /\ tape[k] # Unasked
      /\ Within(table.argv[k], argv[c]) \/ Signature(table.argv[k]) = Signature(argv[c])
    BY <1>1 DEF Lookup
<1>4. table.argv[k] # table.argv[c]
    BY <1>3 DEF Recording
<1>5. \E l \in Loaders : Reads[l] # <<>> /\ Head(Reads[l]) = c
    BY <1>1, <1>2, <1>3, <1>4, WordsAssumption DEF Commands, Loaders, Reads
<1>6. QED
    BY <1>5 DEF Recording

LEMMA InitRecording == Init => Recording
<1> SUFFICES ASSUME Init PROVE Recording
    OBVIOUS
<1>1. table \in Tables
    BY DEF Init
<1>2. QED
    BY <1>1 DEF Init, Recording, Nothing, Unasked

\* What a replay is told of a command was recorded of it, or is a failure.
LEMMA AnswersTell ==
    ASSUME Shape, Recording, mode = "replay", NEW c \in Commands, NEW answer \in Answers(c)
    PROVE  answer > Unasked => answer = tape[c]
<1>1. tape[c] = Unasked => Lookup(c) = {}
    BY LookupMisses
<1>2. tape[c] # Unasked => \A k \in Lookup(c) : file[k] = tape[c]
    BY LookupTells
<1>3. QED
    BY <1>1, <1>2 DEF Answers, Unasked, Failed

LEMMA FindRecording ==
    ASSUME Shape, Recording, NEW l \in Loaders, Find(l)
    PROVE  Recording'
<1> DEFINE c == Command(l)
<1>1. todo[l] # <<>> /\ c \in Kept /\ kept[c] # Unasked /\ Gets(l, kept[c])
    BY DEF Find, Done
<1>2. c \in Commands /\ kept[c] \in Int
    BY <1>1, CommandShape DEF Shape
<1>3. /\ used' = [used EXCEPT ![l][c] = kept[c]]
      /\ \A k \in Loaders \ {l} : todo'[k] = todo[k]
    BY <1>1, <1>2, GetsShape
<1>4. UNCHANGED <<table, argv, mode, kept, tape, file>>
    BY DEF Find, tool, backend, recorder
<1>5. mode = "live" /\ todo[l] = Reads[l] => tape[Head(Reads[l])] # Unasked
    BY <1>1, <1>2 DEF Command, Recording
<1>6. \A k \in Loaders : Reads[k] # <<>> /\ (mode = "live" => todo'[k] # Reads[k])
          => tape[Head(Reads[k])] # Unasked
    BY <1>3, <1>5 DEF Recording
<1>7. mode = "replay" => \A k \in Loaders, d \in Commands :
          used'[k][d] > Unasked => used'[k][d] = tape[d]
    BY <1>2, <1>3 DEF Recording, Shape
<1>8. QED
    BY <1>4, <1>6, <1>7 DEF Recording, Commands, Loaders, Reads

LEMMA AnswerRecording ==
    ASSUME Shape, Recording, NEW l \in Loaders, todo[l] # <<>>, Answer(l)
    PROVE  Recording'
<1> DEFINE c == Command(l)
<1>1. PICK answer \in Answers(c) :
          /\ kept' = IF Keeps(c, answer) THEN [kept EXCEPT ![c] = answer] ELSE kept
          /\ tape' = IF mode = "live" THEN Taped(c, answer) ELSE tape
          /\ Gets(l, answer)
    BY DEF Answer
<1>2. c \in Commands /\ answer \in Int /\ answer # Unasked
    BY CommandShape, AnswersShape
<1>3. /\ used' = [used EXCEPT ![l][c] = answer]
      /\ \A k \in Loaders \ {l} : todo'[k] = todo[k]
    BY <1>1, <1>2, GetsShape
<1>4. UNCHANGED <<table, argv, mode, file>>
    BY DEF Answer, tool
<1>5. mode = "replay" => (answer > Unasked => answer = tape[c])
    BY <1>2, AnswersTell
<1>6. /\ tape' \in [Commands -> Int]
      /\ \A d \in Commands : tape[d] # Unasked => tape'[d] # Unasked
      /\ mode = "live" => tape'[c] # Unasked
      /\ mode # "live" => tape' = tape
    BY <1>1, <1>2 DEF Shape, Taped
<1>7. \A d, k \in Commands : table.argv[d] = table.argv[k] => tape'[d] = tape'[k]
    BY <1>1 DEF Recording, Taped
<1>8. \A k \in Loaders : Reads[k] # <<>> /\ (mode = "live" => todo'[k] # Reads[k])
          => tape'[Head(Reads[k])] # Unasked
    <2> SUFFICES ASSUME NEW k \in Loaders, Reads[k] # <<>>, mode = "live" => todo'[k] # Reads[k]
                 PROVE  tape'[Head(Reads[k])] # Unasked
        OBVIOUS
    <2>1. Head(Reads[k]) \in Commands
        <3>1. Reads[k] \in Seq(Commands)
            BY TableShape DEF Shape
        <3>2. QED
            BY <3>1
    <2>2. CASE mode = "live" /\ todo[k] = Reads[k]
        BY <1>3, <1>6, <2>2 DEF Command
    <2>3. CASE ~(mode = "live" /\ todo[k] = Reads[k])
        BY <1>6, <2>1, <2>3 DEF Recording
    <2>4. QED
        BY <2>2, <2>3
<1>9. mode = "live" => \A d \in Commands : kept'[d] # Unasked => tape'[d] # Unasked
    BY <1>1, <1>2, <1>6 DEF Recording, Shape
<1>10. mode = "replay" => \A d \in Commands :
          /\ kept'[d] > Unasked => kept'[d] = tape'[d]
          /\ \A k \in Loaders : used'[k][d] > Unasked => used'[k][d] = tape'[d]
    <2> SUFFICES ASSUME mode = "replay", NEW d \in Commands
                 PROVE  /\ kept'[d] > Unasked => kept'[d] = tape[d]
                        /\ \A k \in Loaders : used'[k][d] > Unasked => used'[k][d] = tape[d]
        BY <1>6
    <2>1. /\ kept[d] > Unasked => kept[d] = tape[d]
          /\ \A k \in Loaders : used[k][d] > Unasked => used[k][d] = tape[d]
        BY DEF Recording
    <2>2. kept'[d] > Unasked => kept'[d] = tape[d]
        BY <1>1, <1>2, <1>5, <2>1 DEF Shape
    <2>3. \A k \in Loaders : used'[k][d] > Unasked => used'[k][d] = tape[d]
        BY <1>2, <1>3, <1>5, <2>1 DEF Shape
    <2>4. QED
        BY <2>2, <2>3
<1>11. file' \in {<<>>, tape'} /\ (mode = "live" => file = <<>>)
    BY <1>4, <1>6 DEF Recording
<1>12. QED
    BY <1>4, <1>7, <1>8, <1>9, <1>10, <1>11 DEF Recording, Commands, Loaders, Reads

LEMMA StepRecording == IInv /\ Recording /\ [Next]_vars => Recording'
<1> SUFFICES ASSUME IInv, Recording, [Next]_vars PROVE Recording'
    OBVIOUS
<1>1. CASE Change \/ Draft \/ Fill \/ Abandon \/ Rename \/ Ended \/ UNCHANGED vars
    <2>1. /\ UNCHANGED <<table, argv, todo, kept, used, tape>>
          /\ file' \in {<<>>, tape} /\ (mode' = "live" => mode = "live" /\ file' = file)
          /\ mode' = "replay" => mode = "replay"
        BY <1>1 DEF Change, Draft, Fill, Abandon, Rename, Ended, vars, reading, tool, backend, recorder, Recording
    <2>2. mode = "replay" => mode' = "replay"
        BY <1>1 DEF Change, Draft, Fill, Abandon, Rename, Ended, vars
    <2>3. mode = "live" /\ mode' # "live" => \A l \in Loaders : todo[l] = <<>>
        BY <1>1 DEF Change, Draft, Fill, Abandon, Rename, Ended, vars, Loaded, Done
    <2>4. \A l \in Loaders : Reads[l] # <<>> /\ (mode' = "live" => todo[l] # Reads[l])
              => tape[Head(Reads[l])] # Unasked
        BY <2>3 DEF Recording
    <2>5. QED
        BY <2>1, <2>2, <2>4 DEF Recording, Commands, Loaders, Reads
<1>2. CASE Replay
    <2>1. /\ UNCHANGED <<table, tape, file>> /\ mode = "over" /\ mode' = "replay"
          /\ argv' \in {table.argv, table.later}
          /\ used' = Nothing /\ kept' = [c \in Commands |-> Unasked]
        BY <1>2 DEF Replay
    <2>2. QED
        BY <2>1 DEF Recording, Nothing, Unasked, Commands, Loaders, Reads
<1>3. CASE \E l \in Loaders : Loader(l)
    <2>1. PICK l \in Loaders : Loader(l)
        BY <1>3
    <2>2. CASE Find(l)
        BY <2>2, FindRecording DEF IInv
    <2>3. CASE Ask(l)
        BY <2>3 DEF Ask, tool, recorder, Recording, Commands, Loaders, Reads
    <2>4. CASE Answer(l)
        <3>1. Shape /\ todo[l] # <<>>
            BY <2>4 DEF IInv, Guarding, Answer
        <3>2. QED
            BY <2>4, <3>1, AnswerRecording
    <2>5. QED
        BY <2>1, <2>2, <2>3, <2>4 DEF Loader
<1>4. QED
    BY <1>1, <1>2, <1>3 DEF Next

-----------------------------------------------------------------------------
(* The path of one loader, which is given by the answers it is told: by    *)
(* the recording, where no command was asked twice.                        *)

\* Where a loader stands, and where it ended in the load that was recorded.
Stage(l) == [todo |-> todo[l], used |-> used[l], errors |-> errors \cap {l}]
Final(l) == [todo |-> <<>>, used |-> first[1][l], errors |-> first[2] \cap {l}]

\* Where a loader of the backend t starts, and where an answer takes it.
Start(t, l) == [todo |-> t.reads[l], used |-> [c \in t.commands |-> Unasked], errors |-> {}]
After(t, l, s, answer) ==
    LET c == Head(s.todo)
        instead == answer = Failed /\ t.instead[c] # NoCommand
        raises == answer = Failed /\ ~instead /\ <<l, c>> \notin t.tolerated IN
    [todo |-> IF raises THEN <<>>
              ELSE IF instead THEN <<t.instead[c]>> \o Tail(s.todo)
              ELSE Tail(s.todo),
     used |-> [s.used EXCEPT ![c] = answer],
     errors |-> IF raises THEN {l} ELSE s.errors]

\* From its start, n answers of a recording lead it along p.
Path(t, l, n, p, recording) ==
    /\ p[0] = Start(t, l)
    /\ \A i \in 0 .. n - 1 :
          /\ p[i].todo # <<>> /\ Head(p[i].todo) \in t.commands
          /\ recording[Head(p[i].todo)] # Unasked
          /\ p[i + 1] = After(t, l, p[i], recording[Head(p[i].todo)])
Reached(l, s) == \E n \in Nat : \E p : Path(table, l, n, p, tape) /\ p[n] = s

\* No command of the load that was recorded was run twice, and none is answered
\* by the recording of another.
Singly == \A c \in Commands : (IF mode = "live" THEN asks ELSE first[3])[c] <= 1 /\ Own(c)

\* The loaders go where the recording leads, in the load and in its replay.
Following ==
    Singly =>
        /\ mode \in {"live", "replay"} =>
              /\ \A c \in Commands : kept[c] # Unasked => kept[c] = tape[c]
              /\ \A l \in Loaders : Reached(l, Stage(l))
        /\ mode = "live" => \A c \in Commands : asks[c] = 0 => tape[c] = Unasked
        /\ mode # "live" => \A l \in Loaders : Reached(l, Final(l))

\* What is said in a load of its end.
Resulting ==
    /\ errors \in SUBSET Loaders /\ first[1] \in [Loaders -> [Commands -> Int]]
    /\ first[2] \in SUBSET Loaders /\ first[3] \in [Commands -> Nat]

\* A set of numbers with 0 and the successor of each of its members has them all.
LEMMA Successors ==
    ASSUME NEW T, 0 \in T, \A n \in Nat : n \in T => n + 1 \in T
    PROVE  \A n \in Nat : n \in T
<1> SUFFICES ASSUME NEW n \in Nat, n \notin T PROVE FALSE
    OBVIOUS
<1> DEFINE B == {i \in 0 .. n : i \notin T}
           C == B \ {n}
<1>1. \A i \in B : i \in 1 .. n /\ i - 1 \in C
    OBVIOUS
<1>2. IsFiniteSet(0 .. n) /\ IsFiniteSet(B) /\ IsFiniteSet(C)
    <2>1. B \in SUBSET (0 .. n) /\ C \in SUBSET (0 .. n)
        OBVIOUS
    <2>2. IsFiniteSet(0 .. n)
        BY FS_Interval
    <2> HIDE DEF B, C
    <2>3. QED
        BY <2>1, <2>2, FS_Subset
<1>3. n \in B /\ Cardinality(C) = Cardinality(B) - 1
    <2>1. n \in B
        OBVIOUS
    <2> HIDE DEF B
    <2>2. QED
        BY <1>2, <2>1, FS_RemoveElement
<1> DEFINE f == [i \in B |-> i - 1]
<1>4. f \in [B -> C]
    BY <1>1
<1>5. Cardinality(B) \in Nat /\ Cardinality(C) < Cardinality(B)
    BY <1>2, <1>3, FS_CardinalityType
<1>6. \E x, y \in B : x # y /\ f[x] = f[y]
    <2> HIDE DEF f, B, C
    <2>1. QED
        BY <1>2, <1>4, <1>5, FS_PigeonHole
<1>7. QED
    BY <1>6

\* Along two paths of a loader the stages are the same.
LEMMA PathsAgree ==
    ASSUME NEW t, NEW l, NEW tp, NEW n \in Nat, NEW m \in Nat, NEW p, NEW q,
           Path(t, l, n, p, tp), Path(t, l, m, q, tp)
    PROVE  \A i \in Nat : i <= n /\ i <= m => p[i] = q[i]
<1> DEFINE T == {i \in Nat : i <= n /\ i <= m => p[i] = q[i]}
<1>1. 0 \in T
    BY DEF Path
<1>2. ASSUME NEW i \in Nat, i \in T PROVE i + 1 \in T
    <2> SUFFICES ASSUME i + 1 <= n, i + 1 <= m PROVE p[i + 1] = q[i + 1]
        OBVIOUS
    <2>1. p[i] = q[i] /\ i \in 0 .. n - 1 /\ i \in 0 .. m - 1
        BY <1>2
    <2>2. /\ p[i + 1] = After(t, l, p[i], tp[Head(p[i].todo)])
         /\ q[i + 1] = After(t, l, q[i], tp[Head(q[i].todo)])
        BY <2>1 DEF Path
    <2>3. QED
        BY <2>1, <2>2
<1>3. \A i \in Nat : i \in T
    <2> HIDE DEF T
    <2>1. QED
        BY <1>1, <1>2, Successors
<1>4. QED
    BY <1>3

\* Two ends of a loader are one, and until it is there the recording has what it asks.
LEMMA OneEnd ==
    ASSUME NEW l, NEW s, NEW e, Reached(l, s), Reached(l, e), e.todo = <<>>
    PROVE  /\ s.todo = <<>> => s = e
           /\ s.todo # <<>> => tape[Head(s.todo)] # Unasked
<1>1. PICK n \in Nat : \E p : Path(table, l, n, p, tape) /\ p[n] = s
    BY DEF Reached
<1>2. PICK p : Path(table, l, n, p, tape) /\ p[n] = s
    BY <1>1
<1>3. PICK m \in Nat : \E q : Path(table, l, m, q, tape) /\ q[m] = e
    BY DEF Reached
<1>4. PICK q : Path(table, l, m, q, tape) /\ q[m] = e
    BY <1>3
<1>5. \A i \in Nat : i <= n /\ i <= m => p[i] = q[i]
    BY <1>2, <1>4, PathsAgree
<1>6. ~(m < n)
    <2> SUFFICES ASSUME m < n PROVE FALSE
        OBVIOUS
    <2>1. m \in 0 .. n - 1 /\ p[m] = q[m]
        BY <1>5
    <2>2. p[m].todo # <<>>
        BY <1>2, <2>1 DEF Path
    <2>3. QED
        BY <1>4, <2>1, <2>2
<1>7. CASE n = m
    BY <1>2, <1>4, <1>5, <1>7
<1>8. CASE n < m
    <2>1. n \in 0 .. m - 1 /\ p[n] = q[n]
        BY <1>5, <1>8
    <2>2. q[n].todo # <<>> /\ tape[Head(q[n].todo)] # Unasked
        BY <1>4, <2>1 DEF Path
    <2>3. QED
        BY <1>2, <2>1, <2>2
<1>9. QED
    BY <1>6, <1>7, <1>8


LEMMA PathsLengthen ==
    ASSUME NEW t, NEW l, NEW tp, NEW n \in Nat, NEW p, Path(t, l, n, p, tp),
           p[n].todo # <<>>, Head(p[n].todo) \in t.commands, tp[Head(p[n].todo)] # Unasked
    PROVE  \E q : /\ Path(t, l, n + 1, q, tp)
                  /\ q[n + 1] = After(t, l, p[n], tp[Head(p[n].todo)])
<1> DEFINE q == [i \in 0 .. n + 1 |-> IF i = n + 1 THEN After(t, l, p[n], tp[Head(p[n].todo)]) ELSE p[i]]
<1>1. q[0] = p[0] /\ q[n + 1] = After(t, l, p[n], tp[Head(p[n].todo)])
    OBVIOUS
<1>2. \A i \in 0 .. n : q[i] = p[i]
    OBVIOUS
<1>3. ASSUME NEW i \in 0 .. (n + 1) - 1
      PROVE  /\ q[i].todo # <<>> /\ Head(q[i].todo) \in t.commands /\ tp[Head(q[i].todo)] # Unasked
             /\ q[i + 1] = After(t, l, q[i], tp[Head(q[i].todo)])
    <2> HIDE DEF q
    <2>1. CASE i = n
        BY <1>1, <1>2, <2>1
    <2>2. CASE i # n
        <3>1. i \in 0 .. n - 1 /\ i \in 0 .. n /\ i + 1 \in 0 .. n
            BY <2>2
        <3>2. q[i] = p[i] /\ q[i + 1] = p[i + 1]
            BY <1>2, <3>1
        <3>3. QED
            BY <3>1, <3>2 DEF Path
    <2>3. QED
        BY <2>1, <2>2
<1>4. Path(t, l, n + 1, q, tp)
    <2> HIDE DEF q
    <2>1. q[0] = Start(t, l)
        BY <1>1 DEF Path
    <2>2. QED
        BY <1>3, <2>1 DEF Path
<1>5. QED
    BY <1>1, <1>4

LEMMA PathsLast ==
    ASSUME NEW t, NEW l, NEW tp, NEW tq, NEW n \in Nat, NEW p, Path(t, l, n, p, tp),
           \A c \in t.commands : tp[c] # Unasked => tq[c] = tp[c]
    PROVE  Path(t, l, n, p, tq)
BY DEF Path

\* A loader that gets an answer moves along its path.
LEMMA GetsAfter ==
    ASSUME Shape, Resulting, NEW l \in Loaders, todo[l] # <<>>, NEW answer \in Int, Gets(l, answer)
    PROVE  /\ Stage(l)' = After(table, l, Stage(l), answer)
           /\ \A k \in Loaders \ {l} : Stage(k)' = Stage(k)
           /\ errors' \in SUBSET Loaders
<1>1. /\ used' = [used EXCEPT ![l][Command(l)] = answer]
      /\ \A k \in Loaders \ {l} : todo'[k] = todo[k]
    BY GetsShape
<1>2. Command(l) \in Commands
    BY CommandShape
<1>3. used'[l] = [used[l] EXCEPT ![Command(l)] = answer] /\ \A k \in Loaders \ {l} : used'[k] = used[k]
    BY <1>1 DEF Shape
<1> DEFINE instead == answer = Failed /\ Instead[Command(l)] # NoCommand
           raises == answer = Failed /\ ~instead /\ <<l, Command(l)>> \notin Tolerated
<1>4. /\ errors' = IF raises THEN errors \cup {l} ELSE errors
      /\ todo'[l] = IF raises THEN <<>>
                    ELSE IF instead THEN <<Instead[Command(l)]>> \o Tail(todo[l])
                    ELSE Tail(todo[l])
    BY DEF Gets, Shape
<1>5. errors' \cap {l} = IF raises THEN {l} ELSE errors \cap {l}
    BY <1>4
<1>6. \A k \in Loaders \ {l} : errors' \cap {k} = errors \cap {k}
    BY <1>4
<1>7. Stage(l)' = After(table, l, Stage(l), answer)
    BY <1>3, <1>4, <1>5 DEF Stage, After, Command, Instead, Tolerated
<1>8. QED
    BY <1>1, <1>3, <1>4, <1>6, <1>7 DEF Stage, Resulting

\* A loader that gets the recorded answer is still where the recording leads, and
\* so are the others when the recording grows.
LEMMA ReachedAfter ==
    ASSUME Shape, Resulting, NEW l \in Loaders, todo[l] # <<>>, NEW answer \in Int, Gets(l, answer),
           table' = table, \A k \in Loaders : Reached(k, Stage(k)),
           \A c \in Commands : tape[c] # Unasked => tape'[c] = tape[c],
           tape'[Command(l)] = answer, answer # Unasked
    PROVE  \A k \in Loaders : Reached(k, Stage(k))'
<1>1. /\ Stage(l)' = After(table, l, Stage(l), answer)
      /\ \A k \in Loaders \ {l} : Stage(k)' = Stage(k)
    BY GetsAfter
<1>2. \A k \in Loaders, n \in Nat : \A p : Path(table, k, n, p, tape) => Path(table, k, n, p, tape')
    BY PathsLast DEF Commands
<1>3. ASSUME NEW k \in Loaders, k # l PROVE Reached(k, Stage(k))'
    <2>1. PICK n \in Nat : \E p : Path(table, k, n, p, tape) /\ p[n] = Stage(k)
        BY DEF Reached
    <2>2. PICK p : Path(table, k, n, p, tape) /\ p[n] = Stage(k)
        BY <2>1
    <2>3. Path(table, k, n, p, tape') /\ p[n] = Stage(k)'
        BY <1>1, <1>2, <1>3, <2>2
    <2>4. QED
        BY <2>3 DEF Reached
<1>4. Reached(l, Stage(l))'
    <2>1. PICK n \in Nat : \E p : Path(table, l, n, p, tape) /\ p[n] = Stage(l)
        BY DEF Reached
    <2>2. PICK p : Path(table, l, n, p, tape) /\ p[n] = Stage(l)
        BY <2>1
    <2>3. /\ Path(table, l, n, p, tape') /\ p[n].todo # <<>> /\ Head(p[n].todo) = Command(l)
          /\ Command(l) \in table.commands /\ tape'[Command(l)] # Unasked
        BY <1>2, <2>2, CommandShape DEF Stage, Command, Commands
    <2>4. PICK q : /\ Path(table, l, n + 1, q, tape')
                   /\ q[n + 1] = After(table, l, p[n], tape'[Head(p[n].todo)])
        BY <2>3, PathsLengthen
    <2>5. q[n + 1] = Stage(l)'
        BY <1>1, <2>2, <2>3, <2>4
    <2>6. n + 1 \in Nat
        OBVIOUS
    <2>7. QED
        BY <2>4, <2>5, <2>6 DEF Reached
<1>5. QED
    BY <1>3, <1>4

\* A command of its own words is answered by its own recording.
LEMMA LookupOwn ==
    ASSUME Shape, Recording, mode = "replay", NEW c \in Commands, tape[c] # Unasked, Own(c)
    PROVE  Answers(c) = {tape[c]}
<1> DEFINE recorded == {j \in DOMAIN file : file[j] # Unasked}
           within == {j \in recorded : Within(table.argv[j], argv[c])}
           alike == {j \in recorded : Signature(table.argv[j]) = Signature(argv[c])}
<1>1. table \in Tables /\ file = tape /\ DOMAIN file = Commands /\ c \in recorded
    BY DEF Shape, Recording
<1>2. /\ table.argv[c] \in Seq(STRING) /\ argv \in {table.argv, table.later}
      /\ Signature(argv[c]) = Signature(table.argv[c])
    BY <1>1, WordsShape DEF Recording
<1>3. \A k \in Lookup(c) : file[k] = tape[c]
    BY LookupTells
<1>4. c \in alike
    BY <1>1, <1>2
<1>5. c \in Lookup(c)
    <2>1. CASE argv = table.argv
        <3>1. c \in within
            BY <1>1, <1>2, <2>1, WithinItself
        <3>2. ASSUME NEW j \in within PROVE Len(table.argv[c]) >= Len(table.argv[j])
            <4>1. table.argv[j] \in Seq(STRING)
                BY <1>1, <1>2, WordsShape
            <4>2. Within(table.argv[j], table.argv[c])
                BY <2>1
            <4>3. QED
                BY <1>2, <4>1, <4>2, WithinIsShorter
        <3>3. QED
            BY <3>1, <3>2 DEF Lookup
    <2>2. CASE argv # table.argv
        <3>1. within \in SUBSET {c} /\ alike = {c}
            BY <1>1, <1>4, <2>2 DEF Own
        <3>2. QED
            BY <1>2, <3>1 DEF Lookup
    <2>3. QED
        BY <2>1, <2>2
<1>6. QED
    BY <1>3, <1>5 DEF Answers

LEMMA FindFollowing ==
    ASSUME Shape, Resulting, Following, NEW l \in Loaders, Find(l)
    PROVE  (Following /\ Resulting)'
<1> DEFINE c == Command(l)
<1>1. todo[l] # <<>> /\ kept[c] # Unasked /\ Gets(l, kept[c])
    BY DEF Find, Done
<1>2. c \in Commands /\ kept[c] \in Int
    BY <1>1, CommandShape DEF Shape
<1>3. UNCHANGED <<table, argv, mode, kept, asks, tape, first>>
    BY DEF Find, tool, backend, recorder
<1>4. Resulting'
    BY <1>1, <1>2, <1>3, GetsAfter DEF Resulting, Loaders, Commands
<1>5. Singly' = Singly
    BY <1>3 DEF Singly, Own, Commands
<1>6. ASSUME Singly, mode \in {"live", "replay"} PROVE \A k \in Loaders : Reached(k, Stage(k))'
    <2>1. tape[c] = kept[c] /\ \A k \in Loaders : Reached(k, Stage(k))
        BY <1>1, <1>2, <1>6 DEF Following
    <2>2. QED
        BY <1>1, <1>2, <1>3, <2>1, ReachedAfter
<1>7. \A k : Reached(k, Final(k))' = Reached(k, Final(k))
    BY <1>3 DEF Reached, Final
<1>8. QED
    BY <1>3, <1>4, <1>5, <1>6, <1>7 DEF Following, Commands, Loaders

LEMMA AnswerFollowing ==
    ASSUME Shape, Recording, Resulting, Following, NEW l \in Loaders, todo[l] # <<>>, Answer(l),
           mode \in {"live", "replay"}
    PROVE  (Following /\ Resulting)'
<1> DEFINE c == Command(l)
<1>1. PICK answer \in Answers(c) :
          /\ kept' = IF Keeps(c, answer) THEN [kept EXCEPT ![c] = answer] ELSE kept
          /\ asks' = [asks EXCEPT ![c] = @ + 1]
          /\ tape' = IF mode = "live" THEN Taped(c, answer) ELSE tape
          /\ Gets(l, answer)
    BY DEF Answer
<1>2. c \in Commands /\ answer \in Int /\ answer # Unasked
    BY CommandShape, AnswersShape
<1>3. UNCHANGED <<table, argv, mode, first>>
    BY DEF Answer, tool
<1>4. Resulting'
    BY <1>1, <1>2, <1>3, GetsAfter DEF Resulting, Loaders, Commands
<1>5. SUFFICES ASSUME Singly' PROVE Following'
    BY <1>4 DEF Following
<1>6. Singly /\ (mode = "live" => asks[c] = 0)
    <2>1. \A d \in Commands : Own(d)
        BY <1>3, <1>5 DEF Singly, Own, Commands
    <2>2. mode = "live" => \A d \in Commands : asks'[d] <= 1
        BY <1>3, <1>5 DEF Singly, Commands
    <2>3. \A d \in Commands : asks[d] \in Nat /\ asks'[d] = IF d = c THEN asks[d] + 1 ELSE asks[d]
        BY <1>1, <1>2 DEF Shape
    <2>4. mode = "live" => \A d \in Commands : asks[d] <= 1
        BY <2>2, <2>3
    <2>5. mode = "live" => asks[c] = 0
        BY <1>2, <2>2, <2>3
    <2>6. mode # "live" => \A d \in Commands : first[3][d] <= 1
        BY <1>3, <1>5 DEF Singly, Commands
    <2>7. QED
        BY <2>1, <2>4, <2>5, <2>6 DEF Singly
<1>7. /\ \A k \in Loaders : Reached(k, Stage(k))
      /\ \A d \in Commands : kept[d] # Unasked => kept[d] = tape[d]
      /\ mode = "live" => \A d \in Commands : asks[d] = 0 => tape[d] = Unasked
      /\ mode # "live" => \A k \in Loaders : Reached(k, Final(k))
    BY <1>6 DEF Following
<1>8. tape'[c] = answer /\ \A d \in Commands \ {c} : tape'[d] = tape[d]
    <2>1. CASE mode = "live"
        <3>1. \A d \in Commands \ {c} : argv[d] # argv[c]
            BY <1>2, <1>6, <2>1 DEF Singly, Own, Recording
        <3>2. tape' = Taped(c, answer)
            BY <1>1, <2>1
        <3>3. QED
            BY <1>2, <3>1, <3>2 DEF Taped
    <2>2. CASE mode = "replay"
        <3>1. Reached(l, Stage(l)) /\ Reached(l, Final(l)) /\ Final(l).todo = <<>>
            BY <1>7, <2>2 DEF Final
        <3>2. Stage(l).todo = todo[l]
            BY DEF Stage
        <3>3. tape[c] # Unasked
            <4> HIDE DEF c
            <4>1. tape[Head(todo[l])] # Unasked
                BY <3>1, <3>2, OneEnd
            <4>2. QED
                BY <4>1 DEF Command, c
        <3>4. Answers(c) = {tape[c]}
            BY <1>2, <1>6, <2>2, <3>3, LookupOwn DEF Singly
        <3>5. QED
            BY <1>1, <2>2, <3>4
    <2>3. QED
        BY <2>1, <2>2
<1>9. \A d \in Commands : tape[d] # Unasked => tape'[d] = tape[d]
    <2>1. CASE mode = "live"
        BY <1>2, <1>6, <1>7, <1>8, <2>1
    <2>2. CASE mode = "replay"
        BY <1>1, <2>2
    <2>3. QED
        BY <2>1, <2>2
<1>10. \A k \in Loaders : Reached(k, Stage(k))'
    BY <1>1, <1>2, <1>3, <1>7, <1>8, <1>9, ReachedAfter
<1>11. \A d \in Commands : kept'[d] # Unasked => kept'[d] = tape'[d]
    BY <1>1, <1>2, <1>7, <1>8, <1>9 DEF Shape
<1>12. mode = "live" => \A d \in Commands : asks'[d] = 0 => tape'[d] = Unasked
    <2>1. \A d \in Commands : asks'[d] = IF d = c THEN asks[d] + 1 ELSE asks[d]
        BY <1>1, <1>2 DEF Shape
    <2>2. asks[c] \in Nat
        BY <1>2 DEF Shape
    <2>3. \A d \in Commands : asks'[d] = 0 => d # c /\ asks[d] = 0
        BY <1>2, <2>1, <2>2
    <2>4. QED
        BY <1>7, <1>8, <2>3
<1>13. mode # "live" => \A k \in Loaders : Reached(k, Final(k))'
    <2>1. mode # "live" => tape' = tape
        BY <1>1
    <2>2. QED
        BY <1>3, <1>7, <2>1 DEF Reached, Final
<1>14. QED
    BY <1>3, <1>10, <1>11, <1>12, <1>13 DEF Following, Loaders, Commands

LEMMA InitFollowing == Init => Following /\ Resulting
<1> SUFFICES ASSUME Init PROVE Following /\ Resulting
    OBVIOUS
<1>1. table \in Tables /\ mode = "live"
    BY DEF Init
<1>2. /\ first[1] = Nothing /\ first[2] = {} /\ first[3] = asks /\ asks = [c \in Commands |-> 0]
      /\ used = Nothing /\ errors = {} /\ todo = Reads
    BY DEF Init
<1>3. Resulting
    BY <1>2 DEF Resulting, Nothing, Unasked
<1>4. ASSUME NEW l \in Loaders PROVE Reached(l, Stage(l))
    <2>1. Stage(l) = Start(table, l)
        BY <1>2 DEF Stage, Start, Nothing, Reads, Commands
    <2>2. PICK p : p = [i \in {0} |-> Start(table, l)]
        OBVIOUS
    <2>3. Path(table, l, 0, p, tape) /\ p[0] = Stage(l)
        BY <2>1, <2>2 DEF Path
    <2>4. QED
        BY <2>3 DEF Reached
<1>5. QED
    BY <1>1, <1>3, <1>4 DEF Following, Init, Unasked

LEMMA StepFollowing == IInv /\ Recording /\ Following /\ Resulting /\ [Next]_vars => (Following /\ Resulting)'
<1> SUFFICES ASSUME IInv, Recording, Following, Resulting, [Next]_vars PROVE (Following /\ Resulting)'
    OBVIOUS
<1>1. CASE Change \/ Fill \/ Abandon \/ Rename \/ Ended \/ UNCHANGED vars
    <2>1. UNCHANGED <<table, argv, todo, kept, used, errors, asks, tape, first>>
        BY <1>1 DEF Change, Fill, Abandon, Rename, Ended, vars, reading, tool, backend, recorder
    <2>2. (mode' = "live" <=> mode = "live") /\ (mode' = "replay" <=> mode = "replay")
        BY <1>1 DEF Change, Fill, Abandon, Rename, Ended, vars
    <2>3. \A l : Reached(l, Stage(l))' = Reached(l, Stage(l)) /\ Reached(l, Final(l))' = Reached(l, Final(l))
        BY <2>1 DEF Reached, Stage, Final
    <2>4. Singly' = Singly
        BY <2>1, <2>2 DEF Singly, Own, Commands
    <2>5. QED
        BY <2>1, <2>2, <2>3, <2>4 DEF Following, Resulting, Loaders, Commands
<1>2. CASE Draft
    <2>1. /\ UNCHANGED <<table, argv, todo, kept, used, errors, asks, tape>>
          /\ mode = "live" /\ mode' = "writing" /\ first' = <<used, errors, asks>>
          /\ \A l \in Loaders : todo[l] = <<>>
        BY <1>2 DEF Draft, Loaded, Done, tool, reading, backend, recorder
    <2>2. Resulting'
        BY <2>1 DEF Resulting, IInv, Shape, Loaders, Commands
    <2>3. Singly' => Singly
        BY <2>1 DEF Singly, Own, Commands
    <2>4. ASSUME Singly, NEW l \in Loaders PROVE Reached(l, Final(l))'
        <3>1. Reached(l, Stage(l))
            BY <2>1, <2>4 DEF Following
        <3>2. Final(l)' = Stage(l)
            BY <2>1 DEF Final, Stage
        <3>3. QED
            BY <2>1, <3>1, <3>2 DEF Reached
    <2>5. QED
        BY <2>1, <2>2, <2>3, <2>4 DEF Following, Loaders
<1>3. CASE Replay
    <2>1. /\ UNCHANGED <<table, tape, first>> /\ mode = "over" /\ mode' = "replay" /\ argv = table.argv
          /\ todo' = Reads /\ used' = Nothing /\ errors' = {} /\ kept' = [c \in Commands |-> Unasked]
        BY <1>3 DEF Replay, Recording
    <2>2. Resulting'
        BY <2>1 DEF Resulting, Loaders, Commands
    <2>3. Singly' => Singly
        BY <2>1 DEF Singly, Own, Commands
    <2>4. Singly => \A l \in Loaders : Reached(l, Final(l))'
        BY <2>1 DEF Following, Reached, Final
    <2>5. ASSUME NEW l \in Loaders PROVE Reached(l, Stage(l))'
        <3>1. Stage(l)' = Start(table, l)
            BY <2>1 DEF Stage, Start, Nothing, Reads, Commands
        <3>2. PICK p : p = [i \in {0} |-> Start(table, l)]
            OBVIOUS
        <3>3. Path(table, l, 0, p, tape') /\ p[0] = Stage(l)'
            BY <3>1, <3>2 DEF Path
        <3>4. QED
            BY <2>1, <3>3 DEF Reached
    <2>6. QED
        BY <2>1, <2>2, <2>3, <2>4, <2>5 DEF Following, Loaders, Commands
<1>4. CASE \E l \in Loaders : Loader(l)
    <2>1. PICK l \in Loaders : Loader(l)
        BY <1>4
    <2>2. CASE Find(l)
        BY <2>2, FindFollowing DEF IInv
    <2>3. CASE Ask(l)
        <3>1. UNCHANGED <<table, argv, mode, todo, kept, used, errors, asks, tape, first>>
            BY <2>3 DEF Ask, tool, recorder
        <3>2. \A k : Reached(k, Stage(k))' = Reached(k, Stage(k)) /\ Reached(k, Final(k))' = Reached(k, Final(k))
            BY <3>1 DEF Reached, Stage, Final
        <3>3. Singly' = Singly
            BY <3>1 DEF Singly, Own, Commands
        <3>4. QED
            BY <3>1, <3>2, <3>3 DEF Following, Resulting, Loaders, Commands
    <2>4. CASE Answer(l)
        <3>1. Shape /\ todo[l] # <<>> /\ mode \in {"live", "replay"}
            BY <2>4 DEF IInv, Shape, Guarding, Answer, Resting, Loaded, Done
        <3>2. QED
            BY <2>4, <3>1, AnswerFollowing
    <2>5. QED
        BY <2>1, <2>2, <2>3, <2>4 DEF Loader
<1>5. QED
    BY <1>1, <1>2, <1>3, <1>4 DEF Next

LEMMA ReplayInvariants == Spec => [](IInv /\ Recording /\ Following /\ Resulting)
<1>1. Init => IInv /\ Recording /\ Following /\ Resulting
    BY InitInvariant, InitRecording, InitFollowing
<1>2. IInv /\ Recording /\ Following /\ Resulting /\ [Next]_vars
          => (IInv /\ Recording /\ Following /\ Resulting)'
    BY StepInvariant, StepRecording, StepFollowing
<1>3. QED
    BY <1>1, <1>2, PTL DEF Spec

\* What a replay is told of a command is what was recorded of it, and a load that
\* ran nothing twice is had again, with its failures, for every backend's table,
\* however its loaders interleaved and whichever answers failed.
THEOREM RecordingsReplay == Spec => []ReplayReproduces
<1>1. ASSUME IInv, Recording, Following, Resulting PROVE ReplayReproduces
    <2> SUFFICES ASSUME mode = "replay" PROVE ReplayReproduces
        BY DEF ReplayReproduces
    <2>1. \A l \in Loaders, c \in Commands : used[l][c] > Unasked => used[l][c] = tape[c]
        BY <1>1 DEF Recording
    <2>2. ASSUME Loaded, \A c \in Commands : first[3][c] <= 1 /\ Own(c)
          PROVE  errors = first[2] /\ used = first[1]
        <3>1. Singly
            BY <2>2 DEF Singly
        <3>2. \A l \in Loaders : Reached(l, Stage(l)) /\ Reached(l, Final(l))
            BY <1>1, <3>1 DEF Following
        <3>3. \A l \in Loaders : Stage(l).todo = <<>> /\ Final(l).todo = <<>>
            BY <2>2 DEF Stage, Final, Loaded, Done
        <3>4. \A l \in Loaders : Stage(l) = Final(l)
            BY <3>2, <3>3, OneEnd
        <3>5. \A l \in Loaders : used[l] = first[1][l] /\ errors \cap {l} = first[2] \cap {l}
            BY <3>4 DEF Stage, Final
        <3>6. used = first[1]
            BY <1>1, <3>5 DEF IInv, Shape, Resulting
        <3>7. errors = first[2]
            <4>1. errors \in SUBSET Loaders /\ first[2] \in SUBSET Loaders
                BY <1>1 DEF Resulting
            <4>2. \A l \in Loaders : l \in errors <=> l \in first[2]
                BY <3>5
            <4>3. QED
                BY <4>1, <4>2
        <3>8. QED
            BY <3>6, <3>7
    <2>3. QED
        BY <2>1, <2>2 DEF ReplayReproduces
<1>2. QED
    BY <1>1, ReplayInvariants, PTL

-----------------------------------------------------------------------------
(* Types.                                                                  *)

\* Answers are of the versions there were, the file has what was recorded, and whoever
\* holds the lock is asking.
Typed ==
    /\ version \in 1 .. MaxVersion /\ argv \in {table.argv, table.later}
    /\ kept \in [Commands -> Readings] /\ tape \in [Commands -> Readings]
    /\ used \in [Loaders -> [Commands -> Readings]] /\ errors \subseteq Loaders
    /\ file \in {<<>>, tape} /\ (mode \in {"live", "writing", "written"} => file = <<>>)
    /\ lock \in asking \cup {Nobody}

\* What a command answers is a version there was, or a failure.
LEMMA AnswersTyped ==
    ASSUME Typed, NEW c \in Commands, NEW answer \in Answers(c)
    PROVE  answer \in Readings
<1>1. version \in Readings /\ Failed \in Readings
    BY DEF Typed, Readings
<1>2. \A k \in Lookup(c) : k \in DOMAIN file
    BY DEF Lookup
<1>3. DOMAIN file \subseteq Commands /\ \A k \in DOMAIN file : file[k] \in Readings
    BY DEF Typed
<1>4. QED
    BY <1>1, <1>2, <1>3 DEF Answers

LEMMA GetsTyped ==
    ASSUME Shape, Typed, NEW l \in Loaders, todo[l] # <<>>, NEW answer \in Readings, Gets(l, answer)
    PROVE  used' \in [Loaders -> [Commands -> Readings]] /\ errors' \subseteq Loaders
<1>1. Command(l) \in Commands
    BY CommandShape
<1>2. used' = [used EXCEPT ![l][Command(l)] = answer] /\ errors' \in {errors, errors \cup {l}}
    BY DEF Gets
<1>3. QED
    BY <1>1, <1>2 DEF Typed

LEMMA InitTyped == Init => Typed
<1> SUFFICES ASSUME Init PROVE Typed
    OBVIOUS
<1>1. Unasked \in Readings /\ 1 \in 1 .. MaxVersion
    BY SnapshotAssumption DEF Readings
<1>2. QED
    BY <1>1 DEF Init, Typed, Nothing

LEMMA LoaderTyped ==
    ASSUME IInv, Typed, NEW l \in Loaders, Loader(l)
    PROVE  Typed'
<1> DEFINE c == Command(l)
<1>1. Shape
    BY DEF IInv
<1>2. CASE Find(l)
    <2>1. todo[l] # <<>> /\ c \in Kept /\ Gets(l, kept[c])
        BY <1>2 DEF Find, Done
    <2>2. kept[c] \in Readings
        BY <1>1, <2>1, CommandShape DEF Typed
    <2>3. used' \in [Loaders -> [Commands -> Readings]] /\ errors' \subseteq Loaders
        BY <1>1, <2>1, <2>2, GetsTyped
    <2>4. UNCHANGED <<table, argv, version, mode, asking, lock, kept, tape, file>>
        BY <1>2 DEF Find, tool, backend, recorder
    <2>5. QED
        BY <2>3, <2>4 DEF Typed, Loaders, Commands
<1>3. CASE Ask(l)
    <2>1. lock' \in {l, lock} /\ asking' = asking \cup {l}
        BY <1>3 DEF Ask
    <2>2. UNCHANGED <<table, argv, version, mode, used, errors, kept, tape, file>>
        BY <1>3 DEF Ask, tool, recorder
    <2>3. QED
        BY <2>1, <2>2 DEF Typed, Loaders, Commands
<1>4. CASE Answer(l)
    <2>1. PICK answer \in Answers(c) :
              /\ kept' = IF Keeps(c, answer) THEN [kept EXCEPT ![c] = answer] ELSE kept
              /\ tape' = IF mode = "live" THEN Taped(c, answer) ELSE tape
              /\ Release(l, answer) /\ Gets(l, answer)
        BY <1>4 DEF Answer
    <2>2. /\ asking' = asking \ {l} /\ l \in asking
          /\ UNCHANGED <<table, argv, version, mode, file>>
        BY <1>4 DEF Answer, tool
    <2>3. todo[l] # <<>> /\ c \in Commands
        BY <1>1, <2>2, CommandShape DEF IInv, Guarding
    <2>4. answer \in Readings
        BY <2>3, AnswersTyped
    <2>5. used' \in [Loaders -> [Commands -> Readings]] /\ errors' \subseteq Loaders
        BY <1>1, <2>1, <2>3, <2>4, GetsTyped
    <2>6. kept' \in [Commands -> Readings] /\ tape' \in [Commands -> Readings]
        BY <2>1, <2>3, <2>4 DEF Typed, Taped
    <2>7. lock' \in asking' \cup {Nobody}
        BY <2>1, <2>2 DEF Release, Typed
    <2>8. file' \in {<<>>, tape'} /\ (mode' \in {"live", "writing", "written"} => file' = <<>>)
        BY <2>1, <2>2 DEF Typed
    <2>9. QED
        BY <2>2, <2>5, <2>6, <2>7, <2>8 DEF Typed, Loaders, Commands
<1>5. QED
    BY <1>2, <1>3, <1>4 DEF Loader

LEMMA StepTyped == IInv /\ Typed /\ [Next]_vars => Typed'
<1> SUFFICES ASSUME IInv, Typed, [Next]_vars PROVE Typed'
    OBVIOUS
<1> USE DEF tool, backend, recorder, reading
<1>1. CASE Change
    <2>1. version + 1 \in 1 .. MaxVersion
        BY <1>1, SnapshotAssumption DEF Change, Typed
    <2>2. QED
        BY <1>1, <2>1 DEF Change, Typed, Loaders, Commands
<1>2. CASE Draft \/ Fill \/ Abandon \/ Ended \/ UNCHANGED vars
    BY <1>2 DEF Draft, Fill, Abandon, Ended, vars, Typed, Loaders, Commands
<1>3. CASE Rename
    BY <1>3 DEF Rename, Typed, Loaders, Commands
<1>4. CASE Replay
    <2>1. Unasked \in Readings
        BY DEF Readings
    <2>2. QED
        BY <1>4, <2>1 DEF Replay, Typed, Nothing, Loaders, Commands
<1>5. ASSUME NEW l \in Loaders, Loader(l) PROVE Typed'
    BY <1>5, LoaderTyped
<1>6. QED
    BY <1>1, <1>2, <1>3, <1>4, <1>5 DEF Next

\* Every variable keeps its type: an answer is of a version there was, the file holds what
\* was recorded or nothing of this load, and whoever holds the lock is asking.
THEOREM TypeCorrect == Spec => []TypeOK
<1>1. IInv /\ Typed => TypeOK
    BY DEF IInv, Shape, Typed, TypeOK
<1>2. QED
    BY <1>1, InitInvariant, InitTyped, StepInvariant, StepTyped, PTL DEF Spec

-----------------------------------------------------------------------------
(* What a loader came to.                                                  *)

\* A command that is still to be read, was answered, or is done without.
Met(l, c) == c \in Range(todo[l]) \/ used[l][c] > Unasked \/ <<l, c>> \in Tolerated

\* A loader that did not fail has of every command that it reads an answer, or one of
\* what is read instead.
Answered ==
    \A l \in Loaders \ errors : \A c \in Range(Reads[l]) :
        Met(l, c) \/ (Instead[c] # NoCommand /\ (Met(l, Instead[c]) \/ Instead[Instead[c]] # NoCommand))

\* What is to be read is the first of it, and the rest.
LEMMA HeadOrTail ==
    ASSUME NEW S, NEW s \in Seq(S), s # <<>>
    PROVE  Range(s) \subseteq {Head(s)} \cup Range(Tail(s))
<1>1. ASSUME NEW i \in DOMAIN s PROVE s[i] = Head(s) \/ s[i] \in Range(Tail(s))
    <2>1. CASE i = 1
        BY <2>1
    <2>2. CASE i # 1
        <3>1. i - 1 \in DOMAIN Tail(s) /\ Tail(s)[i - 1] = s[i]
            BY <2>2
        <3>2. QED
            BY <3>1 DEF Range
    <2>3. QED
        BY <2>1, <2>2
<1>2. QED
    BY <1>1 DEF Range

LEMMA FirstThenRest ==
    ASSUME NEW S, NEW x \in S, NEW s \in Seq(S)
    PROVE  Range(s) \subseteq Range(<<x>> \o s) /\ x \in Range(<<x>> \o s)
<1> DEFINE t == <<x>> \o s
<1>1. t \in Seq(S) /\ Len(t) = Len(s) + 1 /\ t[1] = x /\ \A i \in DOMAIN s : t[i + 1] = s[i]
    OBVIOUS
<1>2. 1 \in DOMAIN t /\ \A i \in DOMAIN s : i + 1 \in DOMAIN t
    BY <1>1
<1>3. QED
    BY <1>1, <1>2 DEF Range

LEMMA GetsAnswered ==
    ASSUME Shape, Typed, Answered, NEW l \in Loaders, todo[l] # <<>>,
           NEW answer \in Readings, answer # Unasked, Gets(l, answer), UNCHANGED table
    PROVE  Answered'
<1>0. PICK c : c = Command(l)
    OBVIOUS
<1> DEFINE instead == answer = Failed /\ Instead[c] # NoCommand
           raises == answer = Failed /\ ~instead /\ <<l, c>> \notin Tolerated
<1>1. c \in Commands /\ Tail(todo[l]) \in Seq(Commands) /\ todo[l] \in Seq(Commands)
    BY <1>0, CommandShape DEF Shape
<1>2. Range(todo[l]) \subseteq {c} \cup Range(Tail(todo[l]))
    BY <1>0, <1>1, HeadOrTail DEF Command
<1>3. /\ used' = [used EXCEPT ![l][c] = answer]
      /\ errors' = IF raises THEN errors \cup {l} ELSE errors
      /\ todo' = [todo EXCEPT ![l] = IF raises THEN <<>> ELSE IF instead THEN <<Instead[c]>> \o Tail(@) ELSE Tail(@)]
    BY <1>0 DEF Gets
<1>4. used \in [Loaders -> [Commands -> Int]] /\ todo \in [Loaders -> Seq(Commands)]
    BY DEF Shape
<1>5. UNCHANGED <<Loaders, Commands, Reads, Instead, Tolerated>>
    BY DEF Loaders, Commands, Reads, Instead, Tolerated
<1>6. ASSUME NEW k \in Loaders \ {l}, NEW d \in Commands PROVE Met(k, d)' <=> Met(k, d)
    BY <1>3, <1>4, <1>5, <1>6 DEF Met
<1>7. ASSUME ~raises, NEW d \in Commands, Met(l, d), d # c PROVE Met(l, d)'
    <2>1. used'[l][d] = used[l][d]
        BY <1>3, <1>4, <1>7
    <2>2. ASSUME d \in Range(todo[l]) PROVE d \in Range(todo'[l])
        <3>1. d \in Range(Tail(todo[l]))
            BY <1>2, <1>7, <2>2
        <3>2. CASE instead
            <4>1. Instead[c] \in Commands
                BY <1>1, <3>2, TableShape DEF Shape
            <4>2. Range(Tail(todo[l])) \subseteq Range(<<Instead[c]>> \o Tail(todo[l]))
                BY <1>1, <4>1, FirstThenRest
            <4>3. todo'[l] = <<Instead[c]>> \o Tail(todo[l])
                BY <1>3, <1>4, <1>7, <3>2
            <4>4. QED
                BY <3>1, <4>2, <4>3
        <3>3. CASE ~instead
            BY <1>3, <1>4, <1>7, <3>1, <3>3
        <3>4. QED
            BY <3>2, <3>3
    <2>3. QED
        BY <1>5, <1>7, <2>1, <2>2 DEF Met
\* The command that was answered is met, or what is read instead of it is.
<1>8. ASSUME ~raises, NEW e, e = Instead[c] PROVE Met(l, c)' \/ (e # NoCommand /\ Met(l, e)')
    <2>1. CASE answer # Failed
        <3>1. used'[l][c] = answer /\ answer > Unasked
            BY <1>1, <1>3, <1>4, <2>1, SnapshotAssumption DEF Readings, Unasked, Failed
        <3>2. QED
            BY <3>1 DEF Met
    <2>2. CASE instead
        <3>1. e \in Commands
            BY <1>1, <1>8, <2>2, TableShape DEF Shape
        <3>2. e \in Range(<<e>> \o Tail(todo[l]))
            BY <1>1, <3>1, FirstThenRest
        <3>3. todo'[l] = <<e>> \o Tail(todo[l])
            BY <1>3, <1>4, <1>8, <2>2
        <3>4. QED
            BY <1>8, <2>2, <3>2, <3>3 DEF Met
    <2>3. CASE <<l, c>> \in Tolerated
        BY <2>3, <1>5 DEF Met
    <2>4. QED
        BY <1>8, <2>1, <2>2, <2>3
<1>9. ASSUME NEW k \in Loaders, k \notin errors', NEW d \in Range(Reads[k]), NEW e, e = Instead[d]
      PROVE  Met(k, d)' \/ (e # NoCommand /\ (Met(k, e)' \/ Instead[e] # NoCommand))
    <2>1. k \notin errors
        BY <1>3, <1>9
    <2>2. d \in Commands /\ (e # NoCommand => e \in Commands)
        <3>1. Reads[k] \in Seq(Commands)
            BY TableShape DEF Shape
        <3>2. d \in Commands
            BY <1>9, <3>1 DEF Range
        <3>3. QED
            BY <1>9, <3>2, TableShape DEF Shape
    <2>3. Met(k, d) \/ (e # NoCommand /\ (Met(k, e) \/ Instead[e] # NoCommand))
        BY <1>9, <2>1 DEF Answered
    <2>4. CASE k # l
        BY <1>6, <2>2, <2>3, <2>4
    <2>5. CASE k = l
        <3>1. ~raises
            BY <1>3, <1>9, <2>5
        <3>2. CASE d = c
            BY <1>8, <1>9, <2>5, <3>1, <3>2
        <3>3. CASE d # c /\ Met(l, d)
            BY <1>7, <2>2, <2>5, <3>1, <3>3
        <3>4. CASE e # NoCommand /\ Met(l, e)
            <4>1. CASE e # c
                BY <1>7, <2>2, <2>5, <3>1, <3>4, <4>1
            <4>2. CASE e = c
                <5>1. Met(l, e)' \/ Instead[e] # NoCommand
                    BY <1>8, <3>1, <4>2
                <5>2. QED
                    BY <2>5, <3>4, <5>1
            <4>3. QED
                BY <4>1, <4>2
        <3>5. QED
            BY <2>3, <2>5, <3>2, <3>3, <3>4
    <2>6. QED
        BY <2>4, <2>5
<1>10. ASSUME NEW k \in Loaders', k \notin errors', NEW d \in Range(Reads'[k])
       PROVE  Met(k, d)' \/ (Instead'[d] # NoCommand /\ (Met(k, Instead[d])' \/ Instead'[Instead'[d]] # NoCommand))
    <2>1. PICK e : e = Instead[d]
        OBVIOUS
    <2>2. Met(k, d)' \/ (e # NoCommand /\ (Met(k, e)' \/ Instead[e] # NoCommand))
        BY <1>5, <1>9, <1>10, <2>1
    <2>3. Met(k, e)' <=> Met(k, Instead[d])'
        BY <1>5, <2>1 DEF Met
    <2>4. QED
        BY <1>5, <2>1, <2>2, <2>3
<1>11. QED
    BY <1>10 DEF Answered
LEMMA InitAnswered == Init => Answered
    BY DEF Init, Answered, Met

LEMMA StepAnswered == IInv /\ Typed /\ Answered /\ [Next]_vars => Answered'
<1> SUFFICES ASSUME IInv, Typed, Answered, [Next]_vars PROVE Answered'
    OBVIOUS
<1> USE DEF tool, backend, recorder, reading
<1>1. CASE UNCHANGED <<table, todo, used, errors>>
    BY <1>1 DEF Answered, Met, Loaders, Reads, Tolerated, Instead
<1>2. CASE Change \/ Draft \/ Fill \/ Abandon \/ Rename \/ Ended \/ UNCHANGED vars
    BY <1>1, <1>2 DEF Change, Draft, Fill, Abandon, Rename, Ended, vars
<1>3. CASE Replay
    BY <1>3 DEF Replay, Answered, Met, Loaders, Reads, Tolerated, Instead
<1>4. ASSUME NEW l \in Loaders, Loader(l) PROVE Answered'
    <2>1. Shape
        BY DEF IInv
    <2>2. CASE Find(l)
        <3>1. /\ todo[l] # <<>> /\ Command(l) \in Kept /\ kept[Command(l)] # Unasked
              /\ Gets(l, kept[Command(l)]) /\ UNCHANGED table
            BY <2>2 DEF Find, Done
        <3>2. kept[Command(l)] \in Readings
            BY <2>1, <3>1, CommandShape DEF Typed
        <3>3. QED
            BY <2>1, <3>1, <3>2, GetsAnswered
    <2>3. CASE Ask(l)
        BY <1>1, <2>3 DEF Ask
    <2>4. CASE Answer(l)
        <3>1. PICK answer \in Answers(Command(l)) : Gets(l, answer)
            BY <2>4 DEF Answer
        <3>2. l \in asking /\ UNCHANGED table
            BY <2>4 DEF Answer
        <3>3. todo[l] # <<>> /\ Command(l) \in Commands
            BY <2>1, <3>2, CommandShape DEF IInv, Guarding
        <3>4. answer \in Readings /\ answer # Unasked
            BY <2>1, <3>3, AnswersTyped, AnswersShape
        <3>5. QED
            BY <2>1, <3>1, <3>2, <3>3, <3>4, GetsAnswered
    <2>5. QED
        BY <1>4, <2>2, <2>3, <2>4 DEF Loader
<1>5. QED
    BY <1>2, <1>3, <1>4 DEF Next

\* What is asked of a snapshot is asked when all of this holds.
Taken == IInv /\ Typed /\ Answered

LEMMA SnapshotIsTaken == Spec => []Taken
<1>1. Init => Taken
    BY InitInvariant, InitTyped, InitAnswered DEF Taken
<1>2. Taken /\ [Next]_vars => Taken'
    BY StepInvariant, StepTyped, StepAnswered DEF Taken
<1>3. QED
    BY <1>1, <1>2, PTL DEF Spec

\* A loader that did not fail had what it needs.
LEMMA NeededIsHad ==
    ASSUME Taken, Loaded, NEW l \in {"nodes", "queues"}, l \notin errors,
           NEW c \in Needed(table.kind, l)
    PROVE  Has(l, c) \/ (c = "qstat json" /\ table.kind = "pbs" /\ Has(l, "qstat text"))
<1>1. table \in Tables /\ Shape
    BY DEF Taken, IInv, Shape
<1>2. l \in Loaders /\ todo[l] = <<>>
    BY <1>1, LoadersAssumption DEF Loaded, Done, Loaders
<1>3. c \in Range(Reads[l])
    BY <1>1, LoadersAssumption DEF Reads
<1>4. /\ <<l, c>> \notin Tolerated
      /\ Instead[c] = IF c = "qstat json" THEN "qstat text" ELSE NoCommand
    BY <1>1, LoadersAssumption DEF Tolerated, Instead
<1>6. ASSUME NEW d PROVE d \notin Range(todo[l])
    BY <1>2 DEF Range
<1>7. Met(l, c) \/ (Instead[c] # NoCommand /\ (Met(l, Instead[c]) \/ Instead[Instead[c]] # NoCommand))
    BY <1>2, <1>3 DEF Taken, Answered
<1>8. CASE c # "qstat json"
    BY <1>4, <1>6, <1>7, <1>8 DEF Met, Has
<1>9. CASE c = "qstat json"
    <2>1. table.kind = "pbs" /\ l = "queues"
        <3>1. table.kind \in Kinds
            BY <1>1, InventoryAssumption
        <3>2. QED
            BY <1>9, <3>1 DEF Needed, Kinds
    <2>2. <<l, "qstat text">> \notin Tolerated /\ Instead["qstat text"] = NoCommand
        BY <1>1, <2>1, LoadersAssumption DEF Tolerated, Instead
    <2>3. QED
        BY <1>4, <1>6, <1>7, <1>9, <2>1, <2>2 DEF Met, Has
<1>10. QED
    BY <1>8, <1>9

-----------------------------------------------------------------------------
(* What the cluster was, and what each backend makes of it.                *)

\* Each of the loaders worked with truths of this cluster.
LEMMA TruthIsOfTheCluster ==
    ASSUME Taken, NEW l \in Loaders, NEW c \in Commands, Has(l, c)
    PROVE  /\ Possible(table.kind, At(l, c))
           /\ table.kind = "sshpool" => Range(table.pool) \subseteq DOMAIN At(l, c).hosts
           /\ DOMAIN At(l, c).hosts \subseteq DOMAIN Spelling
<1>1. table \in Tables /\ used[l][c] \in Readings
    BY DEF Taken, IInv, Shape, Typed
<1>2. used[l][c] \in 1 .. MaxVersion
    BY <1>1, SnapshotAssumption DEF Has, Readings, Unasked, Failed
<1>3. QED
    BY <1>1, <1>2, TruthAssumption DEF At

LEMMA TruthsAgree ==
    ASSUME Taken, NEW l \in Loaders, NEW c \in Commands, Has(l, c), NEW d \in Commands, Has(l, d)
    PROVE  Steady(table.kind, At(l, c), At(l, d))
<1>1. table \in Tables /\ used[l][c] \in Readings /\ used[l][d] \in Readings
    BY DEF Taken, IInv, Shape, Typed
<1>2. used[l][c] \in 1 .. MaxVersion /\ used[l][d] \in 1 .. MaxVersion
    BY <1>1, SnapshotAssumption DEF Has, Readings, Unasked, Failed
<1>3. QED
    BY <1>1, <1>2, TruthAssumption DEF At

\* The commands of the loader l, as they are named here.
LEMMA NeededIsCommand ==
    ASSUME Taken, NEW l \in {"nodes", "queues"}
    PROVE  /\ l \in Loaders /\ Needed(table.kind, l) \subseteq Commands
           /\ table.kind = "pbs" => "qstat text" \in Commands
           /\ table.kind = "slurm" => "config" \in Commands
           /\ table.kind = "lsf" => "bmgroup" \in Commands
           /\ table.kind = "sshpool" => table.pool # <<>> /\ table.pool \in Seq(Commands)
           /\ table.kind \in Kinds
<1>1. table \in Tables
    BY DEF Taken, IInv, Shape
<1>2. l \in Loaders /\ Reads[l] \in Seq(Commands)
    BY <1>1, LoadersAssumption, TableShape DEF Loaders
<1>3. \A c \in Needed(table.kind, l) : c \in Range(Reads[l])
    BY <1>1, LoadersAssumption DEF Reads
<1>4. Range(Reads[l]) \subseteq Commands
    BY <1>2 DEF Range
<1>5. table.kind \in Kinds
    BY <1>1, InventoryAssumption
<1>6. /\ table.kind = "pbs" => "qstat text" \in Commands
      /\ table.kind = "slurm" => "config" \in Commands
      /\ table.kind = "lsf" => "bmgroup" \in Commands
      /\ table.kind = "sshpool" => table.pool # <<>> /\ table.pool \in Seq(Commands)
    BY <1>1, LoadersAssumption DEF Commands
<1>7. QED
    BY <1>2, <1>3, <1>4, <1>5, <1>6

\* There is a cluster, whatever its backend.
LEMMA HostsAreMany ==
    ASSUME NEW kind \in Kinds \ {"sshpool"}, NEW t, Possible(kind, t)
    PROVE  IsFiniteSet(DOMAIN t.hosts) /\ DOMAIN t.hosts # {}
<1>1. CASE kind = "slurm"
    BY <1>1 DEF Possible, Slurm!Possible, Slurm!ClusterOK, Slurm!IsFiniteSet, IsFiniteSet
<1>2. CASE kind = "pbs"
    BY <1>2 DEF Possible, Pbs!Possible, Pbs!ClusterOK, Pbs!IsFiniteSet, IsFiniteSet
<1>3. CASE kind = "lsf"
    BY <1>3 DEF Possible, Lsf!Possible, Lsf!ClusterOK, Lsf!IsFiniteSet, IsFiniteSet
<1>4. CASE kind = "sge"
    BY <1>4 DEF Possible, Sge!Possible, Sge!ClusterOK, Sge!IsFiniteSet, IsFiniteSet
<1>5. CASE kind = "kubernetes"
    BY <1>5 DEF Possible, Kubernetes!Possible, Kubernetes!ClusterOK, Kubernetes!IsFiniteSet, IsFiniteSet
<1>6. QED
    BY <1>1, <1>2, <1>3, <1>4, <1>5 DEF Kinds

\* What the loader of nodes read: every host there was.
LEMMA NodesAreHosts ==
    ASSUME Taken, Loaded, "nodes" \notin errors, table.kind # "sshpool"
    PROVE  /\ NodesBy \in Commands /\ Has("nodes", NodesBy)
           /\ DOMAIN SnapshotNodes = DOMAIN At("nodes", NodesBy).hosts
           /\ HostsThen = At("nodes", NodesBy).hosts
<1>1. table.kind \in Kinds /\ "nodes" \in Loaders
    BY NeededIsCommand
<1>2. NodesBy \in Needed(table.kind, "nodes")
    BY <1>1 DEF NodesBy, Needed, Kinds
<1>3. NodesBy \in Commands /\ Has("nodes", NodesBy)
    <2>1. NodesBy # "qstat json"
        BY <1>1 DEF NodesBy, Kinds
    <2>2. QED
        BY <1>2, <2>1, NeededIsCommand, NeededIsHad
<1>4. DOMAIN NodesRead = DOMAIN At("nodes", NodesBy).hosts
    <2>1. CASE table.kind = "slurm"
        BY <2>1 DEF NodesRead, NodesBy, Slurm!Nodes
    <2>2. CASE table.kind = "pbs"
        BY <2>2 DEF NodesRead, NodesBy, Pbs!Nodes
    <2>3. CASE table.kind = "lsf"
        BY <2>3 DEF NodesRead, NodesBy, Lsf!Nodes
    <2>4. CASE table.kind = "sge"
        BY <2>4 DEF NodesRead, NodesBy, Sge!Nodes
    <2>5. CASE table.kind = "kubernetes"
        BY <2>5 DEF NodesRead, NodesBy, Kubernetes!Nodes
    <2>6. QED
        BY <1>1, <2>1, <2>2, <2>3, <2>4, <2>5 DEF Kinds
<1>5. QED
    BY <1>3, <1>4 DEF SnapshotNodes, HostsThen

LEMMA PoolIsThere ==
    ASSUME Taken, Loaded, table.kind = "sshpool"
    PROVE  /\ "nodes" \notin errors => DOMAIN SnapshotNodes = Range(table.pool)
           /\ Range(table.pool) # {} /\ Len(table.pool) \in Nat \ {0}
           /\ IsFiniteSet(Range(table.pool)) /\ Cardinality(Range(table.pool)) <= Len(table.pool)
<1>1. table.pool # <<>> /\ table.pool \in Seq(Commands)
    BY NeededIsCommand
<1>2. Len(table.pool) \in Nat \ {0} /\ Range(table.pool) = {table.pool[i] : i \in 1 .. Len(table.pool)}
    BY <1>1 DEF Range
<1>3. IsFiniteSet(Range(table.pool)) /\ Cardinality(Range(table.pool)) <= Len(table.pool)
    <2>1. table.pool \in Surjection(1 .. Len(table.pool), Range(table.pool))
        BY <1>1, <1>2 DEF Surjection
    <2>2. IsFiniteSet(1 .. Len(table.pool)) /\ Cardinality(1 .. Len(table.pool)) = Len(table.pool)
        BY <1>2, FS_Interval
    <2>3. QED
        BY <2>1, <2>2, FS_Surjection
<1>4. table.pool[1] \in Range(table.pool)
    BY <1>2
<1>5. "nodes" \notin errors => DOMAIN SnapshotNodes = Range(table.pool)
    BY DEF SnapshotNodes, NodesRead, SshPool!Nodes, SshPool!Range, Range
<1>6. QED
    BY <1>2, <1>3, <1>4, <1>5

\* The queues that the loader of queues listed are those there were.
LEMMA QueuesAreListed ==
    ASSUME Taken, Loaded, "queues" \notin errors
    PROVE  DOMAIN SnapshotQueues = QueuesThen
<1>1. table.kind \in Kinds
    BY NeededIsCommand
<1>2. CASE table.kind = "slurm"
    BY <1>2 DEF SnapshotQueues, QueuesRead, QueuesThen, QueuesBy, Slurm!Queues
<1>3. CASE table.kind = "pbs"
    BY <1>3 DEF SnapshotQueues, QueuesRead, QueuesThen, QueuesBy, Pbs!Queues
<1>4. CASE table.kind = "lsf"
    BY <1>4 DEF SnapshotQueues, QueuesRead, QueuesThen, QueuesBy, Lsf!Queues
<1>5. CASE table.kind = "sge"
    BY <1>5 DEF SnapshotQueues, QueuesRead, QueuesThen, QueuesBy, Sge!Queues
<1>6. CASE table.kind = "kubernetes"
    BY <1>6 DEF SnapshotQueues, QueuesRead, QueuesThen, QueuesBy, Kubernetes!Queues
<1>7. CASE table.kind = "sshpool"
    BY <1>7 DEF QueuesThen
<1>8. QED
    BY <1>1, <1>2, <1>3, <1>4, <1>5, <1>6, <1>7 DEF Kinds

\* A report is made of all that was had, and of no queue that there was not.
LEMMA KnownIs ==
    ASSUME Taken, Loaded
    PROVE  KnownIsReported(SnapshotNodes, SnapshotQueues)
<1>1. "nodes" \notin errors => DOMAIN SnapshotNodes # {}
    <2>1. CASE table.kind = "sshpool"
        BY <2>1, PoolIsThere
    <2>2. CASE table.kind # "sshpool"
        <3>1. table.kind \in Kinds \ {"sshpool"} /\ "nodes" \in Loaders
            BY <2>2, NeededIsCommand
        <3>2. QED
            BY <2>2, <3>1, NodesAreHosts, TruthIsOfTheCluster, HostsAreMany
    <2>3. QED
        BY <2>1, <2>2
<1>2. "nodes" \in errors => DOMAIN SnapshotNodes = {}
    BY DEF SnapshotNodes
<1>3. "queues" \notin errors => DOMAIN SnapshotQueues = QueuesThen
    BY QueuesAreListed
<1>4. "queues" \in errors => DOMAIN SnapshotQueues = {}
    BY DEF SnapshotQueues
<1>5. QED
    BY <1>1, <1>2, <1>3, <1>4 DEF KnownIsReported, ExitStatus, Fatal, Unknown

-----------------------------------------------------------------------------
(* The hosts of a queue.                                                   *)

\* A queue that declares as many hosts as it names, and does not have them all, says so.
LEMMA WhatIsNamedIsCounted ==
    ASSUME NEW q, NEW N, IsFiniteSet(q.names), q.declared \in Nat, q.declared >= Cardinality(q.names),
           NEW M, M \subseteq q.names, ~(M \subseteq Wired(q, N))
    PROVE  Unresolved(q, N) > 0
<1>1. Wired(q, N) \subseteq q.names /\ Wired(q, N) # q.names
    BY DEF Wired
<1>2. Cardinality(Wired(q, N)) \in Nat /\ Cardinality(q.names) \in Nat
    BY <1>1, FS_Subset, FS_CardinalityType
<1>3. Cardinality(Wired(q, N)) < Cardinality(q.names)
    BY <1>1, <1>2, FS_Subset
<1>4. QED
    BY <1>2, <1>3 DEF Unresolved, AtLeastZero

\* What the loader of queues read, where it did not fail: of each command a truth
\* of this cluster.
LEMMA ReadOfQueues ==
    ASSUME Taken, Loaded, "queues" \notin errors, table.kind # "sshpool",
           NEW c \in {QueuesBy, MembersBy}
    PROVE  c \in Commands /\ Has("queues", c) /\ Possible(table.kind, At("queues", c))
<1>1. table.kind \in Kinds /\ "queues" \in Loaders
    BY NeededIsCommand
<1>2. CASE table.kind = "pbs" /\ c = QueuesBy
    <2>1. "qstat json" \in Needed(table.kind, "queues") /\ c = QstatForm
        BY <1>2 DEF Needed, QueuesBy
    <2>2. "qstat json" \in Commands /\ "qstat text" \in Commands
        BY <1>2, <2>1, NeededIsCommand
    <2>3. Has("queues", "qstat json") \/ Has("queues", "qstat text")
        BY <2>1, NeededIsHad
    <2>4. c \in Commands /\ Has("queues", c)
        BY <2>1, <2>2, <2>3 DEF QstatForm
    <2>5. QED
        BY <1>1, <2>4, TruthIsOfTheCluster
<1>3. CASE ~(table.kind = "pbs" /\ c = QueuesBy)
    <2>1. c \in Needed(table.kind, "queues") /\ c # "qstat json"
        BY <1>1, <1>3 DEF Needed, QueuesBy, MembersBy, NodesBy, Kinds
    <2>2. c \in Commands /\ Has("queues", c)
        BY <2>1, NeededIsCommand, NeededIsHad
    <2>3. QED
        BY <1>1, <2>2, TruthIsOfTheCluster
<1>4. QED
    BY <1>2, <1>3

\* What is made of a queue of each backend: the hosts it names, and how many it declares.
LEMMA SlurmNames ==
    ASSUME NEW t, NEW q \in DOMAIN t.queues
    PROVE  LET r == Slurm!Queues(t)[q] IN
           r.names = t.queues[q].members /\ r.declared = Cardinality(r.names)
BY DEF Slurm!Queues, Slurm!PlainQueue, Slurm!Cardinality, Cardinality

LEMMA PbsNames ==
    ASSUME NEW t, NEW N, NEW q \in DOMAIN t.queues
    PROVE  LET r == Pbs!Queues(t, N)[q] IN
           IF t.queues[q].service = "routes" THEN r.names = {} /\ r.declared = 0
           ELSE r.names = Pbs!Members(q, N) /\ r.declared = Cardinality(r.names)
BY DEF Pbs!Queues, Pbs!QueueOf, Pbs!PlainQueue, Pbs!Cardinality, Cardinality

LEMMA LsfNames ==
    ASSUME NEW t, NEW N, NEW known, NEW g, NEW q \in DOMAIN t.queues
    PROVE  LET r == Lsf!Queues(t, N, known, g)[q]
               is == Lsf!Resolve(t, t.queues[q], DOMAIN N, IF known THEN g.groups ELSE <<>>)
           IN  r.names = is.members /\ r.declared = Cardinality(r.names) + is.unresolved
BY DEF Lsf!Queues, Lsf!PlainQueue, Lsf!Cardinality, Cardinality

LEMMA SgeNames ==
    ASSUME NEW t, NEW N, NEW q \in DOMAIN t.queues
    PROVE  LET r == Sge!Queues(t, N)[q] IN
           /\ r.names \subseteq DOMAIN N /\ r.declared = Cardinality(r.names)
           /\ \A h \in DOMAIN N : h \in r.names <=> q \in N[h].queues
BY DEF Sge!Queues, Sge!PlainQueue, Sge!Cardinality, Cardinality

LEMMA KubernetesNames ==
    ASSUME NEW t, NEW N, NEW q \in DOMAIN t.queues
    PROVE  LET r == Kubernetes!Queues(t, N)[q] IN
           r.names = DOMAIN N /\ r.declared = Cardinality(r.names)
BY DEF Kubernetes!Queues, Kubernetes!PlainQueue, Kubernetes!Cardinality, Cardinality

LEMMA SshPoolNames ==
    ASSUME NEW pool
    PROVE  LET r == SshPool!Queues(pool)["pool"] IN
           r.names = Range(pool) /\ r.declared = Len(pool)
BY DEF SshPool!Queues, SshPool!PlainQueue, SshPool!Range, Range

\* The queue names hosts of its own, and where it does not name all of them it
\* declares more than it names.
Fair(r, members) ==
    /\ IsFiniteSet(r.names) /\ r.declared \in Nat /\ Cardinality(r.names) <= r.declared
    /\ r.names \subseteq members
    /\ members \subseteq r.names \/ Cardinality(r.names) < r.declared

LEMMA NamesCounted ==
    ASSUME NEW r, IsFiniteSet(r.names), r.declared = Cardinality(r.names)
    PROVE  Fair(r, r.names)
BY FS_CardinalityType DEF Fair

LEMMA SlurmIsFair ==
    ASSUME Taken, Loaded, "queues" \notin errors, table.kind = "slurm", NEW q \in DOMAIN SnapshotQueues
    PROVE  Fair(SnapshotQueues[q], MembersThen(q))
<1> DEFINE t == At("queues", "show partition")
           r == Slurm!Queues(t)[q]
<1>1. Slurm!Possible(t)
    BY ReadOfQueues DEF QueuesBy, Possible
<1>2. SnapshotQueues[q] = r /\ q \in DOMAIN t.queues
    BY DEF SnapshotQueues, QueuesRead, Slurm!Queues
<1>3. r.names = t.queues[q].members /\ r.declared = Cardinality(r.names)
    BY <1>2, SlurmNames
<1>4. /\ IsFiniteSet(t.queues[q].members) /\ t.queues[q].members \subseteq DOMAIN t.hosts
      /\ t.queues[q].service # "routes" /\ t.unrestricted = {}
    BY <1>1, <1>2 DEF Slurm!Possible, Slurm!ClusterOK, Slurm!IsFiniteSet, IsFiniteSet
<1>5. MembersThen(q) = (t.queues[q].members \cup t.unrestricted) \cap DOMAIN t.hosts
    <2>1. QueueThen(q) = t.queues[q]
        BY DEF QueueThen, QueuesBy
    <2>2. QED
        BY <1>4, <2>1 DEF MembersThen, MembersBy
<1>6. MembersThen(q) = r.names
    BY <1>3, <1>4, <1>5
<1>7. QED
    BY <1>2, <1>3, <1>4, <1>6, NamesCounted

LEMMA PbsIsFair ==
    ASSUME Taken, Loaded, "queues" \notin errors, table.kind = "pbs", NEW q \in DOMAIN SnapshotQueues
    PROVE  Fair(SnapshotQueues[q], MembersThen(q))
<1> DEFINE s == At("queues", QstatForm)
           t == At("queues", "pbsnodes")
           N == Pbs!Nodes(t)
           r == Pbs!Queues(s, N)[q]
<1>1. Pbs!Possible(t)
    BY ReadOfQueues DEF MembersBy, NodesBy, Possible
<1>2. SnapshotQueues[q] = r /\ q \in DOMAIN s.queues
    BY DEF SnapshotQueues, QueuesRead, Pbs!Queues
<1>3. QueueThen(q) = s.queues[q]
    BY DEF QueueThen, QueuesBy
<1>4. CASE s.queues[q].service = "routes"
    <2>1. r.names = {} /\ r.declared = 0
        BY <1>2, <1>4, PbsNames
    <2>2. MembersThen(q) = {}
        BY <1>3, <1>4 DEF MembersThen
    <2>3. QED
        BY <1>2, <2>1, <2>2, FS_EmptySet DEF Fair
<1>5. CASE s.queues[q].service # "routes"
    <2>1. r.names = Pbs!Members(q, N) /\ r.declared = Cardinality(r.names)
        BY <1>2, <1>5, PbsNames
    <2>2. DOMAIN N = DOMAIN t.hosts /\ \A h \in DOMAIN N : N[h].queues = Pbs!Qlist(t, h)
        BY DEF Pbs!Nodes, Pbs!Node
    <2>3. \A h \in DOMAIN t.hosts : h \in t.unrestricted \/ \E p \in DOMAIN t.queues : h \in t.queues[p].members
        BY <1>1 DEF Pbs!Possible
    <2> DEFINE own == UNION {t.queues[p].members : p \in DOMAIN t.queues \cap {q}}
    <2>4. MembersThen(q) = (own \cup t.unrestricted) \cap DOMAIN t.hosts
        BY <1>3, <1>5 DEF MembersThen, MembersBy, NodesBy
    <2>5. ASSUME NEW h \in DOMAIN t.hosts
          PROVE  h \in Pbs!Members(q, N) <=> h \in own \cup t.unrestricted
        <3>1. h \in Pbs!Members(q, N) <=> q \in Pbs!Qlist(t, h) \/ Pbs!Qlist(t, h) = {}
            BY <2>2, <2>5 DEF Pbs!Members
        <3>2. CASE h \in t.unrestricted
            BY <3>1, <3>2 DEF Pbs!Qlist
        <3>3. CASE h \notin t.unrestricted
            <4>1. Pbs!Qlist(t, h) = {p \in DOMAIN t.queues : h \in t.queues[p].members}
                BY <3>3 DEF Pbs!Qlist
            <4>2. Pbs!Qlist(t, h) # {}
                BY <2>3, <2>5, <3>3, <4>1
            <4>3. QED
                BY <3>1, <3>3, <4>1, <4>2
        <3>4. QED
            BY <3>2, <3>3
    <2>6. Pbs!Members(q, N) \subseteq DOMAIN t.hosts
        BY <2>2 DEF Pbs!Members
    <2> HIDE DEF N, own
    <2>7. MembersThen(q) = r.names
        BY <2>1, <2>4, <2>5, <2>6
    <2>8. IsFiniteSet(r.names)
        <3>1. IsFiniteSet(DOMAIN t.hosts)
            BY <1>1, HostsAreMany DEF Kinds, Possible
        <3>2. QED
            BY <2>1, <2>6, <3>1, FS_Subset
    <2>9. QED
        BY <1>2, <2>1, <2>7, <2>8, NamesCounted
<1>6. QED
    BY <1>4, <1>5

LEMMA LsfIsFair ==
    ASSUME Taken, Loaded, "queues" \notin errors, table.kind = "lsf", NEW q \in DOMAIN SnapshotQueues
    PROVE  Fair(SnapshotQueues[q], MembersThen(q))
<1> DEFINE s == At("queues", "bqueues")
           t == At("queues", "bhosts")
           N == Lsf!Nodes(t)
           known == Has("queues", "bmgroup")
           g == IF known THEN At("queues", "bmgroup") ELSE <<>>
           groups == IF known THEN g.groups ELSE <<>>
           p == s.queues[q]
           r == Lsf!Queues(s, N, known, g)[q]
           is == Lsf!Resolve(s, p, DOMAIN N, groups)
<1>1. /\ "bqueues" \in Commands /\ Has("queues", "bqueues") /\ Lsf!Possible(s)
      /\ "bhosts" \in Commands /\ Has("queues", "bhosts") /\ Lsf!Possible(t)
    BY ReadOfQueues DEF QueuesBy, MembersBy, NodesBy, Possible
<1>2. "queues" \in Loaders /\ "bmgroup" \in Commands
    BY NeededIsCommand
<1>3. Lsf!Steady(s, t) /\ (known => Lsf!Steady(s, At("queues", "bmgroup")))
    BY <1>1, <1>2, TruthsAgree DEF Steady
<1>4. SnapshotQueues[q] = r /\ q \in DOMAIN s.queues
    BY DEF SnapshotQueues, QueuesRead, Lsf!Queues
<1>5. QueueThen(q) = p
    BY DEF QueueThen, QueuesBy
<1>6. /\ p.service # "routes" /\ t.unrestricted = {}
      /\ p.spelled \in {"by name", "all"} \cup DOMAIN s.groups
      /\ DOMAIN s.groups \cap {"by name", "all", "allgpu"} = {}
    BY <1>1, <1>4 DEF Lsf!Possible
<1>7. MembersThen(q) = p.members \cap DOMAIN t.hosts
    BY <1>5, <1>6 DEF MembersThen, MembersBy, NodesBy
<1>8. DOMAIN N = DOMAIN t.hosts
    BY DEF Lsf!Nodes
<1>9. r.names = is.members /\ r.declared = Cardinality(r.names) + is.unresolved
    BY <1>4, LsfNames
<1>10. IsFiniteSet(DOMAIN t.hosts)
    BY <1>1, HostsAreMany DEF Kinds, Possible
<1> HIDE DEF N, s, t, known
<1>11. CASE p.spelled = "all"
    <2>1. is.members = DOMAIN t.hosts /\ is.unresolved = 0
        BY <1>8, <1>11 DEF Lsf!Resolve
    <2>2. DOMAIN t.hosts \subseteq p.members
        BY <1>3, <1>4, <1>11 DEF Lsf!Steady
    <2>3. r.names = MembersThen(q) /\ r.declared = Cardinality(r.names)
        BY <1>7, <1>9, <1>10, <2>1, <2>2, FS_CardinalityType
    <2>4. QED
        BY <1>4, <1>9, <1>10, <2>1, <2>3, NamesCounted
<1>12. CASE p.spelled # "all" /\ p.spelled # "by name"
    <2>1. /\ p.spelled \in DOMAIN s.groups /\ p.spelled # "allgpu" /\ p.spelled \notin DOMAIN t.hosts
          /\ p.members = t.groups[p.spelled] /\ t.groups = s.groups
        BY <1>3, <1>4, <1>6, <1>12 DEF Lsf!Steady
    <2>2. Lsf!Tokens(s, p) = {p.spelled}
        BY <1>12 DEF Lsf!Tokens
    <2>3. CASE known
        <3>1. groups = s.groups
            BY <1>3, <2>3 DEF Lsf!Steady
        <3>2. /\ is.members = groups[p.spelled] \cap DOMAIN t.hosts
              /\ is.unresolved = Lsf!Cardinality({})
            BY <1>8, <1>12, <2>1, <2>2, <3>1 DEF Lsf!Resolve
        <3>3. is.unresolved = 0
            BY <3>2, FS_EmptySet DEF Lsf!Cardinality, Cardinality
        <3>4. r.names = MembersThen(q)
            BY <1>7, <1>9, <2>1, <3>1, <3>2
        <3>5. IsFiniteSet(r.names)
            BY <1>7, <1>10, <3>4, FS_Subset
        <3>6. QED
            BY <1>4, <1>9, <3>3, <3>4, <3>5, FS_CardinalityType, NamesCounted
    <2>4. CASE ~known
        <3>1. DOMAIN groups = {} /\ p.spelled \notin DOMAIN N
            BY <1>8, <2>1, <2>4
        <3> HIDE DEF groups, p
        <3>2. is.members = {} /\ is.unresolved = Lsf!Cardinality({p.spelled})
            BY <1>12, <2>1, <2>2, <3>1 DEF Lsf!Resolve
        <3>3. is.unresolved = 1
            BY <3>2, FS_Singleton DEF Lsf!Cardinality, Cardinality
        <3> HIDE DEF is, r
        <3>4. IsFiniteSet(r.names) /\ Cardinality(r.names) = 0 /\ r.names = {} /\ r.declared = 1
            BY <1>9, <3>2, <3>3, FS_EmptySet
        <3>5. QED
            BY <1>4, <3>4 DEF Fair
    <2>5. QED
        BY <2>3, <2>4
<1>13. CASE p.spelled = "by name"
    <2>1. Lsf!Tokens(s, p) = p.members
        BY <1>13 DEF Lsf!Tokens
    <2> DEFINE here == {x \in p.members : x \in DOMAIN N}
               grouped == {x \in p.members : x \notin DOMAIN N /\ x \in DOMAIN groups}
               rest == p.members \ (here \cup grouped)
    <2>2. /\ is.members = here \cup UNION {groups[x] \cap DOMAIN N : x \in grouped}
          /\ is.unresolved = Lsf!Cardinality(rest)
        <3> HIDE DEF groups
        <3>1. QED
            BY <1>13, <2>1 DEF Lsf!Resolve
    <2>3. DOMAIN groups \cap p.members = {}
        <3>1. CASE known
            BY <1>3, <1>4, <3>1 DEF Lsf!Steady
        <3>2. CASE ~known
            BY <3>2
        <3>3. QED
            BY <3>1, <3>2
    <2>4. r.names = MembersThen(q)
        <3>1. grouped = {} /\ here = p.members \cap DOMAIN t.hosts
            BY <1>8, <2>3
        <3>2. is.members = here
            BY <2>2, <3>1
        <3>3. QED
            BY <1>7, <1>9, <3>1, <3>2
    <2>5. IsFiniteSet(r.names)
        BY <1>7, <1>10, <2>4, FS_Subset
    <2>6. is.unresolved \in Nat
        <3>1. IsFiniteSet(p.members)
            BY <1>1, <1>4 DEF Lsf!Possible, Lsf!ClusterOK, Lsf!IsFiniteSet, IsFiniteSet
        <3>2. IsFiniteSet(rest) /\ Lsf!Cardinality(rest) = Cardinality(rest)
            BY <3>1, FS_Subset DEF Lsf!Cardinality, Cardinality
        <3> HIDE DEF rest
        <3>3. QED
            BY <2>2, <3>2, FS_CardinalityType
    <2>7. QED
        BY <1>4, <1>9, <2>4, <2>5, <2>6, FS_CardinalityType DEF Fair
<1>14. QED
    BY <1>11, <1>12, <1>13

LEMMA SgeIsFair ==
    ASSUME Taken, Loaded, "queues" \notin errors, table.kind = "sge", NEW q \in DOMAIN SnapshotQueues
    PROVE  Fair(SnapshotQueues[q], MembersThen(q))
<1> DEFINE s == At("queues", "qconf -sql")
           t == At("queues", "qhost")
           N == Sge!Nodes(t)
           r == Sge!Queues(s, N)[q]
<1>1. Sge!Possible(s) /\ Sge!Possible(t)
    BY ReadOfQueues DEF QueuesBy, MembersBy, NodesBy, Possible
<1>2. SnapshotQueues[q] = r /\ q \in DOMAIN s.queues
    BY DEF SnapshotQueues, QueuesRead, Sge!Queues
<1>3. QueueThen(q) = s.queues[q] /\ s.queues[q].service # "routes"
    BY <1>1, <1>2 DEF QueueThen, QueuesBy, Sge!Possible
<1> DEFINE own == UNION {t.queues[p].members : p \in DOMAIN t.queues \cap {q}}
<1>4. MembersThen(q) = own \cap DOMAIN t.hosts
    <2>1. t.unrestricted = {}
        BY <1>1 DEF Sge!Possible
    <2>2. MembersThen(q) = (own \cup t.unrestricted) \cap DOMAIN t.hosts
        BY <1>3 DEF MembersThen, MembersBy, NodesBy
    <2>3. QED
        BY <2>1, <2>2
<1>5. /\ r.names \subseteq DOMAIN N /\ r.declared = Cardinality(r.names)
      /\ \A h \in DOMAIN N : h \in r.names <=> q \in N[h].queues
    BY <1>2, SgeNames
<1>6. DOMAIN N = DOMAIN t.hosts
    BY DEF Sge!Nodes
<1>7. ASSUME NEW h \in DOMAIN t.hosts PROVE q \in N[h].queues <=> h \in own
    <2> DEFINE instances == t.hosts[h].instances
    <2>1. N[h].queues = {instances[i].queue : i \in DOMAIN instances}
        BY DEF Sge!Nodes, Sge!Node
    <2>2. \A p \in DOMAIN t.queues : h \in t.queues[p].members <=> \E i \in DOMAIN instances : instances[i].queue = p
        BY <1>1 DEF Sge!Possible
    <2>3. \A i \in DOMAIN instances : instances[i].queue \in DOMAIN t.queues
        BY <1>1 DEF Sge!Possible
    <2> HIDE DEF N, instances, t
    <2>4. QED
        BY <2>1, <2>2, <2>3
<1>8. IsFiniteSet(DOMAIN t.hosts)
    BY <1>1, HostsAreMany DEF Kinds, Possible
<1> HIDE DEF N, own, t
<1>9. r.names = MembersThen(q) /\ r.names \subseteq DOMAIN t.hosts
    BY <1>4, <1>5, <1>6, <1>7
<1>10. IsFiniteSet(r.names)
    BY <1>8, <1>9, FS_Subset
<1>11. QED
    BY <1>2, <1>5, <1>9, <1>10, NamesCounted

LEMMA KubernetesIsFair ==
    ASSUME Taken, Loaded, "queues" \notin errors, table.kind = "kubernetes", NEW q \in DOMAIN SnapshotQueues
    PROVE  Fair(SnapshotQueues[q], MembersThen(q))
<1> DEFINE s == At("queues", "namespaces")
           t == At("queues", "nodes and pods")
           N == Kubernetes!Nodes(t)
           r == Kubernetes!Queues(s, N)[q]
<1>1. /\ "namespaces" \in Commands /\ Has("queues", "namespaces") /\ Kubernetes!Possible(s)
      /\ "nodes and pods" \in Commands /\ Has("queues", "nodes and pods") /\ Kubernetes!Possible(t)
    BY ReadOfQueues DEF QueuesBy, MembersBy, NodesBy, Possible
<1>2. Kubernetes!Steady(s, t)
    <2>1. "queues" \in Loaders
        BY NeededIsCommand
    <2>2. QED
        BY <1>1, <2>1, TruthsAgree DEF Steady
<1>3. SnapshotQueues[q] = r /\ q \in DOMAIN s.queues
    BY DEF SnapshotQueues, QueuesRead, Kubernetes!Queues
<1>4. QueueThen(q) = s.queues[q] /\ s.queues[q].service # "routes"
    BY <1>1, <1>3 DEF QueueThen, QueuesBy, Kubernetes!Possible
<1>5. DOMAIN t.hosts \subseteq s.queues[q].members
    BY <1>2, <1>3 DEF Kubernetes!Steady
<1>6. MembersThen(q) = DOMAIN t.hosts
    BY <1>4, <1>5 DEF MembersThen, MembersBy, NodesBy
<1>7. r.names = DOMAIN N /\ r.declared = Cardinality(r.names) /\ DOMAIN N = DOMAIN t.hosts
    <2>1. r.names = DOMAIN N /\ r.declared = Cardinality(r.names)
        <3> HIDE DEF N, s
        <3>1. QED
            BY <1>3, KubernetesNames
    <2>2. DOMAIN N = DOMAIN t.hosts
        BY DEF Kubernetes!Nodes
    <2>3. QED
        BY <2>1, <2>2
<1>8. IsFiniteSet(DOMAIN t.hosts)
    BY <1>1, HostsAreMany DEF Kinds, Possible
<1>9. QED
    BY <1>3, <1>6, <1>7, <1>8, NamesCounted

LEMMA SshPoolIsFair ==
    ASSUME Taken, Loaded, "queues" \notin errors, table.kind = "sshpool", NEW q \in DOMAIN SnapshotQueues
    PROVE  Fair(SnapshotQueues[q], MembersThen(q))
<1>1. SnapshotQueues[q] = SshPool!Queues(table.pool)["pool"]
    BY DEF SnapshotQueues, QueuesRead, SshPool!Queues
<1>2. MembersThen(q) = Range(table.pool)
    BY DEF MembersThen
<1>3. SnapshotQueues[q].names = Range(table.pool) /\ SnapshotQueues[q].declared = Len(table.pool)
    BY <1>1, SshPoolNames
<1>4. /\ Len(table.pool) \in Nat /\ IsFiniteSet(Range(table.pool))
      /\ Cardinality(Range(table.pool)) <= Len(table.pool)
    BY PoolIsThere
<1>5. QED
    BY <1>2, <1>3, <1>4 DEF Fair

LEMMA QueuesAreFair ==
    ASSUME Taken, Loaded, NEW q \in DOMAIN SnapshotQueues
    PROVE  "queues" \notin errors /\ Fair(SnapshotQueues[q], MembersThen(q))
<1>1. "queues" \notin errors
    BY DEF SnapshotQueues
<1>2. table.kind \in Kinds
    BY NeededIsCommand
<1>3. QED
    BY <1>1, <1>2, SlurmIsFair, PbsIsFair, LsfIsFair, SgeIsFair, KubernetesIsFair, SshPoolIsFair DEF Kinds

\* A host of a queue that is not among its nodes is said to be missing, and where the
\* nodes or the queues could not be had, or there is no such queue, no report is made.
THEOREM MembersAreNeverGuessed == Spec => []MissingIsSaid
<1>1. ASSUME Taken, Reported PROVE KnownIsReported(SnapshotNodes, SnapshotQueues) /\ MembersAreSaid(SnapshotNodes, SnapshotQueues)
    <2>1. Loaded
        BY <1>1 DEF Reported
    <2>2. ASSUME NEW q \in DOMAIN SnapshotQueues, ~(MembersThen(q) \subseteq Wired(SnapshotQueues[q], SnapshotNodes))
          PROVE  Unresolved(SnapshotQueues[q], SnapshotNodes) > 0
        <3> DEFINE r == SnapshotQueues[q]
        <3>1. Fair(r, MembersThen(q))
            BY <1>1, <2>1, QueuesAreFair
        <3>2. CASE MembersThen(q) \subseteq r.names
            BY <2>2, <3>1, <3>2, WhatIsNamedIsCounted DEF Fair
        <3>3. CASE Cardinality(r.names) < r.declared
            <4>1. Wired(r, SnapshotNodes) \in SUBSET r.names
                BY DEF Wired
            <4>2. /\ Cardinality(Wired(r, SnapshotNodes)) \in Nat /\ Cardinality(r.names) \in Nat
                  /\ Cardinality(Wired(r, SnapshotNodes)) <= Cardinality(r.names)
                BY <3>1, <4>1, FS_Subset, FS_CardinalityType DEF Fair
            <4>3. QED
                BY <3>1, <3>3, <4>2 DEF Unresolved, AtLeastZero, Fair
        <3>4. QED
            BY <3>1, <3>2, <3>3 DEF Fair
    <2>3. QED
        BY <1>1, <2>1, <2>2, KnownIs DEF MembersAreSaid
<1>2. Taken => MissingIsSaid
    BY <1>1 DEF MissingIsSaid
<1>3. QED
    BY <1>2, SnapshotIsTaken, PTL

-----------------------------------------------------------------------------
(* Which hosts take work.                                                  *)

LEMMA SlurmTells ==
    ASSUME NEW t, Slurm!Possible(t), NEW name \in DOMAIN t.hosts, NEW known, NEW config
    PROVE  Schedulable(Slurm!Node(t.hosts[name], known, config)) <=> InService(t.hosts[name])
<1> DEFINE h == t.hosts[name]
<1>1. h.service \in {"up", "planned", "powering up", "drained", "maintenance", "reserved", "blocked",
                     "powered down", "down", "lost", "cut short"}
    BY DEF Slurm!Possible
<1> HIDE DEF h
<1> DEFINE base == IF h.holds.cpus > 0 THEN "MIXED" ELSE "IDLE"
<1>2. base \in {"MIXED", "IDLE"}
    OBVIOUS
<1>3. CASE h.service = "cut short"
    <2>1. Slurm!Words(h) = {}
        BY <1>3 DEF Slurm!Words
    <2>2. Slurm!Node(h, known, config).conditions = {"UNKNOWN"}
        BY <2>1 DEF Slurm!Node, Slurm!Blank
    <2>3. QED
        BY <1>3, <2>2 DEF h, Schedulable, BlockingConditions, InService
<1>4. CASE h.service # "cut short"
    <2>1. /\ h.service \in {"up", "planned", "powering up", "drained", "maintenance", "reserved", "blocked", "powered down"}
                 => base \in Slurm!Words(h)
          /\ h.service \in {"down", "lost"} => "DOWN" \in Slurm!Words(h)
        BY <1>4 DEF Slurm!Words
    <2>2. Slurm!Words(h) # {}
        BY <1>1, <1>4, <2>1
    <2>3. Slurm!Node(h, known, config).conditions = Slurm!Conditions(Slurm!Words(h))
        BY <2>2 DEF Slurm!Node
    <2>4. CASE h.service \in {"up", "planned", "powering up"}
        <3>1. Slurm!Words(h) \subseteq {"MIXED", "IDLE", "PLANNED", "POWERING_UP"}
            BY <2>4 DEF Slurm!Words
        <3>2. Slurm!Conditions(Slurm!Words(h)) \subseteq {"PLANNED"}
            BY <3>1 DEF Slurm!Conditions
        <3>3. QED
            BY <2>3, <2>4, <3>2 DEF h, Schedulable, BlockingConditions, InService
    <2>5. CASE h.service \notin {"up", "planned", "powering up"}
        <3>1. Slurm!Words(h) \cap {"DRAIN", "MAINT", "RESERVED", "BLOCKED", "POWERED_DOWN", "DOWN"} # {}
            BY <1>1, <1>4, <2>5 DEF Slurm!Words
        <3>2. Slurm!Conditions(Slurm!Words(h)) \cap BlockingConditions # {}
            BY <3>1 DEF Slurm!Conditions, BlockingConditions
        <3>3. QED
            BY <1>1, <1>4, <2>3, <2>5, <3>2 DEF h, Schedulable, InService
    <2>6. QED
        BY <2>4, <2>5
<1>5. QED
    BY <1>3, <1>4

LEMMA PbsTells ==
    ASSUME NEW t, Pbs!Possible(t), NEW name \in DOMAIN t.hosts
    PROVE  Schedulable(Pbs!Node(t, name)) <=> InService(t.hosts[name])
<1> DEFINE h == t.hosts[name]
<1>1. h.service \in {"up", "drained", "down", "lost", "stale", "maintenance", "reserved", "powered down"}
    BY DEF Pbs!Possible
<1>2. Pbs!Node(t, name).conditions = Pbs!Conditions(Pbs!States(h))
    BY DEF Pbs!Node
<1> HIDE DEF h
<1>3. CASE h.service = "up"
    <2>1. Pbs!States(h) \subseteq {"free", "job-exclusive"}
        BY <1>3 DEF Pbs!States
    <2>2. Pbs!Conditions(Pbs!States(h)) = {}
        BY <2>1 DEF Pbs!Conditions
    <2>3. QED
        BY <1>2, <1>3, <2>2 DEF h, Schedulable, InService
<1>4. CASE h.service # "up"
    <2>1. Pbs!States(h) \cap {"offline", "down", "stale", "maintenance", "resv-exclusive", "sleep"} # {}
        BY <1>1, <1>4 DEF Pbs!States
    <2>2. Pbs!Conditions(Pbs!States(h)) \cap BlockingConditions # {}
        BY <2>1 DEF Pbs!Conditions, BlockingConditions
    <2>3. QED
        BY <1>1, <1>2, <1>4, <2>2 DEF h, Schedulable, InService
<1>5. QED
    BY <1>3, <1>4

LEMMA LsfTells ==
    ASSUME NEW t, Lsf!Possible(t), NEW name \in DOMAIN t.hosts
    PROVE  Schedulable(Lsf!Node(t, t.hosts[name])) <=> InService(t.hosts[name])
<1> DEFINE h == t.hosts[name]
<1>1. h.service \in {"up", "busy", "drained", "reserved", "window", "lost", "down", "unheard of"}
    BY DEF Lsf!Possible
<1>2. Lsf!Node(t, h).conditions = Lsf!Conditions(Lsf!Status(h))
    BY DEF Lsf!Node
<1> HIDE DEF h
<1>3. CASE h.service \in {"up", "busy"}
    <2>1. Lsf!Status(h) \in {"closed_full", "ok", "closed_busy"}
        BY <1>3 DEF Lsf!Status
    <2>2. Lsf!Conditions(Lsf!Status(h)) = {}
        BY <2>1 DEF Lsf!Conditions
    <2>3. QED
        BY <1>2, <1>3, <2>2 DEF h, Schedulable, InService
<1>4. CASE h.service \notin {"up", "busy"}
    <2>1. Lsf!Status(h) \in {"closed_adm", "closed_excl", "closed_wind", "closed_lim", "unavail", "closed_ego"}
        BY <1>1, <1>4 DEF Lsf!Status
    <2>2. Lsf!Conditions(Lsf!Status(h)) \in {{"DOWN"}, {"DRAIN"}, {"RESERVED"}, {"UNKNOWN"}}
        BY <2>1 DEF Lsf!Conditions
    <2>3. QED
        BY <1>1, <1>2, <1>4, <2>2 DEF h, Schedulable, InService, BlockingConditions
<1>5. QED
    BY <1>3, <1>4

LEMMA SgeTells ==
    ASSUME NEW t, Sge!Possible(t), NEW name \in DOMAIN t.hosts
    PROVE  Schedulable(Sge!Node(t, t.hosts[name])) <=> InService(t.hosts[name])
<1> DEFINE h == t.hosts[name]
<1>1. /\ h.service \in {"up", "busy", "lost", "drained", "calendar", "suspended", "failed", "in part"}
      /\ DOMAIN h.instances = 1 .. Len(h.instances) /\ Len(h.instances) \in Nat \ {0}
      /\ "qstat" \notin t.lost
    BY DEF Sge!Possible
<1>2. Sge!Node(t, h).conditions = Sge!Conditions(Sge!InstanceState(h))
    BY <1>1 DEF Sge!Node
<1> HIDE DEF h
<1> DEFINE said == {i \in DOMAIN h.instances : Sge!Letters(h, i) # {} /\ Sge!Letters(h, i) \subseteq Sge!Alphabet}
           letters == Sge!InstanceState(h)
<1>3. letters = IF said = {} THEN {} ELSE Sge!Letters(h, Sge!Max(said))
    BY DEF Sge!InstanceState
<1>4. CASE h.service \in {"up", "busy"}
    <2>1. \A i \in DOMAIN h.instances : Sge!Letters(h, i) \subseteq {"a"}
        BY <1>4 DEF Sge!Letters
    <2>2. \A i : Sge!Letters(h, i) \subseteq {"a"}
        BY <1>4 DEF Sge!Letters
    <2>3. letters \subseteq {"a"}
        BY <1>3, <2>2
    <2>4. Sge!Conditions(letters) = {}
        BY <2>3 DEF Sge!Conditions
    <2>5. QED
        BY <1>2, <1>4, <2>4 DEF h, Schedulable, InService
<1>5. CASE h.service \notin {"up", "busy"}
    <2>1. 1 \in said
        <3>1. 1 \in 1 .. Len(h.instances)
            <4>1. Len(h.instances) \in Nat \ {0}
                BY <1>1
            <4>2. QED
                BY <4>1
        <3>2. Sge!Letters(h, 1) # {} /\ Sge!Letters(h, 1) \subseteq Sge!Alphabet
            <4>1. Sge!Letters(h, 1) \in {{"a", "u"}, {"d"}, {"D"}, {"s"}, {"E"}}
                BY <1>1, <1>5 DEF Sge!Letters
            <4>2. QED
                BY <4>1 DEF Sge!Alphabet
        <3>3. 1 \in DOMAIN h.instances
            <4>1. DOMAIN h.instances = 1 .. Len(h.instances)
                BY <1>1
            <4>2. QED
                BY <3>1, <4>1, Zenon
        <3>4. QED
            BY <3>2, <3>3
    <2>2. letters \cap {"u", "d", "D", "s", "E"} # {}
        <3>1. CASE h.service # "in part"
            <4>1. \A i : Sge!Letters(h, i) \cap {"u", "d", "D", "s", "E"} # {}
                BY <1>1, <1>5, <3>1 DEF Sge!Letters
            <4>2. QED
                BY <1>3, <2>1, <4>1
        <3>2. CASE h.service = "in part"
            <4>1. \A i : i \in said <=> i = 1
                BY <2>1, <3>2 DEF Sge!Letters
            <4>2. Sge!Max(said) = 1
                <5>1. \A x \in said : 1 >= x
                    BY <4>1
                <5>2. QED
                    BY <2>1, <4>1, <5>1 DEF Sge!Max
            <4>3. Sge!Letters(h, 1) = {"d"}
                BY <3>2 DEF Sge!Letters
            <4>4. QED
                BY <1>3, <2>1, <4>2, <4>3
        <3>3. QED
            BY <3>1, <3>2
    <2>3. Sge!Conditions(letters) \cap BlockingConditions # {}
        BY <2>2 DEF Sge!Conditions, BlockingConditions
    <2>4. QED
        BY <1>1, <1>2, <1>5, <2>3 DEF h, Schedulable, InService
<1>6. QED
    BY <1>4, <1>5

LEMMA KubernetesTells ==
    ASSUME NEW t, Kubernetes!Possible(t), NEW name \in DOMAIN t.hosts
    PROVE  Schedulable(Kubernetes!Node(t.hosts[name])) <=> InService(t.hosts[name])
<1> DEFINE h == t.hosts[name]
<1>1. h.service \in {"up", "drained", "down", "lost"}
    BY DEF Kubernetes!Possible
<1>2. Kubernetes!Node(h).conditions = {c \in {"DOWN", "DRAIN"} :
         \/ c = "DOWN" /\ ~Kubernetes!ReadyIsTrue(h)
         \/ c = "DRAIN" /\ h.service = "drained"}
    BY DEF Kubernetes!Node
<1> HIDE DEF h
<1>3. Kubernetes!Node(h).conditions = {} <=> h.service = "up"
    BY <1>1, <1>2 DEF Kubernetes!ReadyIsTrue
<1>4. Kubernetes!Node(h).conditions \subseteq BlockingConditions
    BY <1>2 DEF BlockingConditions
<1>5. QED
    BY <1>1, <1>3, <1>4 DEF h, Schedulable, InService

LEMMA SshPoolTells ==
    ASSUME NEW h, h.service \in {"up", "down"}
    PROVE  Schedulable(SshPool!Node(h)) <=> InService(h)
<1>1. SshPool!Node(h).conditions = IF h.service = "up" THEN {} ELSE {"DOWN"}
    BY DEF SshPool!Node, SshPool!Blank
<1>2. QED
    BY <1>1 DEF Schedulable, BlockingConditions, InService

\* A machine that answered is of a truth of its own.
LEMMA HeardOfThePool ==
    ASSUME Taken, Loaded, "nodes" \notin errors, table.kind = "sshpool", NEW h \in Heard
    PROVE  /\ SshPool!Possible(At("nodes", h)) /\ h \in DOMAIN At("nodes", h).hosts
           /\ SnapshotNodes[h] = SshPool!Node(At("nodes", h).hosts[h])
           /\ HostsThen[h] = At("nodes", h).hosts[h]
<1>1. table.pool \in Seq(Commands) /\ "nodes" \in Loaders
    BY NeededIsCommand
<1>2. h \in Range(table.pool) /\ Has("nodes", h)
    BY DEF Heard
<1>3. h \in Commands
    BY <1>1, <1>2 DEF Range
<1>4. Possible("sshpool", At("nodes", h)) /\ h \in DOMAIN At("nodes", h).hosts
    BY <1>1, <1>2, <1>3, TruthIsOfTheCluster
<1>5. SnapshotNodes = SshPool!Nodes(table.pool, [x \in Heard |-> At("nodes", x).hosts[x]])
    BY DEF SnapshotNodes, NodesRead
<1>6. SnapshotNodes[h] = SshPool!Node(At("nodes", h).hosts[h])
    BY <1>2, <1>5 DEF SshPool!Nodes, SshPool!Range, Range
<1>7. HostsThen[h] = At("nodes", h).hosts[h]
    BY DEF HostsThen
<1>8. QED
    BY <1>4, <1>6, <1>7 DEF Possible

\* A node that was read is schedulable where its host was in service, and only there.
LEMMA NodesTell ==
    ASSUME Taken, Loaded, NEW h \in DOMAIN SnapshotNodes \cap DOMAIN HostsThen
    PROVE  Schedulable(SnapshotNodes[h]) <=> InService(HostsThen[h])
<1>1. "nodes" \notin errors /\ table.kind \in Kinds /\ "nodes" \in Loaders
    <2>1. "nodes" \in errors => SnapshotNodes = <<>>
        BY DEF SnapshotNodes
    <2>2. DOMAIN SnapshotNodes # {}
        OBVIOUS
    <2>3. "nodes" \notin errors
        BY <2>1, <2>2
    <2>4. QED
        BY <2>3, NeededIsCommand
<1>2. CASE table.kind = "sshpool"
    <2>1. h \in Heard
        BY <1>1, <1>2 DEF HostsThen
    <2>2. At("nodes", h).hosts[h].service \in {"up", "down"}
        BY <1>1, <1>2, <2>1, HeardOfThePool DEF SshPool!Possible
    <2>3. QED
        BY <1>1, <1>2, <2>1, <2>2, HeardOfThePool, SshPoolTells
<1>3. CASE table.kind # "sshpool"
    <2> DEFINE t == At("nodes", NodesBy)
    <2>1. Possible(table.kind, t) /\ h \in DOMAIN t.hosts /\ HostsThen[h] = t.hosts[h]
        BY <1>1, <1>3, NodesAreHosts, TruthIsOfTheCluster
    <2>2. CASE table.kind = "slurm"
        <3> DEFINE known == Has("nodes", "config")
                   config == IF known THEN At("nodes", "config").config ELSE <<>>
        <3>1. SnapshotNodes[h] = Slurm!Node(t.hosts[h], known, config)
            BY <1>1, <2>1, <2>2 DEF SnapshotNodes, NodesRead, NodesBy, Slurm!Nodes
        <3>2. Slurm!Possible(t)
            BY <2>1, <2>2 DEF Possible
        <3> HIDE DEF t, known, config
        <3>3. QED
            BY <2>1, <3>1, <3>2, SlurmTells
    <2>3. CASE table.kind = "pbs"
        <3>1. SnapshotNodes[h] = Pbs!Node(t, h)
            BY <1>1, <2>1, <2>3 DEF SnapshotNodes, NodesRead, NodesBy, Pbs!Nodes
        <3>2. QED
            BY <2>1, <2>3, <3>1, PbsTells DEF Possible
    <2>4. CASE table.kind = "lsf"
        <3>1. SnapshotNodes[h] = Lsf!Node(t, t.hosts[h])
            BY <1>1, <2>1, <2>4 DEF SnapshotNodes, NodesRead, NodesBy, Lsf!Nodes
        <3>2. QED
            BY <2>1, <2>4, <3>1, LsfTells DEF Possible
    <2>5. CASE table.kind = "sge"
        <3>1. SnapshotNodes[h] = Sge!Node(t, t.hosts[h])
            BY <1>1, <2>1, <2>5 DEF SnapshotNodes, NodesRead, NodesBy, Sge!Nodes
        <3>2. QED
            BY <2>1, <2>5, <3>1, SgeTells DEF Possible
    <2>6. CASE table.kind = "kubernetes"
        <3>1. SnapshotNodes[h] = Kubernetes!Node(t.hosts[h])
            BY <1>1, <2>1, <2>6 DEF SnapshotNodes, NodesRead, NodesBy, Kubernetes!Nodes
        <3>2. QED
            BY <2>1, <2>6, <3>1, KubernetesTells DEF Possible
    <2>7. QED
        BY <1>1, <1>3, <2>2, <2>3, <2>4, <2>5, <2>6 DEF Kinds
<1>4. QED
    BY <1>2, <1>3

\* The nodes are of hosts whose names can be written.
LEMMA NodesAreSpelled ==
    ASSUME Taken, Loaded
    PROVE  DOMAIN SnapshotNodes \subseteq DOMAIN Spelling
<1>1. CASE "nodes" \in errors
    BY <1>1 DEF SnapshotNodes
<1>2. CASE "nodes" \notin errors /\ table.kind = "sshpool"
    <2>1. table \in Tables /\ 1 \in 1 .. MaxVersion
        BY SnapshotAssumption DEF Taken, IInv, Shape
    <2>2. Range(table.pool) \subseteq DOMAIN Spelling
        BY <1>2, <2>1, TruthAssumption
    <2>3. QED
        BY <1>2, <2>2, PoolIsThere
<1>3. CASE "nodes" \notin errors /\ table.kind # "sshpool"
    <2>1. "nodes" \in Loaders
        BY NeededIsCommand
    <2>2. QED
        BY <1>3, <2>1, NodesAreHosts, TruthIsOfTheCluster
<1>4. QED
    BY <1>1, <1>2, <1>3

\* A submission that excludes what is printed is kept from every host that takes no
\* work, and from no host in service.
THEOREM TheBrokenAreKeptOut == Spec => []OutOfServiceIsExcluded
<1>1. ASSUME Taken, Reported PROVE OnlyTheBroken(Excluded(table.kind, Picked), SnapshotNodes, HostsThen)
    <2>1. Loaded
        BY <1>1 DEF Reported
    <2>2. table.kind \in Kinds
        BY <1>1, NeededIsCommand
    <2>3. Unschedulable(SnapshotNodes) \in SUBSET DOMAIN Spelling
        BY <1>1, <2>1, NodesAreSpelled DEF Unschedulable
    <2>4. Excluded(table.kind, Picked) = Unschedulable(SnapshotNodes)
        BY <2>2, <2>3, ListsAreReadBack DEF Picked
    <2>5. \A h \in DOMAIN SnapshotNodes \cap DOMAIN HostsThen : Schedulable(SnapshotNodes[h]) <=> InService(HostsThen[h])
        BY <1>1, <2>1, NodesTell
    <2>6. QED
        BY <2>4, <2>5 DEF OnlyTheBroken, Unschedulable
<1>2. Taken => OutOfServiceIsExcluded
    BY <1>1 DEF OutOfServiceIsExcluded
<1>3. QED
    BY <1>2, SnapshotIsTaken, PTL

-----------------------------------------------------------------------------
(* Sets of numbers, and sums over finite sets.                             *)

LEMMA LeastSubset ==
  ASSUME NEW S, IsFiniteSet(S), NEW B \in SUBSET (SUBSET S), B # {}
  PROVE  \E T \in B : \A U \in B : U \subseteq T => U = T
<1>1. IsWellFoundedOn(StrictSubsetOrdering(S), SUBSET S)
  BY FS_StrictSubsetOrderingWellFounded, FS_FiniteSubsetsOfFinite
<1>2. PICK T \in B : \A U \in B : ~ (<<U, T>> \in StrictSubsetOrdering(S))
  BY <1>1, WFMin
<1> QED BY <1>2 DEF StrictSubsetOrdering

LEMMA GreatestNumber ==
  ASSUME NEW S, IsFiniteSet(S), S # {}, NEW f \in [S -> Nat]
  PROVE  LET V == {f[x] : x \in S} IN Max(V) \in V /\ \A x \in S : f[x] <= Max(V)
<1> DEFINE B == {T \in SUBSET S : T # {} /\ ~ \E x \in T : \A y \in T : f[y] <= f[x]}
<1>1. ASSUME B # {} PROVE FALSE
  <2>1. PICK T \in B : \A U \in B : U \subseteq T => U = T
    <3>1. B \in SUBSET (SUBSET S)
      OBVIOUS
    <3> HIDE DEF B
    <3> QED BY <1>1, <3>1, LeastSubset
  <2>2. PICK a \in T : TRUE
    BY <2>1
  <2>3. T \ {a} # {}
    BY <2>1, <2>2
  <2>4. T \ {a} \notin B
    BY <2>1, <2>2
  <2>5. PICK b \in T \ {a} : \A y \in T \ {a} : f[y] <= f[b]
    BY <2>1, <2>3, <2>4
  <2>6. f[a] \in Nat /\ f[b] \in Nat
    BY <2>1, <2>2, <2>5
  <2>7. CASE f[a] <= f[b]
    BY <2>1, <2>2, <2>5, <2>7
  <2>8. CASE ~(f[a] <= f[b])
    <3>1. \A y \in T : f[y] \in Nat
      BY <2>1
    <3>2. \A y \in T : f[y] <= f[a]
      BY <2>5, <2>6, <2>8, <3>1
    <3> QED BY <2>1, <2>2, <3>2
  <2> QED BY <2>7, <2>8
<1>2. PICK x \in S : \A y \in S : f[y] <= f[x]
  BY <1>1
<1> DEFINE V == {f[z] : z \in S}
<1>3. f[x] \in V /\ (\A v \in V : f[x] >= v)
  BY <1>2
<1>4. Max(V) \in V /\ \A v \in V : Max(V) >= v
  BY <1>3 DEF Max
<1>5. \A z \in S : f[z] \in V /\ f[z] \in Nat
  OBVIOUS
<1>6. Max(V) \in Nat
  BY <1>4
<1> QED BY <1>4, <1>5, <1>6

Pick(s) == CHOOSE x \in s : TRUE
Adds(f, S, g) == g = [s \in SUBSET S |-> IF s = {} THEN 0 ELSE f[Pick(s)] + g[s \ {Pick(s)}]]

LEMMA PickIsIn ==
  ASSUME NEW s, s # {}
  PROVE  Pick(s) \in s /\ s \ {Pick(s)} \subseteq s /\ s \ {Pick(s)} # s
BY DEF Pick

LEMMA SumIsChosen ==
  ASSUME NEW f, NEW S
  PROVE  SumFunctionOnSet(f, S) = (CHOOSE g : Adds(f, S, g))[S]
BY DEF SumFunctionOnSet, FoldFunctionOnSet, MapThenFoldSet, Adds, Pick

\* The functions that add up over the subsets of S agree where both are defined.
LEMMA AddsOnce ==
  ASSUME NEW S, IsFiniteSet(S), NEW R \in SUBSET S, NEW f, NEW g, NEW h,
         Adds(f, S, g), Adds(f, R, h)
  PROVE  \A s \in SUBSET R : g[s] = h[s]
<1> DEFINE B == {s \in SUBSET R : g[s] # h[s]}
<1>1. ASSUME B # {} PROVE FALSE
  <2>1. PICK T \in B : \A U \in B : U \subseteq T => U = T
    <3>1. B \in SUBSET (SUBSET S)
      OBVIOUS
    <3> HIDE DEF B
    <3> QED BY <1>1, <3>1, LeastSubset
  <2>2. CASE T = {}
    BY <2>1, <2>2 DEF Adds
  <2>3. CASE T # {}
    <3>1. T \ {Pick(T)} \notin B /\ T \ {Pick(T)} \in SUBSET R
      BY <2>1, <2>3, PickIsIn
    <3>2. g[T] = f[Pick(T)] + g[T \ {Pick(T)}]
      BY <2>1, <2>3 DEF Adds
    <3>3. h[T] = f[Pick(T)] + h[T \ {Pick(T)}]
      BY <2>1, <2>3 DEF Adds
    <3> QED BY <2>1, <3>1, <3>2, <3>3
  <2> QED BY <2>2, <2>3
<1> QED BY <1>1

LEMMA AddsExists ==
  ASSUME NEW S, IsFiniteSet(S), NEW f
  PROVE  \E g : Adds(f, S, g)
<1> DEFINE B == {T \in SUBSET S : ~ \E g : Adds(f, T, g)}
<1>1. ASSUME B # {} PROVE FALSE
  <2>1. PICK T \in B : \A U \in B : U \subseteq T => U = T
    <3>1. B \in SUBSET (SUBSET S)
      OBVIOUS
    <3> HIDE DEF B
    <3> QED BY <1>1, <3>1, LeastSubset
  <2>2. ASSUME NEW U \in SUBSET T, U # T PROVE \E g : Adds(f, U, g)
    BY <2>1, <2>2
  <2> DEFINE of(U) == CHOOSE g : Adds(f, U, g)
             G == [s \in SUBSET T |-> IF s = {} THEN 0 ELSE f[Pick(s)] + of(s \ {Pick(s)})[s \ {Pick(s)}]]
  <2>3. ASSUME NEW U \in SUBSET T, U # T PROVE Adds(f, U, of(U))
    BY <2>2, <2>3
  <2>4. ASSUME NEW U \in SUBSET T, U # T PROVE G[U] = of(U)[U]
    <3>1. Adds(f, U, of(U))
      BY <2>3, <2>4
    <3>2. CASE U = {}
      BY <3>1, <3>2 DEF Adds
    <3>3. CASE U # {}
      <4> DEFINE V == U \ {Pick(U)}
      <4>1. V \in SUBSET U /\ V \in SUBSET T /\ V # T
        BY <3>3, <2>4, PickIsIn
      <4>2. Adds(f, V, of(V))
        BY <4>1, <2>3
      <4>3. IsFiniteSet(U)
        BY FS_Subset, <2>1
      <4>4. of(U)[V] = of(V)[V]
        <5>1. V \in SUBSET V
          OBVIOUS
        <5> HIDE DEF V, of
        <5> QED BY <4>1, <4>2, <4>3, <3>1, <5>1, AddsOnce
      <4>5. of(U)[U] = f[Pick(U)] + of(U)[V]
        <5>1. U \in SUBSET U
          OBVIOUS
        <5> HIDE DEF of
        <5> QED BY <3>1, <3>3, <5>1 DEF Adds
      <4>6. G[U] = f[Pick(U)] + of(V)[V]
        <5> HIDE DEF of
        <5> QED BY <3>3, <2>4
      <4> QED BY <4>4, <4>5, <4>6
    <3> QED BY <3>2, <3>3
  <2>5. Adds(f, T, G)
    <3>1. ASSUME NEW s \in SUBSET T PROVE G[s] = IF s = {} THEN 0 ELSE f[Pick(s)] + G[s \ {Pick(s)}]
      <4>1. CASE s = {}
        BY <4>1
      <4>2. CASE s # {}
        <5>1. s \ {Pick(s)} \in SUBSET T /\ s \ {Pick(s)} # T
          BY <4>2, PickIsIn
        <5>2. G[s \ {Pick(s)}] = of(s \ {Pick(s)})[s \ {Pick(s)}]
          BY <5>1, <2>4
        <5>3. G[s] = f[Pick(s)] + of(s \ {Pick(s)})[s \ {Pick(s)}]
          BY <4>2
        <5> QED BY <4>2, <5>2, <5>3
      <4> QED BY <4>1, <4>2
    <3>2. G = [s \in SUBSET T |-> G[s]]
      OBVIOUS
    <3> HIDE DEF G
    <3>3. [s \in SUBSET T |-> G[s]] = [s \in SUBSET T |-> IF s = {} THEN 0 ELSE f[Pick(s)] + G[s \ {Pick(s)}]]
      BY <3>1
    <3> QED BY <3>2, <3>3 DEF Adds
  <2> HIDE DEF G
  <2> QED BY <2>1, <2>5
<1> QED BY <1>1

LEMMA SumEmpty ==
  ASSUME NEW f
  PROVE  SumFunctionOnSet(f, {}) = 0
<1>1. \E g : Adds(f, {}, g)
  BY AddsExists, FS_EmptySet
<1>2. Adds(f, {}, CHOOSE g : Adds(f, {}, g))
  BY <1>1
<1> DEFINE h == CHOOSE g : Adds(f, {}, g)
<1>3. h[{}] = 0
  <2>1. {} \in SUBSET {}
    OBVIOUS
  <2> HIDE DEF h
  <2> QED BY <1>2, <2>1 DEF Adds, h
<1> QED BY <1>3, SumIsChosen

LEMMA SumPicks ==
  ASSUME NEW S, IsFiniteSet(S), S # {}, NEW f
  PROVE  SumFunctionOnSet(f, S) = f[Pick(S)] + SumFunctionOnSet(f, S \ {Pick(S)})
<1> DEFINE of(U) == CHOOSE g : Adds(f, U, g)
           V == S \ {Pick(S)}
<1>1. IsFiniteSet(V) /\ V \in SUBSET S
  BY FS_RemoveElement
<1>2. Adds(f, S, of(S)) /\ Adds(f, V, of(V))
  <2>1. (\E g : Adds(f, S, g)) /\ (\E g : Adds(f, V, g))
    BY <1>1, AddsExists
  <2> QED BY <2>1
<1>3. of(S)[S] = f[Pick(S)] + of(S)[V]
  <2>1. S \in SUBSET S
    OBVIOUS
  <2> HIDE DEF of
  <2> QED BY <1>2, <2>1 DEF Adds
<1>4. of(S)[V] = of(V)[V]
  <2>1. V \in SUBSET V
    OBVIOUS
  <2> HIDE DEF of, V
  <2> QED BY <1>1, <1>2, <2>1, AddsOnce
<1>5. SumFunctionOnSet(f, S) = of(S)[S] /\ SumFunctionOnSet(f, V) = of(V)[V]
  BY SumIsChosen
<1> HIDE DEF of
<1> QED BY <1>3, <1>4, <1>5

LEMMA SumIsNumber ==
  ASSUME NEW S, IsFiniteSet(S), NEW f, \A x \in S : f[x] \in Nat
  PROVE  SumFunctionOnSet(f, S) \in Nat
<1> DEFINE B == {T \in SUBSET S : SumFunctionOnSet(f, T) \notin Nat}
<1>1. ASSUME B # {} PROVE FALSE
  <2>1. PICK T \in B : \A U \in B : U \subseteq T => U = T
    <3>1. B \in SUBSET (SUBSET S)
      OBVIOUS
    <3> HIDE DEF B
    <3> QED BY <1>1, <3>1, LeastSubset
  <2>2. T # {}
    <3>1. SumFunctionOnSet(f, {}) \in Nat
      BY SumEmpty
    <3> QED BY <2>1, <3>1
  <2>3. T \ {Pick(T)} \notin B /\ T \ {Pick(T)} \in SUBSET S
    BY <2>1, <2>2, PickIsIn
  <2>4. SumFunctionOnSet(f, T) = f[Pick(T)] + SumFunctionOnSet(f, T \ {Pick(T)})
    BY <2>1, <2>2, FS_Subset, SumPicks
  <2>5. f[Pick(T)] \in Nat
    BY <2>1, <2>2, PickIsIn
  <2>6. SumFunctionOnSet(f, T \ {Pick(T)}) \in Nat
    BY <2>3
  <2> QED BY <2>1, <2>4, <2>5, <2>6
<1> QED BY <1>1

\* Any member may be taken out.
LEMMA SumTakesOut ==
  ASSUME NEW S, IsFiniteSet(S), NEW f, \A x \in S : f[x] \in Nat, NEW a \in S
  PROVE  SumFunctionOnSet(f, S) = f[a] + SumFunctionOnSet(f, S \ {a})
<1> DEFINE sum(T) == SumFunctionOnSet(f, T)
           B == {T \in SUBSET S : \E x \in T : sum(T) # f[x] + sum(T \ {x})}
<1>1. ASSUME B # {} PROVE FALSE
  <2>1. PICK T \in B : \A U \in B : U \subseteq T => U = T
    <3>1. B \in SUBSET (SUBSET S)
      OBVIOUS
    <3> HIDE DEF B
    <3> QED BY <1>1, <3>1, LeastSubset
  <2>2. PICK x \in T : sum(T) # f[x] + sum(T \ {x})
    BY <2>1
  <2> DEFINE p == Pick(T)
  <2>3. p \in T /\ T \ {p} \in SUBSET S /\ T \ {p} # T /\ T # {}
    BY <2>2, PickIsIn, <2>1
  <2>4. IsFiniteSet(T)
    BY <2>1, FS_Subset
  <2>5. sum(T) = f[p] + sum(T \ {p})
    BY <2>3, <2>4, SumPicks
  <2> HIDE DEF p
  <2>6. p # x
    BY <2>2, <2>5
  <2>7. T \ {p} \notin B /\ x \in T \ {p}
    BY <2>1, <2>2, <2>3, <2>6
  <2>8. sum(T \ {p}) = f[x] + sum((T \ {p}) \ {x})
    BY <2>3, <2>7
  <2>9. T \ {x} \notin B /\ p \in T \ {x} /\ T \ {x} \in SUBSET S
    BY <2>1, <2>2, <2>3, <2>6
  <2>10. sum(T \ {x}) = f[p] + sum((T \ {x}) \ {p})
    BY <2>9
  <2>11. (T \ {x}) \ {p} = (T \ {p}) \ {x}
    OBVIOUS
  <2>12. f[p] \in Nat /\ f[x] \in Nat
    BY <2>2, <2>3, <2>1
  <2>13. sum((T \ {p}) \ {x}) \in Nat
    <3>1. IsFiniteSet((T \ {p}) \ {x})
      BY <2>4, FS_RemoveElement
    <3>2. \A y \in (T \ {p}) \ {x} : f[y] \in Nat
      BY <2>1
    <3> QED BY <3>1, <3>2, SumIsNumber
  <2> HIDE DEF sum
  <2> QED BY <2>2, <2>5, <2>8, <2>10, <2>11, <2>12, <2>13
<1> QED BY <1>1

LEMMA SumGrows ==
  ASSUME NEW S, IsFiniteSet(S), NEW f, \A x \in S : f[x] \in Nat, NEW R \in SUBSET S
  PROVE  SumFunctionOnSet(f, R) <= SumFunctionOnSet(f, S)
<1> DEFINE sum(T) == SumFunctionOnSet(f, T)
           B == {T \in SUBSET S : R \subseteq T /\ ~ (sum(R) <= sum(T))}
<1>1. ASSUME B # {} PROVE FALSE
  <2>1. PICK T \in B : \A U \in B : U \subseteq T => U = T
    <3>1. B \in SUBSET (SUBSET S)
      OBVIOUS
    <3> HIDE DEF B
    <3> QED BY <1>1, <3>1, LeastSubset
  <2>2. sum(R) \in Nat /\ sum(T) \in Nat /\ IsFiniteSet(T)
    BY <2>1, FS_Subset, SumIsNumber
  <2>3. T # R
    BY <2>1, <2>2
  <2>4. PICK a \in T : a \notin R
    BY <2>1, <2>3
  <2>5. T \ {a} \notin B /\ T \ {a} \in SUBSET S /\ R \subseteq T \ {a}
    BY <2>1, <2>4
  <2>6. sum(R) <= sum(T \ {a})
    BY <2>5
  <2>7. sum(T) = f[a] + sum(T \ {a})
    <3>1. \A x \in T : f[x] \in Nat
      BY <2>1
    <3> QED BY <2>2, <2>4, <3>1, SumTakesOut
  <2>8. f[a] \in Nat /\ sum(T \ {a}) \in Nat
    <3>1. IsFiniteSet(T \ {a})
      BY <2>2, FS_RemoveElement
    <3>2. \A x \in T \ {a} : f[x] \in Nat
      BY <2>1
    <3> QED BY <2>1, <2>4, <3>1, <3>2, SumIsNumber
  <2> HIDE DEF sum
  <2> QED BY <2>1, <2>2, <2>6, <2>7, <2>8
<1>2. sum(R) <= sum(S)
  BY <1>1
<1> QED BY <1>2

\* A sum is no more than another of which every number, but zero, has its own, no less.
LEMMA SumBelow ==
    ASSUME NEW W, IsFiniteSet(W), NEW T, IsFiniteSet(T), NEW f, NEW g,
           \A x \in W : f[x] \in Nat, \A x \in T : g[x] \in Nat,
           \A x \in W : f[x] = 0 \/ (x \in T /\ f[x] <= g[x])
    PROVE  SumFunctionOnSet(f, W) <= SumFunctionOnSet(g, T)
<1> DEFINE low(U) == SumFunctionOnSet(f, U)
           high(U) == SumFunctionOnSet(g, U)
           B == {U \in SUBSET W : ~(low(U) <= high(U \cap T))}
<1>1. ASSUME B # {} PROVE FALSE
  <2>1. PICK U \in B : \A V \in B : V \subseteq U => V = U
    <3>1. B \in SUBSET (SUBSET W)
      OBVIOUS
    <3> HIDE DEF B
    <3> QED BY <1>1, <3>1, LeastSubset
  <2>2. ~(low(U) <= high(U \cap T)) /\ U \in SUBSET W
    BY <2>1
  <2>3. ASSUME U = {} PROVE FALSE
    <3>1. U \cap T = {}
      BY <2>3
    <3>2. low(U) = 0 /\ high(U \cap T) = 0
      BY <2>3, <3>1, SumEmpty
    <3> HIDE DEF low, high
    <3> QED BY <2>2, <3>2
  <2>4. PICK a \in U : TRUE
    BY <2>3
  <2> DEFINE V == U \ {a}
  <2>5. V \in SUBSET W /\ V \notin B /\ IsFiniteSet(U) /\ IsFiniteSet(V) /\ IsFiniteSet(U \cap T) /\ IsFiniteSet(V \cap T)
    BY <2>1, <2>2, <2>4, FS_Subset
  <2>6. low(V) <= high(V \cap T)
    BY <2>5
  <2>7. low(U) = f[a] + low(V)
    BY <2>2, <2>4, <2>5, SumTakesOut
  <2>8. f[a] \in Nat /\ low(V) \in Nat /\ high(V \cap T) \in Nat
    BY <2>2, <2>4, <2>5, SumIsNumber
  <2>9. CASE a \in T
    <3>1. V \cap T = (U \cap T) \ {a} /\ a \in U \cap T
      BY <2>4, <2>9
    <3>2. high(U \cap T) = g[a] + high(V \cap T)
      BY <2>5, <3>1, SumTakesOut
    <3>3. f[a] <= g[a] /\ g[a] \in Nat
      BY <2>2, <2>4, <2>9
    <3> HIDE DEF low, high, V
    <3> QED BY <2>2, <2>6, <2>7, <2>8, <3>2, <3>3
  <2>10. CASE a \notin T
    <3>1. V \cap T = U \cap T
      BY <2>10
    <3>2. f[a] = 0
      BY <2>2, <2>4, <2>10
    <3> HIDE DEF low, high, V
    <3> QED BY <2>2, <2>6, <2>7, <2>8, <3>1, <3>2
  <2> QED BY <2>9, <2>10
<1>2. low(W) <= high(W \cap T)
  BY <1>1
<1>3. high(W \cap T) <= high(T)
  BY SumGrows
<1>4. low(W) \in Nat /\ high(W \cap T) \in Nat /\ high(T) \in Nat
  BY FS_Subset, SumIsNumber
<1> HIDE DEF low, high
<1>5. low(W) <= high(T)
  BY <1>2, <1>3, <1>4
<1> QED BY <1>5 DEF low, high

\* What agrees adds up to the same.
LEMMA SumAgrees ==
    ASSUME NEW S, IsFiniteSet(S), NEW f, NEW g, \A x \in S : f[x] \in Nat /\ f[x] = g[x]
    PROVE  SumFunctionOnSet(f, S) = SumFunctionOnSet(g, S)
<1>1. SumFunctionOnSet(f, S) <= SumFunctionOnSet(g, S) /\ SumFunctionOnSet(g, S) <= SumFunctionOnSet(f, S)
  BY SumBelow
<1>2. SumFunctionOnSet(f, S) \in Nat /\ SumFunctionOnSet(g, S) \in Nat
  BY SumIsNumber
<1> QED BY <1>1, <1>2

\* Numbers that are each at most twice another and one more.
LEMMA SumHalved ==
    ASSUME NEW S, IsFiniteSet(S), NEW f, NEW g,
           \A x \in S : f[x] \in Nat /\ g[x] \in Nat /\ f[x] <= 2 * g[x] + 1
    PROVE  SumFunctionOnSet(f, S) <= 2 * SumFunctionOnSet(g, S) + Cardinality(S)
<1> DEFINE full(U) == SumFunctionOnSet(f, U)
           half(U) == SumFunctionOnSet(g, U)
           B == {U \in SUBSET S : ~(full(U) <= 2 * half(U) + Cardinality(U))}
<1>1. ASSUME B # {} PROVE FALSE
  <2>1. PICK U \in B : \A V \in B : V \subseteq U => V = U
    <3>1. B \in SUBSET (SUBSET S)
      OBVIOUS
    <3> HIDE DEF B
    <3> QED BY <1>1, <3>1, LeastSubset
  <2>2. U # {}
    <3>1. ~(full(U) <= 2 * half(U) + Cardinality(U))
      BY <2>1
    <3>2. ASSUME U = {} PROVE full(U) = 0 /\ half(U) = 0 /\ Cardinality(U) = 0
      BY <3>2, SumEmpty, FS_EmptySet
    <3> HIDE DEF full, half
    <3> QED BY <3>1, <3>2
  <2>3. PICK a \in U : TRUE
    BY <2>2
  <2> DEFINE V == U \ {a}
  <2>4. V \in SUBSET S /\ V \notin B /\ IsFiniteSet(U) /\ IsFiniteSet(V)
    BY <2>1, <2>3, FS_Subset
  <2>5. full(V) <= 2 * half(V) + Cardinality(V)
    BY <2>4
  <2>6. full(U) = f[a] + full(V) /\ half(U) = g[a] + half(V)
    BY <2>1, <2>3, <2>4, SumTakesOut
  <2>7. f[a] \in Nat /\ g[a] \in Nat /\ full(V) \in Nat /\ half(V) \in Nat /\ f[a] <= 2 * g[a] + 1
    BY <2>1, <2>3, <2>4, SumIsNumber
  <2>8. Cardinality(V) \in Nat /\ Cardinality(U) = Cardinality(V) + 1
    BY <2>3, <2>4, FS_RemoveElement, FS_CardinalityType
  <2>9. ~(full(U) <= 2 * half(U) + Cardinality(U))
    BY <2>1
  <2> HIDE DEF full, half, V
  <2> QED BY <2>5, <2>6, <2>7, <2>8, <2>9
<1> QED BY <1>1

\* The sum of a function is that over its domain.
LEMMA SumOfFunction ==
    ASSUME NEW f
    PROVE  SumFunction(f) = SumFunctionOnSet(f, DOMAIN f)
BY DEF SumFunction, SumFunctionOnSet, FoldFunction

\* The larger, and the smaller, of two numbers.
LEMMA TwoNumbers ==
    ASSUME NEW a \in Int, NEW b \in Int
    PROVE  /\ Max({a, b}) = IF a > b THEN a ELSE b
           /\ Min({a, b}) = IF a > b THEN b ELSE a
<1>1. CASE a > b
  BY <1>1 DEF Max, Min
<1>2. CASE ~(a > b)
  BY <1>2 DEF Max, Min
<1> QED BY <1>1, <1>2

\* Sums may be added term by term.
LEMMA SumAdds ==
    ASSUME NEW S, IsFiniteSet(S), NEW f, NEW g, NEW both,
           \A x \in S : f[x] \in Nat /\ g[x] \in Nat /\ both[x] = f[x] + g[x]
    PROVE  SumFunctionOnSet(both, S) = SumFunctionOnSet(f, S) + SumFunctionOnSet(g, S)
<1> DEFINE sum(U) == SumFunctionOnSet(both, U)
           one(U) == SumFunctionOnSet(f, U)
           other(U) == SumFunctionOnSet(g, U)
           B == {U \in SUBSET S : sum(U) # one(U) + other(U)}
<1>1. ASSUME B # {} PROVE FALSE
  <2>1. PICK U \in B : \A V \in B : V \subseteq U => V = U
    <3>1. B \in SUBSET (SUBSET S)
      OBVIOUS
    <3> HIDE DEF B
    <3> QED BY <1>1, <3>1, LeastSubset
  <2>2. sum(U) # one(U) + other(U)
    BY <2>1
  <2>3. U # {}
    <3>1. ASSUME U = {} PROVE sum(U) = 0 /\ one(U) = 0 /\ other(U) = 0
      BY <3>1, SumEmpty
    <3> HIDE DEF sum, one, other
    <3> QED BY <2>2, <3>1
  <2>4. PICK a \in U : TRUE
    BY <2>3
  <2> DEFINE V == U \ {a}
  <2>5. V \in SUBSET S /\ V \notin B /\ IsFiniteSet(U) /\ IsFiniteSet(V)
    BY <2>1, <2>4, FS_Subset
  <2>6. sum(V) = one(V) + other(V)
    BY <2>5
  <2>7. \A x \in U : f[x] \in Nat /\ g[x] \in Nat /\ both[x] \in Nat /\ both[x] = f[x] + g[x]
    BY <2>1
  <2>8. sum(U) = both[a] + sum(V) /\ one(U) = f[a] + one(V) /\ other(U) = g[a] + other(V)
    BY <2>4, <2>5, <2>7, SumTakesOut
  <2>9. one(V) \in Nat /\ other(V) \in Nat
    BY <2>5, <2>7, SumIsNumber
  <2>10. f[a] \in Nat /\ g[a] \in Nat /\ both[a] = f[a] + g[a]
    BY <2>4, <2>7
  <2> HIDE DEF sum, one, other, V
  <2> QED BY <2>2, <2>6, <2>8, <2>9, <2>10
<1> QED BY <1>1

\* There are as many numbers as the last of them.
LEMMA OneToMany ==
    ASSUME NEW k \in Nat
    PROVE  IsFiniteSet(1 .. k) /\ Cardinality(1 .. k) = k
<1>1. IsFiniteSet(1 .. k) /\ Cardinality(1 .. k) = IF 1 > k THEN 0 ELSE k - 1 + 1
    BY FS_Interval
<1>2. QED
    BY <1>1

-----------------------------------------------------------------------------
(* What is free of a node.                                                 *)

\* What a node has free is spare on its host, but for what the backend loses of what
\* is held.
Truly(n, h, lost) ==
    /\ SpareCores(h) + lost \in Nat /\ SpareCards(h) \in Nat /\ lost \in Nat
    /\ EffectiveFreeCpus(n) \in Nat /\ EffectiveFreeCpus(n) <= SpareCores(h) + lost
    /\ EffectiveFreeGpus(n) \in Nat /\ EffectiveFreeGpus(n) <= SpareCards(h)
    /\ Idle(n) /\ RoomOn(n) => Untouched(h) \/ lost > 0

LEMMA FreeIsSpare ==
    ASSUME NEW n, n.cpus \in Int, n.cpusHeld \in Int, n.gpus \in Int, n.gpusHeld \in Int,
           NEW h, NEW lost \in Nat, SpareCores(h) + lost \in Nat, SpareCards(h) \in Nat,
           n.cpus - n.cpusHeld <= SpareCores(h) + lost, n.gpus - n.gpusHeld <= SpareCards(h),
           \/ ~(n.cpusHeld = 0 /\ n.gpusHeld = 0) \/ Untouched(h) \/ lost > 0
           \/ n.cpus <= n.cpusHeld /\ n.gpus <= n.gpusHeld
    PROVE  Truly(n, h, lost)
<1> DEFINE room == SpareCores(h) + lost
           cards == SpareCards(h)
<1>1. CpusFree(n) \in Nat /\ (CpusFree(n) = n.cpus - n.cpusHeld \/ CpusFree(n) = 0)
    BY DEF CpusFree, AtLeastZero
<1>2. GpusFree(n) \in Nat /\ (GpusFree(n) = n.gpus - n.gpusHeld \/ GpusFree(n) = 0)
    BY DEF GpusFree, AtLeastZero
<1>3. EffectiveFreeCpus(n) \in {0, CpusFree(n)} /\ EffectiveFreeGpus(n) \in {0, GpusFree(n)}
    BY DEF EffectiveFreeCpus, EffectiveFreeGpus
<1>4. EffectiveFreeCpus(n) \in Nat /\ EffectiveFreeCpus(n) <= room
    <2> HIDE DEF room
    <2>1. room \in Nat /\ n.cpus - n.cpusHeld <= room
        BY DEF room
    <2>2. QED
        BY <1>1, <1>3, <2>1
<1>5. EffectiveFreeGpus(n) \in Nat /\ EffectiveFreeGpus(n) <= cards
    <2> HIDE DEF cards
    <2>1. cards \in Nat /\ n.gpus - n.gpusHeld <= cards
        BY DEF cards
    <2>2. QED
        BY <1>2, <1>3, <2>1
<1>6. ASSUME Idle(n), RoomOn(n) PROVE Untouched(h) \/ lost > 0
    <2>1. n.cpusHeld = 0 /\ n.gpusHeld = 0
        BY <1>6 DEF Idle
    <2>2. EffectiveFreeCpus(n) > 0 \/ EffectiveFreeGpus(n) > 0
        BY <1>4, <1>5, <1>6 DEF RoomOn
    <2>3. ~(n.cpus <= n.cpusHeld /\ n.gpus <= n.gpusHeld)
        BY <1>1, <1>2, <1>3, <2>2
    <2>4. QED
        BY <2>1, <2>3
<1>7. QED
    BY <1>4, <1>5, <1>6 DEF Truly

LEMMA SlurmFree ==
    ASSUME NEW t, Slurm!Possible(t), NEW name \in DOMAIN t.hosts, NEW known, NEW config,
           Schedulable(Slurm!Node(t.hosts[name], known, config))
    PROVE  Truly(Slurm!Node(t.hosts[name], known, config), t.hosts[name], 0)
<1> DEFINE h == t.hosts[name]
           n == Slurm!Node(h, known, config)
<1>1. h.cores \in Nat /\ h.cards \in Nat /\ h.holds.cpus \in 0 .. h.cores /\ h.holds.cards \in 0 .. h.cards
    BY DEF Slurm!Possible, Slurm!ClusterOK
<1>2. ~h.whole
    BY DEF Slurm!Possible, Slurm!Shared
<1>3. /\ n.cpus = h.cores /\ n.cpusHeld = h.holds.cpus
      /\ n.gpus = h.cards /\ n.gpusHeld = h.holds.cards
    <2>1. Slurm!Words(h) # {}
        <3>1. ASSUME Slurm!Words(h) = {} PROVE FALSE
            <4>1. n.conditions = {"UNKNOWN"}
                BY <3>1 DEF Slurm!Node, Slurm!Blank
            <4>2. QED
                BY <4>1 DEF Schedulable, BlockingConditions
        <3>2. QED
            BY <3>1
    <2>2. QED
        BY <2>1 DEF Slurm!Node
<1> HIDE DEF h, n
<1>4. SpareCores(h) = h.cores - h.holds.cpus /\ SpareCards(h) = h.cards - h.holds.cards
    BY <1>2 DEF SpareCores, SpareCards
<1>5. h.holds.cpus = 0 /\ h.holds.cards = 0 => Untouched(h)
    BY <1>2 DEF Untouched
<1>6. Truly(n, h, 0)
    BY <1>1, <1>3, <1>4, <1>5, FreeIsSpare
<1>7. QED
    BY <1>6 DEF h, n

\* Where no memory is behind what is free, none of it counts.
LEMMA SlurmUnbacked ==
    ASSUME NEW h, NEW config, config.consumable, config.floor \in Nat, h.mem \in Nat, h.holds.mem \in Nat,
           h.mem > 0, ~(h.mem - h.holds.mem >= Max({1, config.floor})),
           Schedulable(Slurm!Node(h, TRUE, config))
    PROVE  MemoryExhausted(Slurm!Node(h, TRUE, config))
<1> DEFINE n == Slurm!Node(h, TRUE, config)
<1>1. Slurm!Words(h) # {}
    <2>1. ASSUME Slurm!Words(h) = {} PROVE FALSE
        <3>1. n.conditions = {"UNKNOWN"}
            BY <2>1 DEF Slurm!Node, Slurm!Blank
        <3>2. QED
            BY <3>1 DEF Schedulable, BlockingConditions
    <2>2. QED
        BY <2>1
<1>2. n.consumable /\ n.mem = h.mem /\ n.memHeld = h.holds.mem /\ n.floor = config.floor
    BY <1>1 DEF Slurm!Node, Slurm!Consumable, Slurm!Floor
<1>3. Max({1, config.floor}) = IF 1 > config.floor THEN 1 ELSE config.floor
    BY TwoNumbers
<1> HIDE DEF n
<1>4. MemFree(n) = IF h.mem - h.holds.mem < 0 THEN 0 ELSE h.mem - h.holds.mem
    BY <1>2 DEF MemFree, AtLeastZero
<1>5. MemoryExhausted(n)
    BY <1>2, <1>3, <1>4 DEF MemoryExhausted
<1>6. QED
    BY <1>5 DEF n

LEMMA PbsFree ==
    ASSUME NEW t, Pbs!Possible(t), NEW name \in DOMAIN t.hosts, Schedulable(Pbs!Node(t, name))
    PROVE  Truly(Pbs!Node(t, name), t.hosts[name], 0)
<1> DEFINE h == t.hosts[name]
           n == Pbs!Node(t, name)
<1>1. /\ h.cores \in Nat /\ h.cards \in Nat /\ h.holds.cpus \in 0 .. h.cores /\ h.holds.cards \in 0 .. h.cards
      /\ h.whole \in BOOLEAN
    BY DEF Pbs!Possible, Pbs!ClusterOK
<1>2. h.service = "up"
    <2>1. InService(h)
        BY PbsTells
    <2>2. h.service \in {"up", "drained", "down", "lost", "stale", "maintenance", "reserved", "powered down"}
        BY DEF Pbs!Possible
    <2>3. QED
        BY <2>1, <2>2 DEF InService
<1>3. /\ n.cpus = h.cores /\ n.cpusHeld = IF Pbs!Whole(h) THEN h.cores ELSE Pbs!Assigned(h).cpus
      /\ n.gpus = h.cards /\ n.gpusHeld = IF Pbs!Whole(h) THEN h.cards ELSE Pbs!Assigned(h).cards
    BY DEF Pbs!Node
<1> HIDE DEF h, n
<1>4. CASE h.whole
    <2>1. Pbs!Whole(h)
        BY <1>4 DEF Pbs!Whole, Pbs!States
    <2>2. SpareCores(h) = 0 /\ SpareCards(h) = 0
        BY <1>4 DEF SpareCores, SpareCards
    <2>3. QED
        BY <1>1, <1>3, <2>1, <2>2, FreeIsSpare DEF h, n
<1>5. CASE ~h.whole
    <2>1. Pbs!States(h) \subseteq {"free"}
        BY <1>2, <1>5 DEF Pbs!States
    <2>2. ~Pbs!Whole(h) /\ Pbs!Assigned(h) = h.holds
        BY <1>5, <2>1 DEF Pbs!Whole, Pbs!Assigned
    <2>3. SpareCores(h) = h.cores - h.holds.cpus /\ SpareCards(h) = h.cards - h.holds.cards
        BY <1>5 DEF SpareCores, SpareCards
    <2>4. h.holds.cpus = 0 /\ h.holds.cards = 0 => Untouched(h)
        BY <1>5 DEF Untouched
    <2>5. QED
        BY <1>1, <1>3, <2>2, <2>3, <2>4, FreeIsSpare DEF h, n
<1>6. QED
    BY <1>1, <1>4, <1>5

LEMMA LsfFree ==
    ASSUME NEW t, Lsf!Possible(t), NEW name \in DOMAIN t.hosts
    PROVE  Truly(Lsf!Node(t, t.hosts[name]), t.hosts[name], 0)
<1> DEFINE h == t.hosts[name]
           n == Lsf!Node(t, h)
<1>1. h.cores \in Nat /\ h.cards \in Nat /\ h.holds.cpus \in 0 .. h.cores /\ h.holds.cards \in 0 .. h.cards
    BY DEF Lsf!Possible, Lsf!ClusterOK
<1>2. ~h.whole /\ (h.holds.cards > 0 => h.holds.cpus > 0)
    BY DEF Lsf!Possible, Lsf!Shared, Lsf!CardsNeedCores
<1>3. /\ h.slots \in 0 .. h.cores /\ h.suspended \in 0 .. h.holds.cpus
      /\ h.dashed \in BOOLEAN /\ (h.dashed => h.suspended = 0)
    BY DEF Lsf!Possible
<1>4. /\ n.cpus \in {h.slots, h.cores} /\ n.cpusHeld = Lsf!Dispatched(h)
      /\ n.gpus = (IF "bhosts -gpu" \in t.lost THEN 0 ELSE h.cards)
      /\ n.gpusHeld = IF "bhosts -gpu" \in t.lost THEN 0 ELSE h.holds.cards
    BY DEF Lsf!Node
<1> HIDE DEF h, n
<1>5. Lsf!Dispatched(h) = h.holds.cpus
    <2> DEFINE a == Lsf!Njobs(h)
               b == Lsf!Running(h)
               held == h.holds.cpus
    <2>1. a = (IF h.dashed THEN 0 ELSE held) /\ b = held - h.suspended
        BY DEF Lsf!Njobs, Lsf!Running
    <2>2. Lsf!Dispatched(h) = Max({a, b})
        BY DEF Lsf!Dispatched, Lsf!Max, Max
    <2>3. held \in Nat /\ h.suspended \in 0 .. held
        BY <1>1, <1>3
    <2> HIDE DEF a, b, held
    <2>4. a \in Int /\ b \in Int /\ b <= held /\ b >= 0
        BY <2>1, <2>3
    <2>5. a = held \/ (a = 0 /\ b = held)
        BY <1>3, <2>1, <2>3
    <2>6. Max({a, b}) = held
        BY <2>3, <2>4, <2>5, TwoNumbers
    <2>7. QED
        BY <2>2, <2>6 DEF held
<1>6. SpareCores(h) = h.cores - h.holds.cpus /\ SpareCards(h) = h.cards - h.holds.cards
    BY <1>2 DEF SpareCores, SpareCards
<1>7. h.holds.cpus = 0 => Untouched(h)
    BY <1>1, <1>2 DEF Untouched
<1>8. Truly(n, h, 0)
    <2> DEFINE cores == h.cores
               held == h.holds.cpus
               cards == h.cards
               taken == h.holds.cards
    <2>1. cores \in Nat /\ held \in 0 .. cores /\ cards \in Nat /\ taken \in 0 .. cards
        BY <1>1
    <2>2. n.cpus \in 0 .. cores /\ n.cpusHeld = held
        <3>1. h.slots \in 0 .. cores /\ cores \in 0 .. cores
            BY <2>1, <1>3
        <3>2. n.cpus = h.slots \/ n.cpus = cores
            BY <1>4
        <3>3. n.cpusHeld = held
            BY <1>4, <1>5
        <3>4. QED
            BY <3>1, <3>2, <3>3
    <2>3. (n.gpus = 0 /\ n.gpusHeld = 0) \/ (n.gpus = cards /\ n.gpusHeld = taken)
        BY <1>4
    <2>4. SpareCores(h) = cores - held /\ SpareCards(h) = cards - taken /\ (held = 0 => Untouched(h))
        BY <1>6, <1>7
    <2> HIDE DEF cores, held, cards, taken
    <2>5. n.cpus \in Int /\ n.cpusHeld \in Int /\ n.cpus - n.cpusHeld <= SpareCores(h)
        BY <2>1, <2>2, <2>4
    <2>6. n.gpus \in Int /\ n.gpusHeld \in Int /\ n.gpus - n.gpusHeld <= SpareCards(h)
        BY <2>1, <2>3, <2>4
    <2>7. SpareCores(h) \in Nat /\ SpareCards(h) \in Nat
        BY <2>1, <2>4
    <2>8. SpareCores(h) + 0 = SpareCores(h)
        BY <2>7
    <2>9. ~(n.cpusHeld = 0 /\ n.gpusHeld = 0) \/ Untouched(h)
        BY <2>2, <2>4
    <2>10. QED
        BY <2>5, <2>6, <2>7, <2>8, <2>9, FreeIsSpare
<1>9. QED
    BY <1>8 DEF h, n

LEMMA SshPoolFree ==
    ASSUME NEW t, SshPool!Possible(t), NEW name \in DOMAIN t.hosts, Schedulable(SshPool!Node(t.hosts[name]))
    PROVE  Truly(SshPool!Node(t.hosts[name]), t.hosts[name], 0)
<1> DEFINE h == t.hosts[name]
           n == SshPool!Node(h)
           busy == SshPool!BusyCards(h)
           load == SshPool!Ceiling(h.load)
<1>1. /\ h.service \in {"up", "down"} /\ ~h.whole
      /\ h.cores \in Nat /\ h.load \in Nat
      /\ h.holds.cpus \in 0 .. h.cores /\ h.holds.cpus <= load
      /\ h.cards = Len(h.each) /\ h.holds.cards \in 0 .. busy
    BY DEF SshPool!Possible
<1>2. DOMAIN h.each = 1 .. Len(h.each) /\ Len(h.each) \in Nat
    BY DEF SshPool!Possible
<1>3. h.service = "up"
    <2>1. ASSUME h.service # "up" PROVE FALSE
        <3>1. n.conditions = {"DOWN"}
            BY <2>1 DEF SshPool!Node, SshPool!Blank
        <3>2. QED
            BY <3>1 DEF Schedulable, BlockingConditions
    <2>2. QED
        BY <2>1
<1>4. n.cpus = h.cores /\ n.cpusHeld = Min({h.cores, load}) /\ n.gpus = h.cards /\ n.gpusHeld = busy
    BY <1>1, <1>3 DEF SshPool!Node, SshPool!Min, Min
<1>5. load \in Nat
    BY <1>1 DEF SshPool!Ceiling
<1>6. busy \in 0 .. h.cards
    <2> DEFINE cards == {i \in DOMAIN h.each : h.each[i] # "free"}
    <2>1. IsFiniteSet(1 .. Len(h.each)) /\ Cardinality(1 .. Len(h.each)) = Len(h.each)
        BY <1>2, FS_Interval
    <2>2. cards \subseteq 1 .. Len(h.each)
        BY <1>2
    <2>3. busy = Cardinality(cards)
        BY DEF SshPool!BusyCards, SshPool!Cardinality, Cardinality
    <2> HIDE DEF cards, busy
    <2>4. IsFiniteSet(cards) /\ Cardinality(cards) <= Len(h.each)
        BY <2>1, <2>2, FS_Subset
    <2>5. Cardinality(cards) \in Nat
        BY <2>4, FS_CardinalityType
    <2>6. QED
        BY <1>1, <1>2, <2>3, <2>4, <2>5
<1> DEFINE cores == h.cores
           held == h.holds.cpus
           taken == h.holds.cards
           cards == h.cards
<1>7. cores \in Nat /\ held \in 0 .. cores /\ held <= load /\ taken \in 0 .. busy
    BY <1>1
<1>8. SpareCores(h) = cores - held /\ SpareCards(h) = cards - taken
    BY <1>1 DEF SpareCores, SpareCards
<1>9. held = 0 /\ taken = 0 => Untouched(h)
    BY <1>1 DEF Untouched
<1>10. n.cpus = cores /\ n.cpusHeld = Min({cores, load}) /\ n.gpus = cards /\ n.gpusHeld = busy /\ cards \in Nat
    BY <1>1, <1>2, <1>4
<1> HIDE DEF h, n, busy, load, cores, held, taken, cards
<1>11. n.cpusHeld \in Nat /\ n.cpusHeld <= cores /\ n.cpusHeld >= held
    <2>1. Min({cores, load}) = IF cores > load THEN load ELSE cores
        BY <1>5, <1>7, TwoNumbers
    <2>2. held \in Nat /\ held <= cores
        BY <1>7
    <2>3. QED
        BY <1>5, <1>7, <1>10, <2>1, <2>2
<1>12. busy \in 0 .. cards
    BY <1>6 DEF cards
<1>13. Truly(n, h, 0)
    <2>1. n.cpus \in Int /\ n.cpusHeld \in Int /\ n.gpus \in Int /\ n.gpusHeld \in Int
        BY <1>7, <1>10, <1>11, <1>12
    <2>2. SpareCores(h) \in Nat /\ SpareCards(h) \in Nat /\ SpareCores(h) + 0 = SpareCores(h)
        <3>1. taken \in 0 .. cards
            BY <1>7, <1>10, <1>12
        <3>2. SpareCores(h) \in Nat
            BY <1>7, <1>8
        <3>3. cards \in Nat /\ SpareCards(h) = cards - taken
            BY <1>8, <1>10
        <3>4. QED
            BY <3>1, <3>2, <3>3
    <2>3. n.cpus - n.cpusHeld <= SpareCores(h) /\ n.gpus - n.gpusHeld <= SpareCards(h)
        BY <1>7, <1>8, <1>10, <1>11, <1>12
    <2>4. n.cpusHeld = 0 /\ n.gpusHeld = 0 => held = 0 /\ taken = 0
        BY <1>7, <1>10, <1>11, <1>12
    <2>5. QED
        BY <1>9, <2>1, <2>2, <2>3, <2>4, FreeIsSpare
<1>14. QED
    BY <1>13 DEF h, n

LEMMA SgeFree ==
    ASSUME NEW t, Sge!Possible(t), NEW name \in DOMAIN t.hosts
    PROVE  LET h == t.hosts[name]
               lost == SumFunction([i \in 1 .. Len(h.instances) - 1 |-> h.instances[i].used])
           IN  Truly(Sge!Node(t, h), h, lost)
<1> DEFINE h == t.hosts[name]
           n == Sge!Node(t, h)
           m == Len(h.instances)
           slots == [i \in DOMAIN h.instances |-> h.instances[i].used]
           but == [i \in 1 .. m - 1 |-> h.instances[i].used]
           lost == SumFunction(but)
           last == h.instances[m].used
           cores == h.cores
           held == h.holds.cpus
           cards == h.cards
           taken == h.holds.cards
<1>1. cores \in Nat /\ cards \in Nat /\ held \in 0 .. cores /\ taken \in 0 .. cards
    BY DEF Sge!Possible, Sge!ClusterOK
<1>2. ~h.whole /\ (taken > 0 => held > 0)
    BY DEF Sge!Possible, Sge!Shared, Sge!CardsNeedCores
<1>3. DOMAIN h.instances = 1 .. m /\ m \in Nat \ {0}
    BY DEF Sge!Possible
<1>4. \A i \in 1 .. m : h.instances[i].used \in Nat
    BY <1>3 DEF Sge!Possible
<1>5. held = SumFunction(slots)
    BY DEF Sge!Possible, Sge!SumFunction, SumFunction, Sge!SumFunctionOnSet, SumFunctionOnSet,
           Sge!FoldFunctionOnSet, FoldFunctionOnSet, Sge!MapThenFoldSet, MapThenFoldSet,
           Sge!FoldFunction, FoldFunction
<1>6. n.cpus = cores /\ n.cpusHeld = last
    <2>1. h.instances # <<>>
        BY <1>3
    <2>2. QED
        BY <2>1 DEF Sge!Node, Sge!SlotsUsed
<1>7. (n.gpus = cards \/ n.gpus = cards - taken) /\ n.gpusHeld = Sge!AtLeastZero(n.gpus - (cards - taken))
    BY DEF Sge!Node, Sge!Available
<1>8. held = last + lost /\ last \in Nat /\ lost \in Nat
    <2>1. m \in 1 .. m /\ 1 .. m - 1 = (1 .. m) \ {m} /\ IsFiniteSet(1 .. m) /\ IsFiniteSet(1 .. m - 1)
        <3>1. m \in Nat \ {0}
            BY <1>3
        <3> HIDE DEF m
        <3>2. m \in 1 .. m /\ 1 .. m - 1 = (1 .. m) \ {m}
            BY <3>1
        <3>3. IsFiniteSet(1 .. m)
            BY <3>1, FS_Interval
        <3>4. QED
            BY <3>2, <3>3, FS_Subset
    <2>2. DOMAIN slots = 1 .. m /\ DOMAIN but = 1 .. m - 1
        BY <1>3
    <2>3. \A i \in 1 .. m : slots[i] \in Nat /\ slots[i] = h.instances[i].used
        BY <1>3, <1>4
    <2>4. \A i \in 1 .. m - 1 : but[i] = h.instances[i].used
        OBVIOUS
    <2>5. slots[m] = last
        BY <2>1, <2>3
    <2>6. \A i \in 1 .. m - 1 : but[i] \in Nat /\ but[i] = slots[i]
        BY <2>1, <2>3, <2>4
    <2> HIDE DEF slots, but, last
    <2>7. SumFunctionOnSet(slots, 1 .. m) = last + SumFunctionOnSet(slots, 1 .. m - 1)
        <3>1. \A i \in 1 .. m : slots[i] \in Nat
            BY <2>3
        <3> HIDE DEF m
        <3>2. SumFunctionOnSet(slots, 1 .. m) = slots[m] + SumFunctionOnSet(slots, (1 .. m) \ {m})
            BY <2>1, <3>1, SumTakesOut
        <3>3. QED
            BY <2>1, <2>5, <3>2
    <2>8. SumFunctionOnSet(but, 1 .. m - 1) = SumFunctionOnSet(slots, 1 .. m - 1)
        BY <2>1, <2>6, SumAgrees
    <2>9. SumFunctionOnSet(but, 1 .. m - 1) \in Nat
        BY <2>1, <2>6, SumIsNumber
    <2>10. last \in Nat
        BY <2>1, <2>3, <2>5
    <2>11. QED
        BY <1>5, <2>2, <2>7, <2>8, <2>9, <2>10, SumOfFunction
<1>9. SpareCores(h) = cores - held /\ SpareCards(h) = cards - taken
    BY <1>2 DEF SpareCores, SpareCards
<1>10. held = 0 /\ taken = 0 => Untouched(h)
    BY <1>2 DEF Untouched
<1> HIDE DEF h, n, m, lost, last, cores, held, cards, taken
<1>11. n.gpus \in Nat /\ n.gpusHeld \in Nat /\ n.gpus - n.gpusHeld <= cards - taken
    BY <1>1, <1>7 DEF Sge!AtLeastZero
<1>12. Truly(n, h, lost)
    <2>1. SpareCores(h) + lost \in Nat /\ SpareCards(h) \in Nat
        BY <1>1, <1>8, <1>9
    <2>2. n.cpus \in Int /\ n.cpusHeld \in Int /\ n.cpus - n.cpusHeld <= SpareCores(h) + lost
        BY <1>1, <1>6, <1>8, <1>9
    <2>3. ~(n.cpusHeld = 0) \/ Untouched(h) \/ lost > 0
        <3>1. CASE held = 0
            BY <1>1, <1>2, <1>10, <3>1
        <3>2. CASE held # 0
            BY <1>1, <1>6, <1>8, <3>2
        <3>3. QED
            BY <3>1, <3>2
    <2>4. QED
        BY <1>8, <1>9, <1>11, <2>1, <2>2, <2>3, FreeIsSpare
<1>13. QED
    BY <1>12 DEF h, n, lost, m, but

-----------------------------------------------------------------------------
(* What Kubernetes holds for a pod.                                        *)

\* Whole cores are no less than half of the half cores, but for one.
LEMMA Tripled ==
    ASSUME NEW wants, Kubernetes!AsksOK(wants), NEW r \in {"cpus", "cards"}
    PROVE  /\ wants[r] \in Nat /\ Kubernetes!Triple(wants)[r] \in Nat
           /\ wants[r] <= 2 * Kubernetes!Triple(wants)[r] + 1
           /\ r = "cards" => Kubernetes!Triple(wants)[r] = wants[r]
<1>1. wants \in [cpus : Nat, mem : Nat, cards : Nat]
    BY DEF Kubernetes!AsksOK
<1>2. CASE r = "cpus"
    <2>1. Kubernetes!Triple(wants)[r] = wants.cpus \div 2
        BY <1>1, <1>2 DEF Kubernetes!Triple, Kubernetes!WholeCores
    <2> DEFINE a == wants.cpus
    <2>2. a \in Nat
        BY <1>1
    <2> HIDE DEF a
    <2>3. a \div 2 \in Nat /\ a <= 2 * (a \div 2) + 1
        BY <2>2
    <2>4. QED
        BY <1>2, <2>1, <2>2, <2>3 DEF a
<1>3. CASE r = "cards"
    <2>1. Kubernetes!Triple(wants)[r] = wants[r] /\ wants[r] \in Nat
        BY <1>1, <1>3 DEF Kubernetes!Triple
    <2> HIDE DEF Kubernetes!Triple
    <2>2. QED
        BY <2>1
<1>4. QED
    BY <1>2, <1>3

LEMMA KubernetesSums ==
    ASSUME NEW f
    PROVE  Kubernetes!SumFunction(f) = SumFunctionOnSet(f, DOMAIN f)
BY DEF Kubernetes!SumFunction, Kubernetes!SumFunctionOnSet, SumFunctionOnSet,
       Kubernetes!FoldFunctionOnSet, FoldFunctionOnSet, Kubernetes!MapThenFoldSet, MapThenFoldSet,
       Kubernetes!FoldFunction, FoldFunction

\* The most of some containers is no less than any of them.
LEMMA HighestIsMost ==
    ASSUME NEW k \in Nat, NEW asked, DOMAIN asked = 1 .. k, \A i \in 1 .. k : asked[i] \in Nat
    PROVE  Kubernetes!Highest(asked) \in Nat /\ \A i \in 1 .. k : asked[i] <= Kubernetes!Highest(asked)
<1> DEFINE f == [i \in 0 .. k |-> IF i = 0 THEN 0 ELSE asked[i]]
           V == {f[i] : i \in 0 .. k}
           W == {0} \cup Kubernetes!Range(asked)
<1>1. V = W
    <2>1. Kubernetes!Range(asked) = {asked[i] : i \in 1 .. k}
        BY DEF Kubernetes!Range
    <2>2. \A i \in 1 .. k : i \in 0 .. k /\ f[i] = asked[i]
        OBVIOUS
    <2>3. 0 \in 0 .. k /\ f[0] = 0
        OBVIOUS
    <2>4. \A i \in 0 .. k : i = 0 \/ i \in 1 .. k
        OBVIOUS
    <2> HIDE DEF f
    <2>5. V \subseteq W
        BY <2>1, <2>2, <2>3, <2>4
    <2>6. W \subseteq V
        BY <2>1, <2>2, <2>3
    <2>7. QED
        BY <2>5, <2>6
<1>2. f \in [0 .. k -> Nat] /\ 0 .. k # {} /\ IsFiniteSet(0 .. k)
    <2>1. f \in [0 .. k -> Nat]
        OBVIOUS
    <2>2. 0 \in 0 .. k
        OBVIOUS
    <2>3. IsFiniteSet(0 .. k)
        BY FS_Interval
    <2>4. QED
        BY <2>1, <2>2, <2>3
<1>3. Kubernetes!Highest(asked) = Max(V)
    BY <1>1 DEF Kubernetes!Highest, Kubernetes!Max, Max
<1>4. /\ \A i \in 1 .. k : i \in 0 .. k /\ f[i] = asked[i]
      /\ \A i \in 0 .. k : f[i] \in Nat
    OBVIOUS
<1> HIDE DEF f
<1>5. Max(V) \in V /\ \A i \in 0 .. k : f[i] <= Max(V)
    BY <1>2, GreatestNumber
<1>6. Max(V) \in Nat
    <2>1. \A v \in V : v \in Nat
        BY <1>4
    <2>2. QED
        BY <1>5, <2>1
<1> HIDE DEF V
<1>7. QED
    BY <1>3, <1>4, <1>5, <1>6

\* What is held for a pod is what is reserved for it, but for less than a core for
\* each of its containers.
LEMMA PodIsCounted ==
    ASSUME NEW pod, Kubernetes!PodOK(pod), NEW r \in {"cpus", "cards"}
    PROVE  LET size == Len(pod.containers) + Len(pod.inits)
               counted == Kubernetes!PodRequest(pod, r)
               reserved == Kubernetes!Reserved(pod, r)
           IN  /\ size \in Nat \ {0} /\ counted \in Nat /\ reserved \in Nat
               /\ reserved <= 2 * counted + size + 1
               /\ r = "cards" => reserved <= counted
<1> DEFINE nc == Len(pod.containers)
           ni == Len(pod.inits)
           ask == [i \in 1 .. nc |-> pod.containers[i][r]]
           count == [i \in 1 .. nc |-> Kubernetes!Triple(pod.containers[i])[r]]
           sideAsk == [i \in 1 .. ni |-> IF pod.inits[i].sidecar THEN pod.inits[i].asks[r] ELSE 0]
           sideCount == [i \in 1 .. ni |->
               IF pod.inits[i].sidecar THEN Kubernetes!Triple(pod.inits[i].asks)[r] ELSE 0]
           firstCount == [i \in 1 .. ni |->
               IF pod.inits[i].sidecar THEN 0 ELSE Kubernetes!Triple(pod.inits[i].asks)[r]]
           over == pod.overhead[r]
           overCount == Kubernetes!Triple(pod.overhead)[r]
           A == SumFunctionOnSet(ask, 1 .. nc)
           C == SumFunctionOnSet(count, 1 .. nc)
           SA == SumFunctionOnSet(sideAsk, 1 .. ni)
           SC == SumFunctionOnSet(sideCount, 1 .. ni)
           P == Kubernetes!Highest(firstCount)
           counted == Kubernetes!PodRequest(pod, r)
           reserved == Kubernetes!Reserved(pod, r)
<1>1. /\ nc \in Nat /\ nc >= 1 /\ ni \in Nat
      /\ DOMAIN pod.containers = 1 .. nc /\ DOMAIN pod.inits = 1 .. ni
    BY DEF Kubernetes!PodOK
<1>2. \A i \in 1 .. nc : Kubernetes!AsksOK(pod.containers[i])
    BY <1>1 DEF Kubernetes!PodOK
<1>3. \A i \in 1 .. ni : Kubernetes!AsksOK(pod.inits[i].asks) /\ pod.inits[i].sidecar \in BOOLEAN
    BY <1>1 DEF Kubernetes!PodOK
<1>4. /\ over \in Nat /\ overCount \in Nat /\ over <= 2 * overCount + 1
      /\ r = "cards" => over = overCount
    BY Tripled DEF Kubernetes!PodOK
<1>5. \A i \in 1 .. nc :
         /\ ask[i] \in Nat /\ count[i] \in Nat /\ ask[i] <= 2 * count[i] + 1
         /\ r = "cards" => count[i] = ask[i]
    BY <1>2, Tripled
<1>6. ASSUME NEW i \in 1 .. ni
      PROVE  /\ sideAsk[i] \in Nat /\ sideCount[i] \in Nat /\ firstCount[i] \in Nat
             /\ sideAsk[i] <= 2 * sideCount[i] + 1
             /\ ~pod.inits[i].sidecar =>
                   pod.inits[i].asks[r] \in Nat /\ pod.inits[i].asks[r] <= 2 * firstCount[i] + 1
             /\ r = "cards" => sideCount[i] = sideAsk[i]
             /\ r = "cards" /\ ~pod.inits[i].sidecar => pod.inits[i].asks[r] = firstCount[i]
    <2> DEFINE wants == pod.inits[i].asks
    <2>1. /\ wants[r] \in Nat /\ Kubernetes!Triple(wants)[r] \in Nat
          /\ wants[r] <= 2 * Kubernetes!Triple(wants)[r] + 1
          /\ r = "cards" => Kubernetes!Triple(wants)[r] = wants[r]
        BY <1>3, Tripled
    <2>2. CASE pod.inits[i].sidecar
        <3>1. sideAsk[i] = wants[r] /\ sideCount[i] = Kubernetes!Triple(wants)[r] /\ firstCount[i] = 0
            BY <2>2
        <3> HIDE DEF sideAsk, sideCount, firstCount
        <3>2. QED
            BY <2>1, <2>2, <3>1
    <2>3. CASE ~pod.inits[i].sidecar
        <3>1. sideAsk[i] = 0 /\ sideCount[i] = 0 /\ firstCount[i] = Kubernetes!Triple(wants)[r]
            BY <2>3
        <3> HIDE DEF sideAsk, sideCount, firstCount
        <3>2. QED
            BY <2>1, <2>3, <3>1
    <2>4. QED
        BY <2>2, <2>3
<1>7. /\ IsFiniteSet(1 .. nc) /\ Cardinality(1 .. nc) = nc
      /\ IsFiniteSet(1 .. ni) /\ Cardinality(1 .. ni) = ni
    BY <1>1, OneToMany
<1>8. DOMAIN ask = 1 .. nc /\ DOMAIN count = 1 .. nc /\ DOMAIN sideAsk = 1 .. ni /\ DOMAIN sideCount = 1 .. ni
      /\ DOMAIN firstCount = 1 .. ni
    OBVIOUS
<1>9. counted = Max({C + SC, P + SC}) + overCount
    <2>1. /\ [i \in DOMAIN pod.containers |-> Kubernetes!Triple(pod.containers[i])[r]] = count
          /\ [i \in DOMAIN pod.inits |-> IF pod.inits[i].sidecar THEN Kubernetes!Triple(pod.inits[i].asks)[r] ELSE 0] = sideCount
          /\ [i \in DOMAIN pod.inits |-> IF pod.inits[i].sidecar THEN 0 ELSE Kubernetes!Triple(pod.inits[i].asks)[r]] = firstCount
        BY <1>1
    <2>2. Kubernetes!SumFunction(count) = C /\ Kubernetes!SumFunction(sideCount) = SC
        BY <1>8, KubernetesSums
    <2> HIDE DEF count, sideCount, firstCount
    <2>3. QED
        BY <2>1, <2>2 DEF Kubernetes!PodRequest, Kubernetes!Max, Max
<1>10. ASSUME NEW i \in Kubernetes!Stages(pod)
       PROVE  /\ i = 0 => Kubernetes!AtStage(pod, i, r) = over + SA + A
              /\ i # 0 => Kubernetes!AtStage(pod, i, r) = over + SA + pod.inits[i].asks[r]
    <2>1. /\ [k \in DOMAIN pod.containers |-> pod.containers[k][r]] = ask
          /\ [k \in DOMAIN pod.inits |-> IF pod.inits[k].sidecar THEN pod.inits[k].asks[r] ELSE 0] = sideAsk
        BY <1>1
    <2>2. Kubernetes!SumFunction(ask) = A /\ Kubernetes!SumFunction(sideAsk) = SA
        BY <1>8, KubernetesSums
    <2> HIDE DEF ask, sideAsk
    <2>3. QED
        BY <2>1, <2>2 DEF Kubernetes!AtStage
<1>11. /\ A \in Nat /\ C \in Nat /\ SA \in Nat /\ SC \in Nat
       /\ A <= 2 * C + nc /\ SA <= 2 * SC + ni
       /\ r = "cards" => A = C /\ SA = SC
    <2> HIDE DEF ask, count, sideAsk, sideCount, firstCount
    <2>1. A \in Nat /\ C \in Nat
        BY <1>5, <1>7, SumIsNumber
    <2>2. SA \in Nat /\ SC \in Nat
        BY <1>6, <1>7, SumIsNumber
    <2>3. A <= 2 * C + nc
        BY <1>5, <1>7, SumHalved
    <2>4. SA <= 2 * SC + ni
        BY <1>6, <1>7, SumHalved
    <2>5. ASSUME r = "cards" PROVE A = C
        BY <1>5, <1>7, <2>5, SumAgrees
    <2>6. ASSUME r = "cards" PROVE SA = SC
        BY <1>6, <1>7, <2>6, SumAgrees
    <2>7. QED
        BY <2>1, <2>2, <2>3, <2>4, <2>5, <2>6
<1>12. P \in Nat /\ \A i \in 1 .. ni : firstCount[i] <= P
    <2> HIDE DEF firstCount
    <2>1. QED
        BY <1>1, <1>6, <1>8, HighestIsMost
<1>13. PICK i \in Kubernetes!Stages(pod) : reserved = Kubernetes!AtStage(pod, i, r)
    <2> DEFINE S == Kubernetes!Stages(pod)
               f == [k \in S |-> Kubernetes!AtStage(pod, k, r)]
               V == {f[k] : k \in S}
    <2>1. 0 \in S /\ S \subseteq 0 .. ni
        BY <1>1 DEF Kubernetes!Stages
    <2>2. IsFiniteSet(S) /\ S # {}
        <3>1. IsFiniteSet(0 .. ni)
            BY <1>1, FS_Interval
        <3> HIDE DEF S
        <3>2. QED
            BY <2>1, <3>1, FS_Subset
    <2>3. ASSUME NEW k \in S PROVE Kubernetes!AtStage(pod, k, r) \in Nat
        <3>1. k # 0 => k \in 1 .. ni /\ ~pod.inits[k].sidecar
            BY <1>1 DEF Kubernetes!Stages
        <3> HIDE DEF SA, A, over
        <3>2. CASE k = 0
            BY <1>4, <1>10, <1>11, <3>2
        <3>3. CASE k # 0
            <4> DEFINE x == pod.inits[k].asks[r]
            <4>1. x \in Nat
                BY <1>6, <3>1, <3>3
            <4>2. Kubernetes!AtStage(pod, k, r) = over + SA + x
                BY <1>10, <3>3
            <4> HIDE DEF x
            <4>3. over \in Nat /\ SA \in Nat
                BY <1>4, <1>11 DEF over, SA
            <4>4. QED
                BY <4>1, <4>2, <4>3
        <3>4. QED
            BY <3>2, <3>3
    <2>4. f \in [S -> Nat]
        BY <2>3
    <2>5. {Kubernetes!AtStage(pod, k, r) : k \in S} = V
        OBVIOUS
    <2>6. reserved = Max(V)
        BY <2>5 DEF Kubernetes!Reserved, Kubernetes!Max, Max
    <2> HIDE DEF f, S
    <2>7. Max(V) \in V
        BY <2>2, <2>4, GreatestNumber
    <2>8. PICK k \in S : Max(V) = f[k]
        BY <2>7
    <2>9. QED
        BY <2>6, <2>8 DEF f, S
<1>14. i # 0 => i \in 1 .. ni /\ ~pod.inits[i].sidecar
    BY <1>1 DEF Kubernetes!Stages
<1> HIDE DEF nc, ni, ask, count, sideAsk, sideCount, firstCount, over, overCount, A, C, SA, SC, P, counted, reserved
<1>15. C + SC \in Int /\ P + SC \in Int
    BY <1>11, <1>12
<1>16. Max({C + SC, P + SC}) = IF C + SC > P + SC THEN C + SC ELSE P + SC
    BY <1>15, TwoNumbers
<1>17. counted \in Nat /\ counted >= C + SC + overCount /\ counted >= P + SC + overCount
    BY <1>4, <1>9, <1>11, <1>12, <1>16
<1>18. CASE i = 0
    <2>1. reserved = over + SA + A
        BY <1>10, <1>13, <1>18
    <2>2. reserved \in Nat
        BY <1>4, <1>11, <2>1
    <2>3. reserved <= 2 * counted + (nc + ni) + 1
        BY <1>1, <1>4, <1>11, <1>17, <2>1
    <2>4. r = "cards" => reserved <= counted
        BY <1>4, <1>11, <1>17, <2>1
    <2>5. nc + ni \in Nat \ {0} /\ counted \in Nat
        BY <1>1, <1>17
    <2>6. QED
        BY <2>2, <2>3, <2>4, <2>5 DEF nc, ni, counted, reserved
<1>19. CASE i # 0
    <2> DEFINE x == pod.inits[i].asks[r]
               y == firstCount[i]
    <2>1. reserved = over + SA + x
        BY <1>10, <1>13, <1>19
    <2>2. x \in Nat /\ y \in Nat /\ x <= 2 * y + 1 /\ y <= P /\ (r = "cards" => x = y)
        BY <1>6, <1>12, <1>14, <1>19
    <2> HIDE DEF x, y
    <2>3. reserved \in Nat
        BY <1>4, <1>11, <2>1, <2>2
    <2>4. reserved <= 2 * counted + (nc + ni) + 1
        <3>1. x <= 2 * P + 1
            BY <1>12, <2>2
        <3>2. over + SA <= 2 * overCount + 1 + 2 * SC + ni
            BY <1>1, <1>4, <1>11
        <3>3. nc \in Nat /\ nc >= 1 /\ ni \in Nat /\ over \in Nat /\ SA \in Nat
              /\ overCount \in Nat /\ SC \in Nat
            BY <1>1, <1>4, <1>11
        <3>4. P \in Nat /\ counted \in Nat /\ counted >= P + SC + overCount
            BY <1>12, <1>17
        <3>5. QED
            BY <2>1, <2>2, <3>1, <3>2, <3>3, <3>4
    <2>5. r = "cards" => reserved <= counted
        BY <1>4, <1>11, <1>12, <1>17, <2>1, <2>2
    <2>6. nc + ni \in Nat \ {0} /\ counted \in Nat
        BY <1>1, <1>17
    <2>7. QED
        BY <2>3, <2>4, <2>5, <2>6 DEF nc, ni, counted, reserved
<1>20. QED
    BY <1>18, <1>19

LEMMA KubernetesFree ==
    ASSUME NEW t, Kubernetes!Possible(t), NEW name \in DOMAIN t.hosts
    PROVE  LET h == t.hosts[name]
               lost == SumFunction([i \in DOMAIN h.pods |-> Len(h.pods[i].containers) + Len(h.pods[i].inits)])
           IN  Truly(Kubernetes!Node(h), h, lost)
<1> DEFINE h == t.hosts[name]
           n == Kubernetes!Node(h)
           D == DOMAIN h.pods
           live == {i \in D : ~Kubernetes!Terminal(h.pods[i])}
           size == [i \in D |-> Len(h.pods[i].containers) + Len(h.pods[i].inits)]
           lost == SumFunction(size)
           count(r) == [i \in D |-> IF Kubernetes!Terminal(h.pods[i]) THEN 0 ELSE Kubernetes!PodRequest(h.pods[i], r)]
           coresOf == [i \in live |-> Kubernetes!CoresFor(Kubernetes!Reserved(h.pods[i], "cpus"))]
           cardsOf == [i \in live |-> Kubernetes!Reserved(h.pods[i], "cards")]
           both == [i \in D |-> count("cpus")[i] + size[i]]
           cores == h.cores
           held == h.holds.cpus
           cards == h.cards
           taken == h.holds.cards
<1>1. cores \in Nat /\ cards \in Nat /\ held \in 0 .. cores /\ taken \in 0 .. cards
    BY DEF Kubernetes!Possible, Kubernetes!ClusterOK
<1>2. ~h.whole
    BY DEF Kubernetes!Possible, Kubernetes!Shared
<1>3. D = 1 .. Len(h.pods) /\ Len(h.pods) \in Nat
    BY DEF Kubernetes!Possible
<1>4. \A i \in D : Kubernetes!PodOK(h.pods[i])
    BY DEF Kubernetes!Possible
<1>5. Kubernetes!SumFunction(coresOf) = held /\ Kubernetes!SumFunction(cardsOf) = taken
    BY DEF Kubernetes!Possible
<1>6. /\ n.cpus = cores /\ n.cpusHeld = Kubernetes!SumFunction(count("cpus"))
      /\ n.gpus = cards /\ n.gpusHeld = Kubernetes!SumFunction(count("cards"))
    BY DEF Kubernetes!Node, Kubernetes!Requested
<1>7. DOMAIN size = D /\ DOMAIN count("cpus") = D /\ DOMAIN count("cards") = D
      /\ DOMAIN coresOf = live /\ DOMAIN cardsOf = live
    OBVIOUS
<1>8. ASSUME NEW i \in D
      PROVE  /\ size[i] \in Nat \ {0} /\ count("cpus")[i] \in Nat /\ count("cards")[i] \in Nat
             /\ both[i] = count("cpus")[i] + size[i]
             /\ i \in live => /\ coresOf[i] \in Nat /\ coresOf[i] <= both[i]
                              /\ cardsOf[i] \in Nat /\ cardsOf[i] <= count("cards")[i]
    <2> DEFINE pod == h.pods[i]
               k == Len(pod.containers) + Len(pod.inits)
               p == Kubernetes!PodRequest(pod, "cpus")
               q == Kubernetes!PodRequest(pod, "cards")
               x == Kubernetes!Reserved(pod, "cpus")
               y == Kubernetes!Reserved(pod, "cards")
    <2>1. Kubernetes!PodOK(pod)
        BY <1>4
    <2>2. k \in Nat \ {0} /\ p \in Nat /\ x \in Nat /\ x <= 2 * p + k + 1
        BY <2>1, PodIsCounted
    <2>3. q \in Nat /\ y \in Nat /\ y <= q
        BY <2>1, PodIsCounted
    <2>4. size[i] = k /\ both[i] = count("cpus")[i] + size[i]
        OBVIOUS
    <2>5. count("cpus")[i] = (IF i \in live THEN p ELSE 0) /\ count("cards")[i] = IF i \in live THEN q ELSE 0
        OBVIOUS
    <2>6. i \in live => coresOf[i] = Kubernetes!CoresFor(x) /\ cardsOf[i] = y
        OBVIOUS
    <2> HIDE DEF pod, k, p, q, x, y, size, both, count, live, coresOf, cardsOf
    <2>7. Kubernetes!CoresFor(x) \in Nat /\ Kubernetes!CoresFor(x) <= p + k
        <3>1. (x + 1) \div 2 \in Nat /\ 2 * ((x + 1) \div 2) <= x + 1
            BY <2>2
        <3>2. 2 * ((x + 1) \div 2) <= 2 * (p + k) + 1
            BY <2>2, <3>1
        <3>3. (x + 1) \div 2 <= p + k
            BY <2>2, <3>1, <3>2
        <3>4. QED
            BY <3>1, <3>3 DEF Kubernetes!CoresFor
    <2>8. QED
        BY <2>2, <2>3, <2>4, <2>5, <2>6, <2>7
<1>9. IsFiniteSet(D) /\ IsFiniteSet(live) /\ live \subseteq D
    <2>1. IsFiniteSet(D)
        BY <1>3, FS_Interval
    <2>2. QED
        BY <2>1, FS_Subset
<1>10. SpareCores(h) = cores - held /\ SpareCards(h) = cards - taken
    BY <1>2 DEF SpareCores, SpareCards
<1>11. held = 0 /\ taken = 0 => Untouched(h)
    BY <1>2 DEF Untouched
<1> HIDE DEF h, n, D, live, size, lost, count, coresOf, cardsOf, both, cores, held, cards, taken
<1>12. /\ n.cpusHeld = SumFunctionOnSet(count("cpus"), D) /\ n.cpusHeld \in Nat
       /\ n.gpusHeld = SumFunctionOnSet(count("cards"), D) /\ n.gpusHeld \in Nat
    <2>1. /\ n.cpusHeld = SumFunctionOnSet(count("cpus"), D)
          /\ n.gpusHeld = SumFunctionOnSet(count("cards"), D)
        BY <1>6, <1>7, KubernetesSums
    <2>2. QED
        BY <1>8, <1>9, <2>1, SumIsNumber
<1>13. lost = SumFunctionOnSet(size, D) /\ lost \in Nat
    <2>1. lost = SumFunctionOnSet(size, D)
        BY <1>7, SumOfFunction DEF lost
    <2>2. \A i \in D : size[i] \in Nat
        BY <1>8
    <2>3. QED
        BY <1>9, <2>1, <2>2, SumIsNumber
<1>14. held = SumFunctionOnSet(coresOf, live) /\ taken = SumFunctionOnSet(cardsOf, live)
    BY <1>5, <1>7, KubernetesSums
<1>15. held <= n.cpusHeld + lost
    <2>1. SumFunctionOnSet(both, D) = n.cpusHeld + lost
        <3>1. \A i \in D : /\ count("cpus")[i] \in Nat /\ size[i] \in Nat
                           /\ both[i] = count("cpus")[i] + size[i]
            BY <1>8
        <3> DEFINE c == count("cpus")
        <3>2. \A i \in D : c[i] \in Nat /\ size[i] \in Nat /\ both[i] = c[i] + size[i]
            BY <3>1
        <3> HIDE DEF c
        <3>3. SumFunctionOnSet(both, D) = SumFunctionOnSet(c, D) + SumFunctionOnSet(size, D)
            BY <1>9, <3>2, SumAdds
        <3>4. n.cpusHeld = SumFunctionOnSet(c, D) /\ lost = SumFunctionOnSet(size, D)
            BY <1>12, <1>13 DEF c
        <3>5. QED
            BY <3>3, <3>4
    <2>2. \A i \in D : both[i] \in Nat
        BY <1>8
    <2>3. SumFunctionOnSet(coresOf, live) <= SumFunctionOnSet(both, D)
        BY <1>8, <1>9, <2>2, SumBelow
    <2>4. QED
        BY <1>14, <2>1, <2>3
<1>16. taken <= n.gpusHeld
    BY <1>8, <1>9, <1>12, <1>14, SumBelow
<1>17. lost = 0 => held = 0 /\ taken = 0
    <2>1. ASSUME lost = 0, NEW i \in D PROVE FALSE
        <3>1. SumFunctionOnSet(size, D) = size[i] + SumFunctionOnSet(size, D \ {i})
            <4>1. \A j \in D : size[j] \in Nat
                BY <1>8
            <4>2. QED
                BY <1>9, <2>1, <4>1, SumTakesOut
        <3>2. SumFunctionOnSet(size, D \ {i}) \in Nat
            <4>1. IsFiniteSet(D \ {i}) /\ \A j \in D \ {i} : size[j] \in Nat
                BY <1>8, <1>9, FS_Subset
            <4>2. QED
                BY <4>1, SumIsNumber
        <3>3. size[i] \in Nat \ {0}
            BY <1>8
        <3>4. lost = size[i] + SumFunctionOnSet(size, D \ {i})
            BY <1>13, <3>1
        <3>5. QED
            BY <2>1, <3>2, <3>3, <3>4
    <2>2. lost = 0 => live = {}
        BY <1>9, <2>1
    <2>3. QED
        BY <1>14, <2>2, SumEmpty
<1>18. Truly(n, h, lost)
    <2>1. SpareCores(h) + lost \in Nat
        BY <1>1, <1>10, <1>13
    <2>2. SpareCards(h) \in Nat
        BY <1>1, <1>10
    <2>3. n.cpus \in Int /\ n.cpus - n.cpusHeld <= SpareCores(h) + lost
        BY <1>1, <1>6, <1>10, <1>12, <1>13, <1>15
    <2>4. n.gpus \in Int /\ n.gpus - n.gpusHeld <= SpareCards(h)
        BY <1>1, <1>6, <1>10, <1>12, <1>16
    <2>5. Untouched(h) \/ lost > 0
        BY <1>11, <1>13, <1>17
    <2>6. QED
        BY <1>12, <1>13, <2>1, <2>2, <2>3, <2>4, <2>5, FreeIsSpare
<1>19. QED
    BY <1>18 DEF h, n, lost, size, D

-----------------------------------------------------------------------------
(* The room in a queue.                                                    *)

\* What a node that takes work has free is what its host had, but for what is
\* blurred, and memory is behind it.
LEMMA NodesAreTrue ==
    ASSUME Taken, Loaded, NEW name \in DOMAIN SnapshotNodes \cap DOMAIN HostsThen,
           Schedulable(SnapshotNodes[name])
    PROVE  /\ Truly(SnapshotNodes[name], HostsThen[name], Blurred(HostsThen[name]))
           /\ ~Backed(HostsThen[name]) => MemoryExhausted(SnapshotNodes[name])
<1>1. "nodes" \notin errors /\ table.kind \in Kinds /\ "nodes" \in Loaders
    <2>1. "nodes" \in errors => SnapshotNodes = <<>>
        BY DEF SnapshotNodes
    <2>2. "nodes" \notin errors
        BY <2>1
    <2>3. QED
        BY <2>2, NeededIsCommand
<1>2. table.kind # "slurm" => Backed(HostsThen[name])
    BY DEF Backed
<1>3. table.kind \notin {"sge", "kubernetes"} => Blurred(HostsThen[name]) = 0
    BY DEF Blurred
<1>4. CASE table.kind = "sshpool"
    <2>1. name \in Heard
        BY <1>1, <1>4 DEF HostsThen
    <2>2. QED
        BY <1>1, <1>2, <1>3, <1>4, <2>1, HeardOfThePool, SshPoolFree
<1>5. CASE table.kind # "sshpool"
    <2> DEFINE t == At("nodes", NodesBy)
               h == t.hosts[name]
    <2>1. Possible(table.kind, t) /\ name \in DOMAIN t.hosts /\ HostsThen[name] = h
        BY <1>1, <1>5, NodesAreHosts, TruthIsOfTheCluster
    <2>2. CASE table.kind = "slurm"
        <3> DEFINE known == Has("nodes", "config")
                   config == IF known THEN At("nodes", "config").config ELSE <<>>
        <3>1. SnapshotNodes[name] = Slurm!Node(h, known, config)
            BY <1>1, <2>1, <2>2 DEF SnapshotNodes, NodesRead, NodesBy, Slurm!Nodes
        <3>2. Slurm!Possible(t)
            BY <2>1, <2>2 DEF Possible
        <3>3. Truly(SnapshotNodes[name], HostsThen[name], Blurred(HostsThen[name]))
            <4> HIDE DEF t, known, config
            <4>1. QED
                BY <1>3, <2>1, <2>2, <3>1, <3>2, SlurmFree DEF h
        <3>4. ASSUME ~Backed(HostsThen[name]) PROVE MemoryExhausted(SnapshotNodes[name])
            <4>1. /\ known /\ At("nodes", "config").config.consumable /\ h.mem > 0
                  /\ ~(h.mem - h.holds.mem >= Max({1, At("nodes", "config").config.floor}))
                BY <2>1, <3>4 DEF Backed
            <4>2. "config" \in Commands
                BY <2>2, NeededIsCommand
            <4>3. Slurm!Possible(At("nodes", "config"))
                BY <1>1, <2>2, <4>1, <4>2, TruthIsOfTheCluster DEF Possible
            <4>4. config.floor \in Nat
                BY <4>1, <4>3 DEF Slurm!Possible
            <4>5. h.mem \in Nat /\ h.holds.mem \in Nat
                BY <2>1, <3>2 DEF Slurm!Possible, Slurm!ClusterOK
            <4>6. SnapshotNodes[name] = Slurm!Node(h, TRUE, config)
                BY <3>1, <4>1 DEF Slurm!Node, Slurm!Consumable, Slurm!Floor
            <4>7. /\ config.consumable /\ ~(h.mem - h.holds.mem >= Max({1, config.floor}))
                BY <4>1
            <4> HIDE DEF h, known, config
            <4>8. QED
                BY <4>1, <4>4, <4>5, <4>6, <4>7, SlurmUnbacked
        <3>5. QED
            BY <3>3, <3>4
    <2>3. CASE table.kind = "pbs"
        <3>1. SnapshotNodes[name] = Pbs!Node(t, name)
            BY <1>1, <2>1, <2>3 DEF SnapshotNodes, NodesRead, NodesBy, Pbs!Nodes
        <3>2. QED
            BY <1>2, <1>3, <2>1, <2>3, <3>1, PbsFree DEF Possible
    <2>4. CASE table.kind = "lsf"
        <3>1. SnapshotNodes[name] = Lsf!Node(t, h)
            BY <1>1, <2>1, <2>4 DEF SnapshotNodes, NodesRead, NodesBy, Lsf!Nodes
        <3>2. QED
            BY <1>2, <1>3, <2>1, <2>4, <3>1, LsfFree DEF Possible
    <2>5. CASE table.kind = "sge"
        <3>1. SnapshotNodes[name] = Sge!Node(t, h)
            BY <1>1, <2>1, <2>5 DEF SnapshotNodes, NodesRead, NodesBy, Sge!Nodes
        <3>2. Blurred(h) = SumFunction([i \in 1 .. Len(h.instances) - 1 |-> h.instances[i].used])
            BY <2>5 DEF Blurred
        <3>3. Sge!Possible(t)
            BY <2>1, <2>5 DEF Possible
        <3>4. Truly(Sge!Node(t, h), h, Blurred(h))
            BY <2>1, <3>2, <3>3, SgeFree
        <3>5. QED
            BY <1>2, <2>1, <2>5, <3>1, <3>4
    <2>6. CASE table.kind = "kubernetes"
        <3>1. SnapshotNodes[name] = Kubernetes!Node(h)
            BY <1>1, <2>1, <2>6 DEF SnapshotNodes, NodesRead, NodesBy, Kubernetes!Nodes
        <3>2. Blurred(h) = SumFunction([i \in DOMAIN h.pods |-> Len(h.pods[i].containers) + Len(h.pods[i].inits)])
            BY <2>6 DEF Blurred
        <3>3. Kubernetes!Possible(t)
            BY <2>1, <2>6 DEF Possible
        <3>4. Truly(Kubernetes!Node(h), h, Blurred(h))
            BY <2>1, <3>2, <3>3, KubernetesFree
        <3>5. QED
            BY <1>2, <2>1, <2>6, <3>1, <3>4
    <2>7. QED
        BY <1>1, <1>5, <2>2, <2>3, <2>4, <2>5, <2>6 DEF Kinds
<1>6. QED
    BY <1>4, <1>5

\* A queue that is closed, or names nobody, is of no use.
LEMMA Blocked ==
    ASSUME NEW r, NEW N, ~r.enabled \/ ~r.started \/ r.users = "none" \/ r.accounts = "none"
    PROVE  ~Usable(r, N)
<1>1. CASE ~r.enabled
    BY <1>1 DEF Usable, StructuralBlockers
<1>2. CASE r.enabled /\ ~r.started
    BY <1>2 DEF Usable, StructuralBlockers
<1>3. CASE r.users = "none"
    BY <1>3 DEF Usable, StructuralBlockers
<1>4. CASE r.accounts = "none"
    BY <1>4 DEF Usable, StructuralBlockers
<1>5. QED
    BY <1>1, <1>2, <1>3, <1>4

\* What is made of a queue that starts nothing.
LEMMA SlurmSays ==
    ASSUME NEW t, NEW q \in DOMAIN t.queues
    PROVE  LET r == Slurm!Queues(t)[q]
               p == t.queues[q]
           IN  /\ p.service # "open" => ~r.started
               /\ p.who = "nobody" => r.accounts = "none"
<1> DEFINE p == t.queues[q]
           up == p.service \in {"open", "stopped"}
           on == p.service = "open"
           who == IF p.who = "nobody" THEN "none" ELSE p.who
<1>1. Slurm!Queues(t)[q] =
          [Slurm!PlainQueue EXCEPT !.enabled = up, !.started = on, !.accounts = who,
              !.names = p.members, !.declared = Slurm!Cardinality(p.members)]
    BY DEF Slurm!Queues
<1>2. (p.service # "open" => ~on) /\ (p.who = "nobody" => who = "none")
    OBVIOUS
<1> HIDE DEF up, on, who
<1>3. Slurm!Queues(t)[q].started = on /\ Slurm!Queues(t)[q].accounts = who
    BY <1>1 DEF Slurm!PlainQueue
<1>4. QED
    BY <1>2, <1>3

LEMMA PbsSays ==
    ASSUME NEW t, NEW N, NEW q \in DOMAIN t.queues, t.queues[q].service # "routes"
    PROVE  LET r == Pbs!Queues(t, N)[q]
               p == t.queues[q]
           IN  /\ p.service = "disabled" => ~r.enabled
               /\ p.service = "stopped" => ~r.started
               /\ p.who = "nobody" => r.users = "none"
<1> DEFINE p == t.queues[q]
           up == p.service \in {"open", "stopped", "routes"}
           on == p.service \in {"open", "disabled", "routes"}
           routes == p.service = "routes"
           who == IF p.who = "nobody" THEN "none" ELSE p.who
           of == Pbs!QueueOf(p)
<1>1. of = [Pbs!PlainQueue EXCEPT !.enabled = up, !.started = on, !.routes = routes, !.users = who]
    BY DEF Pbs!QueueOf
<1>2. /\ p.service = "disabled" => ~up
      /\ p.service = "stopped" => ~on
      /\ p.who = "nobody" => who = "none"
      /\ ~routes
    OBVIOUS
<1>3. Pbs!Queues(t, N)[q] = IF of.routes THEN of
          ELSE [of EXCEPT !.names = Pbs!Members(q, N), !.declared = Pbs!Cardinality(Pbs!Members(q, N))]
    BY DEF Pbs!Queues
<1> HIDE DEF up, on, who, routes, of
<1>4. of.enabled = up /\ of.started = on /\ of.users = who /\ of.routes = routes
      /\ of = [k \in DOMAIN Pbs!PlainQueue |-> of[k]]
    BY <1>1 DEF Pbs!PlainQueue
<1>5. /\ Pbs!Queues(t, N)[q].enabled = up /\ Pbs!Queues(t, N)[q].started = on
      /\ Pbs!Queues(t, N)[q].users = who
    BY <1>2, <1>3, <1>4 DEF Pbs!PlainQueue
<1>6. QED
    BY <1>2, <1>5

\* Nor is there anything in a queue that starts nothing.
LEMMA WhereNothingStarts ==
    ASSUME Taken, Loaded, NEW q \in DOMAIN SnapshotQueues, ~StartsJobs(QueueThen(q)), NEW N
    PROVE  ~Usable(SnapshotQueues[q], N) \/ SnapshotQueues[q].names = {}
<1> DEFINE r == SnapshotQueues[q]
           p == QueueThen(q)
<1>1. "queues" \notin errors /\ table.kind \in Kinds
    <2>1. "queues" \notin errors
        BY DEF SnapshotQueues
    <2>2. QED
        BY <2>1, NeededIsCommand
<1>2. p.service # "open" \/ p.who = "nobody"
    BY DEF StartsJobs
<1>3. CASE table.kind = "sshpool"
    BY <1>2, <1>3 DEF QueueThen
<1>4. CASE table.kind # "sshpool"
    <2> DEFINE t == At("queues", QueuesBy)
    <2>1. Possible(table.kind, t) /\ p = t.queues[q]
        BY <1>1, <1>4, ReadOfQueues DEF QueueThen
    <2>2. CASE table.kind = "slurm"
        <3>1. r = Slurm!Queues(t)[q] /\ q \in DOMAIN t.queues
            BY <1>1, <2>2 DEF SnapshotQueues, QueuesRead, QueuesBy, Slurm!Queues
        <3>2. p.service \in {"open", "stopped", "closed"}
            BY <2>1, <2>2, <3>1 DEF Possible, Slurm!Possible
        <3>3. /\ p.service # "open" => ~r.started
              /\ p.who = "nobody" => r.accounts = "none"
            BY <2>1, <3>1, SlurmSays
        <3> HIDE DEF r, p
        <3>4. QED
            BY <1>2, <3>3, Blocked DEF r
    <2>3. CASE table.kind = "pbs"
        <3>1. r = Pbs!Queues(t, Pbs!Nodes(At("queues", "pbsnodes")))[q] /\ q \in DOMAIN t.queues
            BY <1>1, <2>3 DEF SnapshotQueues, QueuesRead, QueuesBy, Pbs!Queues
        <3>2. p.service \in {"open", "stopped", "disabled", "routes"}
            BY <2>1, <2>3, <3>1 DEF Possible, Pbs!Possible
        <3>3. p.service = "routes" => r.names = {}
            BY <2>1, <3>1, PbsNames
        <3>4. p.service # "routes" =>
                 /\ p.service = "disabled" => ~r.enabled
                 /\ p.service = "stopped" => ~r.started
                 /\ p.who = "nobody" => r.users = "none"
            BY <2>1, <3>1, PbsSays
        <3> HIDE DEF r, p
        <3>5. QED
            BY <1>2, <3>2, <3>3, <3>4, Blocked DEF r
    <2>4. CASE table.kind = "lsf"
        <3> DEFINE known == Has("queues", "bmgroup")
                   g == IF known THEN At("queues", "bmgroup") ELSE <<>>
        <3>1. r = Lsf!Queues(t, Lsf!Nodes(At("queues", "bhosts")), known, g)[q] /\ q \in DOMAIN t.queues
            BY <1>1, <2>4 DEF SnapshotQueues, QueuesRead, QueuesBy, Lsf!Queues
        <3>2. p.service \in {"open", "stopped", "closed"} /\ p.who # "nobody"
            BY <2>1, <2>4, <3>1 DEF Possible, Lsf!Possible
        <3> HIDE DEF known, g
        <3>3. r.enabled = (p.service # "closed") /\ r.started = (p.service # "stopped")
            BY <2>1, <3>1 DEF Lsf!Queues, Lsf!PlainQueue
        <3> HIDE DEF r, p
        <3>4. QED
            BY <1>2, <3>2, <3>3, Blocked DEF r
    <2>5. CASE table.kind = "sge"
        <3>1. q \in DOMAIN t.queues
            BY <1>1, <2>5 DEF SnapshotQueues, QueuesRead, QueuesBy, Sge!Queues
        <3>2. QED
            BY <1>2, <2>1, <2>5, <3>1 DEF Possible, Sge!Possible
    <2>6. CASE table.kind = "kubernetes"
        <3>1. /\ r = Kubernetes!Queues(t, Kubernetes!Nodes(At("queues", "nodes and pods")))[q]
              /\ q \in DOMAIN t.queues
            BY <1>1, <2>6 DEF SnapshotQueues, QueuesRead, QueuesBy, Kubernetes!Queues
        <3>2. p.service \in {"open", "closed"} /\ p.who # "nobody"
            BY <2>1, <2>6, <3>1 DEF Possible, Kubernetes!Possible
        <3>3. r.enabled = (p.service = "open")
            BY <2>1, <3>1 DEF Kubernetes!Queues, Kubernetes!PlainQueue
        <3> HIDE DEF r, p
        <3>4. QED
            BY <1>2, <3>2, <3>3, Blocked DEF r
    <2>7. QED
        BY <1>1, <1>4, <2>2, <2>3, <2>4, <2>5, <2>6 DEF Kinds
<1>5. QED
    BY <1>3, <1>4

\* The hosts that were read of have nodes, and a node that takes work has a host.
LEMMA HostsHaveNodes ==
    ASSUME Taken, Loaded
    PROVE  /\ DOMAIN HostsThen \subseteq DOMAIN SnapshotNodes /\ IsFiniteSet(DOMAIN SnapshotNodes)
           /\ \A h \in DOMAIN SnapshotNodes : Schedulable(SnapshotNodes[h]) => h \in DOMAIN HostsThen
<1>1. CASE "nodes" \in errors
    <2>1. DOMAIN HostsThen = {} /\ DOMAIN SnapshotNodes = {}
        BY <1>1 DEF HostsThen, SnapshotNodes
    <2>2. QED
        BY <2>1, FS_EmptySet
<1>2. CASE "nodes" \notin errors /\ table.kind = "sshpool"
    <2>1. DOMAIN HostsThen = Heard /\ DOMAIN SnapshotNodes = Range(table.pool)
        BY <1>2, PoolIsThere DEF HostsThen
    <2>2. Heard \subseteq Range(table.pool) /\ IsFiniteSet(Range(table.pool))
        BY <1>2, PoolIsThere DEF Heard
    <2>3. ASSUME NEW h \in Range(table.pool), h \notin Heard PROVE ~Schedulable(SnapshotNodes[h])
        <3>1. SnapshotNodes = SshPool!Nodes(table.pool, [x \in Heard |-> At("nodes", x).hosts[x]])
            BY <1>2 DEF SnapshotNodes, NodesRead
        <3>2. SnapshotNodes[h] = SshPool!Blank("DOWN")
            BY <2>3, <3>1 DEF SshPool!Nodes, SshPool!Range, Range
        <3>3. SnapshotNodes[h].conditions = {"DOWN"}
            BY <3>2 DEF SshPool!Blank
        <3>4. QED
            BY <3>3 DEF Schedulable, BlockingConditions
    <2>4. QED
        BY <2>1, <2>2, <2>3
<1>3. CASE "nodes" \notin errors /\ table.kind # "sshpool"
    <2>1. table.kind \in Kinds \ {"sshpool"} /\ "nodes" \in Loaders
        BY <1>3, NeededIsCommand
    <2>2. Possible(table.kind, At("nodes", NodesBy))
        BY <1>3, <2>1, NodesAreHosts, TruthIsOfTheCluster
    <2>3. IsFiniteSet(DOMAIN At("nodes", NodesBy).hosts)
        BY <2>1, <2>2, HostsAreMany
    <2>4. QED
        BY <1>3, <2>3, NodesAreHosts
<1>4. QED
    BY <1>1, <1>2, <1>3

\* What is said to be free of a queue was, on the hosts that could start its jobs.
LEMMA RoomOfAQueue ==
    ASSUME Taken, Loaded, NEW q \in DOMAIN SnapshotQueues
    PROVE  RoomWasThere(SnapshotQueues[q], SnapshotNodes, HostsThen, Startable(q, HostsThen))
<1> DEFINE r == SnapshotQueues[q]
           nodes == SnapshotNodes
           hosts == HostsThen
           W == Wired(r, nodes)
           T == Startable(q, hosts)
           cpus == [h \in W |-> IF Schedulable(nodes[h]) THEN EffectiveFreeCpus(nodes[h]) ELSE 0]
           gpus == [h \in W |-> IF Schedulable(nodes[h]) THEN EffectiveFreeGpus(nodes[h]) ELSE 0]
           cores == [h \in T |-> SpareCores(hosts[h]) + Blurred(hosts[h])]
           cards == [h \in T |-> SpareCards(hosts[h])]
           F == {h \in W : Idle(nodes[h]) /\ RoomOn(nodes[h])}
           G == {h \in T : Untouched(hosts[h]) \/ Blurred(hosts[h]) > 0}
<1>1. Fair(r, MembersThen(q))
    BY QueuesAreFair
<1>2. W \subseteq r.names /\ W \subseteq MembersThen(q) /\ W \subseteq DOMAIN nodes
    BY <1>1 DEF Fair, Wired
<1>3. T \subseteq DOMAIN hosts /\ \A h \in T : InService(hosts[h])
    BY DEF Startable
<1>4. IsFiniteSet(W) /\ IsFiniteSet(T)
    <2>1. IsFiniteSet(DOMAIN nodes) /\ DOMAIN hosts \subseteq DOMAIN nodes
        BY HostsHaveNodes
    <2> HIDE DEF W, T, nodes, hosts
    <2>2. QED
        BY <1>2, <1>3, <2>1, FS_Subset
<1>5. ASSUME NEW h \in DOMAIN nodes \cap DOMAIN hosts, Schedulable(nodes[h])
      PROVE  Truly(nodes[h], hosts[h], Blurred(hosts[h])) /\ (~Backed(hosts[h]) => MemoryExhausted(nodes[h]))
    BY <1>5, NodesAreTrue
<1>6. ASSUME NEW h \in T
      PROVE  /\ Truly(nodes[h], hosts[h], Blurred(hosts[h]))
             /\ cores[h] = SpareCores(hosts[h]) + Blurred(hosts[h]) /\ cores[h] \in Nat
             /\ cards[h] = SpareCards(hosts[h]) /\ cards[h] \in Nat
    <2>1. h \in DOMAIN nodes \cap DOMAIN hosts /\ InService(hosts[h])
        BY <1>3, <1>6, HostsHaveNodes
    <2>2. Schedulable(nodes[h])
        BY <2>1, NodesTell
    <2>3. Truly(nodes[h], hosts[h], Blurred(hosts[h]))
        BY <1>5, <2>1, <2>2
    <2>4. QED
        BY <1>6, <2>3 DEF Truly
<1>7. ASSUME NEW h \in W, Usable(r, nodes), Schedulable(nodes[h])
      PROVE  /\ h \in DOMAIN nodes \cap DOMAIN hosts
             /\ h \in T \/ (EffectiveFreeCpus(nodes[h]) = 0 /\ EffectiveFreeGpus(nodes[h]) = 0)
    <2>1. h \in DOMAIN nodes \cap DOMAIN hosts /\ h \in MembersThen(q)
        BY <1>2, <1>7, HostsHaveNodes
    <2>2. InService(hosts[h])
        BY <1>7, <2>1, NodesTell
    <2>3. StartsJobs(QueueThen(q))
        <3>1. r.names # {}
            BY <1>2, <1>7
        <3>2. QED
            BY <1>7, <3>1, WhereNothingStarts
    <2>4. CASE Backed(hosts[h])
        BY <2>1, <2>2, <2>3, <2>4 DEF Startable
    <2>5. CASE ~Backed(hosts[h])
        BY <1>5, <1>7, <2>1, <2>5 DEF EffectiveFreeCpus, EffectiveFreeGpus
    <2>6. QED
        BY <2>1, <2>4, <2>5
<1>8. ASSUME NEW h \in W, Usable(r, nodes)
      PROVE  /\ cpus[h] \in Nat /\ (cpus[h] = 0 \/ (h \in T /\ cpus[h] <= cores[h]))
             /\ gpus[h] \in Nat /\ (gpus[h] = 0 \/ (h \in T /\ gpus[h] <= cards[h]))
             /\ h \in F => h \in G
    <2>1. CASE ~Schedulable(nodes[h])
        <3>1. cpus[h] = 0 /\ gpus[h] = 0
            BY <1>8, <2>1
        <3>2. h \notin F
            BY <2>1 DEF Idle
        <3> HIDE DEF cpus, gpus, F, G
        <3>3. QED
            BY <3>1, <3>2
    <2>2. CASE Schedulable(nodes[h])
        <3>1. cpus[h] = EffectiveFreeCpus(nodes[h]) /\ gpus[h] = EffectiveFreeGpus(nodes[h])
            BY <1>8, <2>2
        <3>2. Truly(nodes[h], hosts[h], Blurred(hosts[h]))
            BY <1>5, <1>7, <1>8, <2>2
        <3>3. h \in T \/ (cpus[h] = 0 /\ gpus[h] = 0)
            BY <1>7, <1>8, <2>2, <3>1
        <3>4. cpus[h] \in Nat /\ gpus[h] \in Nat
            BY <3>1, <3>2 DEF Truly
        <3>5. h \in T => cpus[h] <= cores[h] /\ gpus[h] <= cards[h]
            BY <1>6, <3>1, <3>2 DEF Truly
        <3>6. h \in F => Idle(nodes[h]) /\ RoomOn(nodes[h])
            OBVIOUS
        <3>7. RoomOn(nodes[h]) => cpus[h] + gpus[h] > 0
            BY <3>1 DEF RoomOn
        <3> HIDE DEF cpus, gpus, F
        <3>8. h \in F => h \in T
            BY <3>3, <3>6, <3>7
        <3>9. h \in F => Untouched(hosts[h]) \/ Blurred(hosts[h]) > 0
            BY <3>2, <3>6 DEF Truly
        <3>10. h \in F => h \in G
            BY <3>8, <3>9
        <3>11. QED
            BY <3>3, <3>4, <3>5, <3>10
    <2>3. QED
        BY <2>1, <2>2
<1>9. SumFunction(cpus) = SumFunctionOnSet(cpus, W) /\ SumFunction(gpus) = SumFunctionOnSet(gpus, W)
      /\ SumFunction(cores) = SumFunctionOnSet(cores, T) /\ SumFunction(cards) = SumFunctionOnSet(cards, T)
    <2>1. DOMAIN cpus = W /\ DOMAIN gpus = W /\ DOMAIN cores = T /\ DOMAIN cards = T
        OBVIOUS
    <2> HIDE DEF cpus, gpus, cores, cards, W, T
    <2>2. QED
        BY <2>1, SumOfFunction
<1>10. /\ FreeCpus(r, nodes) = IF ~Usable(r, nodes) THEN 0 ELSE SumFunction(cpus)
       /\ FreeGpus(r, nodes) = IF ~Usable(r, nodes) THEN 0 ELSE SumFunction(gpus)
       /\ FreeNodes(r, nodes) = IF ~Usable(r, nodes) THEN 0 ELSE Cardinality(F)
    BY DEF FreeCpus, FreeGpus, FreeNodes
<1> HIDE DEF r, nodes, hosts, W, T, cpus, gpus, cores, cards
<1>11. SumFunction(cores) \in Nat /\ SumFunction(cards) \in Nat
    BY <1>4, <1>6, <1>9, SumIsNumber
<1>12. IsFiniteSet(G) /\ Cardinality(G) \in Nat
    <2>1. G \subseteq T
        OBVIOUS
    <2> HIDE DEF G
    <2>2. QED
        BY <1>4, <2>1, FS_Subset, FS_CardinalityType
<1>13. FreeCpus(r, nodes) <= SumFunction(cores)
    <2>1. CASE ~Usable(r, nodes)
        BY <1>10, <1>11, <2>1
    <2>2. CASE Usable(r, nodes)
        <3>1. \A h \in W : cpus[h] \in Nat
            BY <1>8, <2>2
        <3>2. \A h \in W : cpus[h] = 0 \/ (h \in T /\ cpus[h] <= cores[h])
            BY <1>8, <2>2
        <3>3. \A h \in T : cores[h] \in Nat
            BY <1>6
        <3>4. SumFunctionOnSet(cpus, W) <= SumFunctionOnSet(cores, T)
            BY <1>4, <3>1, <3>2, <3>3, SumBelow
        <3>5. QED
            BY <1>9, <1>10, <2>2, <3>4
    <2>3. QED
        BY <2>1, <2>2
<1>14. FreeGpus(r, nodes) <= SumFunction(cards)
    <2>1. CASE ~Usable(r, nodes)
        BY <1>10, <1>11, <2>1
    <2>2. CASE Usable(r, nodes)
        <3>1. \A h \in W : gpus[h] \in Nat
            BY <1>8, <2>2
        <3>2. \A h \in W : gpus[h] = 0 \/ (h \in T /\ gpus[h] <= cards[h])
            BY <1>8, <2>2
        <3>3. \A h \in T : cards[h] \in Nat
            BY <1>6
        <3>4. SumFunctionOnSet(gpus, W) <= SumFunctionOnSet(cards, T)
            BY <1>4, <3>1, <3>2, <3>3, SumBelow
        <3>5. QED
            BY <1>9, <1>10, <2>2, <3>4
    <2>3. QED
        BY <2>1, <2>2
<1>15. FreeNodes(r, nodes) <= Cardinality(G)
    <2>1. CASE ~Usable(r, nodes)
        <3> HIDE DEF G, F
        <3>1. QED
            BY <1>10, <1>12, <2>1
    <2>2. CASE Usable(r, nodes)
        <3>1. F \subseteq G
            BY <1>8, <2>2
        <3>2. Cardinality(F) <= Cardinality(G)
            <4> HIDE DEF F, G
            <4>1. QED
                BY <1>12, <3>1, FS_Subset
        <3> HIDE DEF F, G
        <3>3. QED
            BY <1>10, <2>2, <3>2
    <2>3. QED
        BY <2>1, <2>2
<1>16. QED
    BY <1>13, <1>14, <1>15 DEF RoomWasThere, r, nodes, hosts, T, cores, cards

\* Whatever a queue is said to have free, nobody holds, on hosts that are its own and
\* in service, with memory behind it.
THEOREM RoomIsThere == Spec => []RoomIsReal
<1>1. ASSUME Taken, Reported PROVE RoomsWereThere(SnapshotNodes, SnapshotQueues, HostsThen)
    <2>1. Loaded
        BY <1>1 DEF Reported
    <2>2. QED
        BY <1>1, <2>1, RoomOfAQueue DEF RoomsWereThere
<1>2. Taken => RoomIsReal
    BY <1>1 DEF RoomIsReal
<1>3. QED
    BY <1>2, SnapshotIsTaken, PTL
=============================================================================
