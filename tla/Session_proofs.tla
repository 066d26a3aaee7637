--------------------------- MODULE Session_proofs ---------------------------
(***************************************************************************)
(* What holds of a browse session for every set of partitions, however     *)
(* many threads it may start and however often the control plane changes   *)
(* its mind: the control plane is never asked by two rechecks at a time    *)
(* (`_Recheck.live`), no answer is put over a newer one but where the frame*)
(* had to ask beside a recheck, and a reload made for a correction shows   *)
(* it.  And, of IdleRefresh, as Pace: between one key or correction and    *)
(* the next, the timer re-reads ever more rarely.                          *)
(***************************************************************************)
EXTENDS Session, PaceContract, FiniteSetTheorems, WellFoundedInduction, NaturalsInduction, TLAPS

Shape ==
    /\ pass \in [Passes -> [pc : {"off", "asking", "saving", "saved", "done"},
                            todo : SUBSET Partitions, got : Verdicts]]
    /\ live \in Passes \cup {NoPass}
    /\ room \in SUBSET Partitions

\* A recheck that runs is the one the process knows of, also after a reload has
\* made the browse stop watching it.
IInv == Shape /\ Running \subseteq {live}

LEMMA Starts == Init => IInv
<1>1. Resting \in [pc : {"off", "asking", "saving", "saved", "done"},
                   todo : SUBSET Partitions, got : Verdicts]
    BY DEF Resting, Verdicts, Unknown
<1>2. Resting.pc = "off"
    BY DEF Resting
<1>3. QED
    BY <1>1, <1>2 DEF Init, IInv, Shape, Running

\* A recheck is begun only where none runs, or not at all.
LEMMA Begins ==
    ASSUME IInv, NEW c \in SUBSET Partitions, Begin(c), room' \in SUBSET Partitions
    PROVE  IInv'
<1>1. CASE live \in Running \/ ~rested
    BY <1>1 DEF Begin, IInv, Shape, Running
<1>2. CASE ~(live \in Running \/ ~rested)
    <2>1. Running = {}
        BY <1>2 DEF IInv
    <2>2. live' \in Passes
        BY <1>2, <2>1, SessionAssumption DEF Begin
    <2>3. pass' = [pass EXCEPT ![live'] = [pc |-> "asking", todo |-> c, got |-> Unknown]]
        BY <1>2 DEF Begin
    <2>4. [pc |-> "asking", todo |-> c, got |-> Unknown]
             \in [pc : {"off", "asking", "saving", "saved", "done"},
                  todo : SUBSET Partitions, got : Verdicts]
        BY DEF Unknown, Verdicts
    <2>5. Shape'
        BY <2>2, <2>3, <2>4 DEF IInv, Shape
    <2>6. ASSUME NEW t \in Passes, t # live' PROVE pass'[t] = pass[t]
        BY <2>2, <2>3, <2>6 DEF IInv, Shape
    <2>7. Running' \subseteq {live'}
        BY <2>1, <2>6 DEF Running
    <2>8. QED
        BY <2>5, <2>7 DEF IInv
<1>3. QED
    BY <1>1, <1>2

LEMMA Steps == IInv /\ [Next]_vars => IInv'
<1> SUFFICES ASSUME IInv, [Next]_vars PROVE IInv'
    OBVIOUS
<1>1. ASSUME UNCHANGED <<pass, live>>, room' \in SUBSET Partitions PROVE IInv'
    BY <1>1 DEF IInv, Shape, Running
<1>2. room \in SUBSET Partitions
    BY DEF IInv, Shape
<1>3. ASSUME NEW c \in SUBSET Partitions, NEW v, NEW remembered, Draw(c, v, remembered),
             room' \in SUBSET Partitions
      PROVE  IInv'
    <2>1. CASE remembered
        BY <1>3, <2>1, Begins DEF Draw
    <2>2. CASE ~remembered
        BY <1>1, <1>3, <2>2 DEF Draw
    <2>3. QED
        BY <2>1, <2>2
<1>4. CASE Read
    <2>1. PICK c \in Rooms :
             /\ room' = c
             /\ \/ Draw(c, [p \in Partitions |-> IF p \in c THEN disk[p] ELSE None], TRUE)
                \/ UNCHANGED <<shown, crossed, recheck, moved>>
        BY <1>4 DEF Read
    <2>2. c \in SUBSET Partitions
        BY SessionAssumption
    <2>3. CASE Draw(c, [p \in Partitions |-> IF p \in c THEN disk[p] ELSE None], TRUE)
        BY <1>3, <2>1, <2>2, <2>3
    <2>4. CASE UNCHANGED <<shown, crossed, recheck, moved>>
        BY <1>1, <2>1, <2>2, <2>4 DEF recheck
    <2>5. QED
        BY <2>1, <2>3, <2>4
<1>5. CASE Show
    <2>1. room' = room /\ Draw(room, got, recall)
        BY <1>5 DEF Show
    <2>2. QED
        BY <1>2, <1>3, <2>1
<1>6. ASSUME NEW t \in Passes, Pass(t) PROVE IInv'
    <2>1. live' = live /\ room' = room
        BY <1>6 DEF Pass, PassFail, PassSave, PassDone, PassAsk, frame
    <2> DEFINE PassShape == [pc : {"off", "asking", "saving", "saved", "done"},
                             todo : SUBSET Partitions, got : Verdicts]
    <2>2. PICK new \in PassShape :
             /\ pass' = [pass EXCEPT ![t] = new]
             /\ new.pc \in {"asking", "saving", "saved"} => t \in Running
        <3>1. pass[t] \in PassShape
            BY DEF IInv, Shape
        <3>2. CASE PassFail(t)
            <4>1. [Resting EXCEPT !.pc = "done"] \in PassShape
                  /\ [Resting EXCEPT !.pc = "done"].pc = "done"
                BY DEF Resting, Verdicts, Unknown
            <4>2. QED
                BY <3>2, <4>1 DEF PassFail
        <3>3. CASE PassSave(t)
            BY <3>1, <3>3 DEF PassSave, Running, IInv, Shape
        <3>4. CASE PassDone(t)
            BY <3>1, <3>4 DEF PassDone, Running, IInv, Shape
        <3>5. ASSUME NEW p \in Partitions, PassAsk(t, p)
              PROVE  /\ pass'[t] \in PassShape /\ t \in Running
                     /\ pass' = [pass EXCEPT ![t] = pass'[t]]
            <4>1. PICK v \in Verdict :
                     LET left == pass[t].todo \ {p} IN
                     pass' = [pass EXCEPT ![t].todo = left, ![t].got[p] = v,
                                          ![t].pc = IF left = {} THEN "saving" ELSE "asking"]
                BY <3>5 DEF PassAsk
            <4>2. pass' = [pass EXCEPT ![t] = pass'[t]]
                BY <4>1 DEF IInv, Shape
            <4>3. pass'[t].pc \in {"saving", "asking"} /\ pass'[t].todo = pass[t].todo \ {p}
                  /\ pass'[t].got = [pass[t].got EXCEPT ![p] = v]
                BY <3>1, <4>1 DEF IInv, Shape
            <4>4. pass'[t] \in PassShape
                <5>1. pass'[t].got \in Verdicts
                    BY <3>1, <4>3 DEF Verdicts
                <5>2. pass'[t] = [pass[t] EXCEPT !.todo = pass'[t].todo, !.got = pass'[t].got,
                                                 !.pc = pass'[t].pc]
                    BY <3>1, <4>1 DEF IInv, Shape
                <5>3. QED
                    BY <3>1, <4>3, <5>1, <5>2
            <4>5. QED
                BY <3>5, <4>2, <4>4 DEF PassAsk, Running
        <3>6. QED
            BY <1>6, <3>2, <3>3, <3>4, <3>5 DEF Pass
    <2>3. pass' \in [Passes -> PassShape] /\ Running' \subseteq Running
        BY <2>2 DEF IInv, Shape, Running
    <2>4. QED
        BY <2>1, <2>3 DEF IInv, Shape
<1>7. CASE Rest \/ Broken \/ PressR \/ IdleReload \/ MovedReload \/ Quit \/ Over \/ UNCHANGED vars
    BY <1>1, <1>2, <1>7
    DEF Rest, Broken, PressR, IdleReload, MovedReload, Reload, Quit, Over, vars, recheck, frame
<1>8. ASSUME NEW p \in Partitions, ChangeMind(p) \/ Expire(p) \/ Ask(p) PROVE IInv'
    BY <1>1, <1>2, <1>8 DEF ChangeMind, Expire, Ask, recheck, frame
<1>9. QED
    BY <1>4, <1>5, <1>6, <1>7, <1>8 DEF Next

-----------------------------------------------------------------------------
\* However often the reading is asked for again, and whichever recheck the
\* browse has stopped watching, at most one of them is asking.
THEOREM OneAsksAtATime == Spec => []OneRecheck
<1>1. IInv => OneRecheck
    <2> SUFFICES ASSUME IInv PROVE Cardinality(Running) <= 1
        BY DEF OneRecheck
    <2>1. Cardinality({live}) = 1 /\ IsFiniteSet({live})
        BY FS_Singleton
    <2>2. IsFiniteSet(Running) /\ Cardinality(Running) <= Cardinality({live})
        BY <2>1, FS_Subset DEF IInv
    <2>3. QED
        BY <2>1, <2>2, FS_CardinalityType
<1>2. QED
    BY <1>1, Starts, Steps, PTL DEF Spec
-----------------------------------------------------------------------------
(* The order of answers.  A verdict's turn is when it was given; None's is *)
(* before any.                                                             *)

\* What a state's variables hold, and that the frame being asked for has, or is
\* going to ask for, the verdict of each partition with room and of no other.
Typed ==
    /\ TypeOK
    /\ pc = "asking" => Asked(got) \subseteq room /\ room \subseteq Asked(got) \cup missing

\* Nobody holds an answer the control plane has not given yet.
Causal ==
    \A p \in Partitions :
        /\ disk[p].turn <= turn[p] /\ got[p].turn <= turn[p] /\ shown[p].turn <= turn[p]
        /\ \A t \in Passes : pass[t].got[p].turn <= turn[p]

\* What is remembered of a partition is never older than what is on screen, nor
\* is what the next frame has of it; and what that frame has from memory has not
\* become older since.
Ordered ==
    \A p \in Partitions \ crossed :
        /\ p \in Asked(disk) => shown[p].turn <= disk[p].turn
        /\ pc = "asking" /\ p \in Asked(got) => shown[p].turn <= got[p].turn
        /\ pc = "asking" /\ p \in Asked(got) \ missing /\ p \in Asked(disk) =>
              got[p].turn <= disk[p].turn
        /\ ~SavesLand /\ pc = "asking" /\ p \in missing => p \notin Asked(disk)

\* Where what is asked gets written down, nobody has answers that are newer than
\* the ones a recheck has yet to save, unless the frame has asked meanwhile.
Written ==
    \A p \in Partitions \ crossed, t \in Running :
        pass[t].pc # "saved" /\ p \in Asked(pass[t].got) =>
            /\ shown[p].turn <= pass[t].got[p].turn
            /\ disk[p].turn <= pass[t].got[p].turn
            /\ pc = "asking" => got[p].turn <= pass[t].got[p].turn

\* The recheck a browse polls has written its answers down by the time it is
\* done, and so has the one that asked for this reading.
Followed ==
    /\ watching # NoPass => watching = live /\ pc \in {"browsing", "over"}
    /\ watching # NoPass /\ pass[watching].pc \in {"saved", "done"} =>
          \A p \in Asked(pass[watching].got) \cap Asked(disk) :
              disk[p].turn >= pass[watching].got[p].turn
    /\ moved => pc \in {"reading", "asking", "over"}
    /\ moved /\ pc \in {"reading", "asking"} =>
          /\ live \in Passes /\ pass[live].pc = "done"
          /\ \A p \in Asked(pass[live].got) :
                /\ p \in Asked(disk) => disk[p].turn >= pass[live].got[p].turn
                /\ pc = "asking" /\ p \in Asked(got) =>
                      got[p].turn >= pass[live].got[p].turn

\* None is no answer, and comes before every answer.
LEMMA Turns ==
    \A v \in Verdicts, p \in Partitions :
        /\ v[p] \in Verdict \cup {None} /\ v[p].turn \in Int
        /\ (p \in Asked(v)) = (v[p].turn >= 0)
        /\ p \notin Asked(v) => v[p].turn = -1
<1> SUFFICES ASSUME NEW v \in Verdicts, NEW p \in Partitions
             PROVE  /\ v[p] \in Verdict \cup {None} /\ v[p].turn \in Int
                    /\ (p \in Asked(v)) = (v[p].turn >= 0)
                    /\ p \notin Asked(v) => v[p].turn = -1
    OBVIOUS
<1>1. v[p] \in Verdict \cup {None}
    BY DEF Verdicts
<1>2. None.turn = -1
    BY DEF None
<1>3. \A w \in Verdict : w.turn \in 0 .. MaxTurns
    BY DEF Verdict
<1>4. p \in Asked(v) <=> v[p] # None
    BY DEF Asked
<1>5. MaxTurns \in Nat
    BY SessionAssumption
<1>6. CASE v[p] \in Verdict
    <2>1. v[p].turn \in 0 .. MaxTurns /\ v[p] # None
        BY <1>2, <1>3, <1>5, <1>6
    <2>2. QED
        BY <1>1, <1>4, <1>5, <2>1
<1>7. CASE v[p] = None
    BY <1>1, <1>2, <1>4, <1>7
<1>8. QED
    BY <1>1, <1>6, <1>7

\* What is merged has the newer answer wherever there is one.
LEMMA Merging ==
    \A old, new \in Verdicts :
        /\ Merged(old, new) \in Verdicts
        /\ \A p \in Partitions :
              Merged(old, new)[p] = IF p \in Asked(new) THEN new[p] ELSE old[p]
BY DEF Merged, Verdicts, Asked

\* What the control plane says is current, and its mind does not change by it.
LEMMA Answers ==
    \A p \in Partitions, v \in Verdict :
        Typed /\ Answer(p, v) =>
            /\ v # None /\ v.turn = turn[p] /\ v.turn >= 0
            /\ turn' = turn /\ silences' \in 0 .. MaxSilences
<1> SUFFICES ASSUME NEW p \in Partitions, NEW v \in Verdict, Typed, Answer(p, v)
             PROVE  /\ v # None /\ v.turn = turn[p] /\ v.turn >= 0
                    /\ turn' = turn /\ silences' \in 0 .. MaxSilences
    OBVIOUS
<1>1. MaxTurns \in Nat /\ MaxSilences \in Nat
    BY SessionAssumption
<1>2. v.turn \in 0 .. MaxTurns /\ None.turn = -1
    BY DEF Verdict, None
<1>3. v.turn = turn[p] /\ turn' = turn
    BY DEF Answer, control
<1>4. silences' = silences \/ (silences < MaxSilences /\ silences' = silences + 1)
    BY DEF Answer, control
<1>5. silences \in 0 .. MaxSilences
    BY DEF Typed, TypeOK
<1>6. QED
    BY <1>1, <1>2, <1>3, <1>4, <1>5

\* Nothing is asked before a recheck has begun.
LEMMA Fresh ==
    /\ Unknown \in Verdicts /\ Asked(Unknown) = {}
    /\ \A p \in Partitions : Unknown[p] = None /\ Unknown[p].turn = -1
BY DEF Unknown, Verdicts, Asked, None

\* A frame is drawn with a recheck behind it, begun where none runs, or without.
LEMMA Drawn ==
    ASSUME IInv, Typed, NEW c \in SUBSET Partitions, NEW v, NEW remembered, Draw(c, v, remembered)
    PROVE  /\ pc' = "browsing" /\ shown' = v /\ moved' = FALSE /\ rested' = rested
           /\ \/ pass' = pass /\ live' = live /\ watching' = NoPass
              \/ /\ Running = {} /\ live' \in Passes /\ watching' = live'
                 /\ pass' = [pass EXCEPT ![live'] =
                                [pc |-> "asking", todo |-> c, got |-> Unknown]]
<1>1. CASE ~remembered \/ live \in Running \/ ~rested
    BY <1>1 DEF Draw, Begin
<1>2. CASE remembered /\ ~(live \in Running \/ ~rested)
    <2>1. Running = {}
        BY <1>2 DEF IInv
    <2>2. Begin(c)
        BY <1>2 DEF Draw
    <2>3. live' \in Passes
        BY <1>2, <2>1, <2>2, SessionAssumption DEF Begin
    <2>4. QED
        BY <1>2, <2>1, <2>2, <2>3 DEF Draw, Begin
<1>3. QED
    BY <1>1, <1>2

\* A reading takes what is remembered of the partitions with room, and is drawn
\* at once where that leaves no gap.
LEMMA Readings ==
    ASSUME IInv, Typed, Read
    PROVE  \E c \in SUBSET Partitions :
              /\ room' = c /\ turn' = turn /\ silences' = silences /\ disk' = disk
              /\ missing' = c \ Asked(disk) /\ recall' \in BOOLEAN
              /\ got' \in Verdicts
              /\ \A p \in Partitions : got'[p] = IF p \in c THEN disk[p] ELSE None
              /\ \/ /\ c \subseteq Asked(disk) /\ Draw(c, got', TRUE)
                    /\ crossed' = IF live \in Running THEN crossed ELSE {}
                 \/ /\ pc' = "asking" /\ shown' = shown /\ pass' = pass /\ live' = live
                    /\ watching' = watching /\ rested' = rested /\ moved' = moved
                    /\ crossed' = crossed
<1>1. PICK c \in Rooms :
         LET known == [p \in Partitions |-> IF p \in c THEN disk[p] ELSE None] IN
         /\ room' = c
         /\ missing' = c \ Asked(disk)
         /\ recall' = (Asked(disk) # {})
         /\ got' = known
         /\ IF recall' /\ missing' = {}
            THEN /\ Draw(c, known, TRUE)
                 /\ crossed' = IF live \in Running THEN crossed ELSE {}
            ELSE pc' = "asking" /\ UNCHANGED <<shown, crossed, recheck, moved>>
    BY DEF Read
<1>2. c \in SUBSET Partitions
    BY SessionAssumption
<1>3. turn' = turn /\ silences' = silences /\ disk' = disk
    BY DEF Read, control
<1>4. disk \in Verdicts
    BY DEF Typed, TypeOK
<1>5. got' = [p \in Partitions |-> IF p \in c THEN disk[p] ELSE None]
    BY <1>1
<1>6. got' \in Verdicts /\ \A p \in Partitions : got'[p] = IF p \in c THEN disk[p] ELSE None
    BY <1>4, <1>5 DEF Verdicts
<1>7. CASE recall' /\ missing' = {}
    <2>1. Draw(c, got', TRUE) /\ crossed' = IF live \in Running THEN crossed ELSE {}
        BY <1>1, <1>7
    <2>2. c \subseteq Asked(disk)
        BY <1>1, <1>7
    <2>3. QED
        BY <1>1, <1>2, <1>3, <1>6, <2>1, <2>2
<1>8. CASE ~(recall' /\ missing' = {})
    <2>1. pc' = "asking" /\ shown' = shown /\ recheck' = recheck /\ moved' = moved
          /\ crossed' = crossed
        BY <1>1, <1>8
    <2>2. QED
        BY <1>1, <1>2, <1>3, <1>6, <2>1 DEF recheck
<1>9. QED
    BY <1>7, <1>8

\* What the frame asked about itself goes on top of what is remembered, where it
\* can be written.
LEMMA Showing ==
    ASSUME IInv, Typed, Show
    PROVE  /\ pc = "asking" /\ missing \subseteq Asked(got) /\ Asked(got) = room
           /\ Draw(room, got, recall) /\ missing' = {} /\ disk' \in Verdicts
           /\ UNCHANGED <<turn, silences, room, recall, got, crossed>>
           /\ \A p \in Partitions :
                 disk'[p] = IF SavesLand /\ p \in missing THEN got[p] ELSE disk[p]
<1> DEFINE new == [p \in Partitions |-> IF p \in missing THEN got[p] ELSE None]
<1>1. /\ pc = "asking" /\ missing \subseteq Asked(got)
      /\ Draw(room, got, recall) /\ missing' = {}
      /\ UNCHANGED <<turn, silences, room, recall, got, crossed>>
      /\ disk' = IF SavesLand THEN Merged(disk, new) ELSE disk
    BY DEF Show, Save, control
<1>2. Asked(got) = room
    BY <1>1 DEF Typed, TypeOK
<1>3. disk \in Verdicts /\ new \in Verdicts
    BY DEF Typed, TypeOK, Verdicts
<1>4. \A p \in Partitions : p \in Asked(new) <=> p \in missing
    BY <1>1 DEF Asked
<1>5. \A p \in Partitions : Merged(disk, new)[p] = IF p \in missing THEN got[p] ELSE disk[p]
    BY <1>3, <1>4, Merging
<1>6. Merged(disk, new) \in Verdicts
    BY <1>3, Merging
<1> HIDE DEF new
<1>7. QED
    BY <1>1, <1>2, <1>3, <1>5, <1>6

\* Of a verdict that is not returned any more nothing is left.
LEMMA Expiring ==
    ASSUME Typed, NEW p \in Partitions, Expire(p)
    PROVE  /\ UNCHANGED <<control, pc, frame, recheck, moved>>
           /\ disk' \in Verdicts /\ disk'[p] = None
           /\ \A q \in Partitions \ {p} : disk'[q] = disk[q]
           /\ Asked(disk') \subseteq Asked(disk)
           /\ \A q \in Asked(disk') : disk'[q] = disk[q]
BY DEF Expire, Typed, TypeOK, Verdicts, Asked

\* The frame's own answers come in one at a time.
LEMMA Asking ==
    ASSUME Typed, NEW p \in Partitions, Ask(p)
    PROVE  /\ pc = "asking" /\ p \in missing /\ p \in room /\ p \notin Asked(got)
           /\ turn' = turn /\ silences' \in 0 .. MaxSilences
           /\ got' \in Verdicts /\ got'[p] # None /\ got'[p].turn = turn[p]
           /\ \A q \in Partitions \ {p} : got'[q] = got[q]
           /\ crossed' = IF Unsaved(p) THEN crossed \cup {p} ELSE crossed
           /\ UNCHANGED <<disk, pc, room, missing, recall, shown, recheck, moved>>
<1>1. PICK v \in Verdict : Answer(p, v) /\ got' = [got EXCEPT ![p] = v]
    BY DEF Ask
<1>2. v # None /\ v.turn = turn[p] /\ turn' = turn /\ silences' \in 0 .. MaxSilences
    BY <1>1, Answers
<1>3. got \in Verdicts
    BY DEF Typed, TypeOK
<1>4. got' \in Verdicts /\ got'[p] = v /\ \A q \in Partitions \ {p} : got'[q] = got[q]
    BY <1>1, <1>3 DEF Verdicts
<1>5. QED
    BY <1>2, <1>4 DEF Ask, Typed, TypeOK

\* So do a recheck's.
LEMMA PassAsking ==
    ASSUME IInv, Typed, NEW t \in Passes, NEW p \in Partitions, PassAsk(t, p)
    PROVE  /\ t \in Running /\ pass[t].pc = "asking" /\ p \in pass[t].todo
           /\ turn' = turn /\ silences' \in 0 .. MaxSilences
           /\ \A s \in Passes \ {t} : pass'[s] = pass[s]
           /\ pass'[t].pc \in {"asking", "saving"}
           /\ pass'[t].todo = pass[t].todo \ {p}
           /\ pass'[t].got[p] # None /\ pass'[t].got[p].turn = turn[p]
           /\ \A q \in Partitions \ {p} : pass'[t].got[q] = pass[t].got[q]
<1>1. PICK v \in Verdict :
         /\ Answer(p, v)
         /\ LET left == pass[t].todo \ {p} IN
            pass' = [pass EXCEPT ![t].todo = left, ![t].got[p] = v,
                                 ![t].pc = IF left = {} THEN "saving" ELSE "asking"]
    BY DEF PassAsk
<1>2. v # None /\ v.turn = turn[p] /\ turn' = turn /\ silences' \in 0 .. MaxSilences
    BY <1>1, Answers
<1>3. pass[t] \in [pc : {"off", "asking", "saving", "saved", "done"},
                   todo : SUBSET Partitions, got : Verdicts]
    BY DEF IInv, Shape
<1>4. \A s \in Passes \ {t} : pass'[s] = pass[s]
    BY <1>1 DEF IInv, Shape
<1>5. /\ pass'[t].pc \in {"asking", "saving"}
      /\ pass'[t].todo = pass[t].todo \ {p}
      /\ pass'[t].got = [pass[t].got EXCEPT ![p] = v]
    BY <1>1, <1>3 DEF IInv, Shape
<1>6. pass'[t].got[p] = v /\ \A q \in Partitions \ {p} : pass'[t].got[q] = pass[t].got[q]
    BY <1>3, <1>5 DEF Verdicts
<1>7. QED
    BY <1>2, <1>4, <1>5, <1>6 DEF PassAsk, Running

\* The other steps of a recheck: it fails, writes its answers down, and is done.
LEMMA PassSteps ==
    ASSUME IInv, Typed, NEW t \in Passes, PassFail(t) \/ PassSave(t) \/ PassDone(t)
    PROVE  /\ t \in Running /\ turn' = turn /\ silences' \in 0 .. MaxSilences
           /\ \A s \in Passes \ {t} : pass'[s] = pass[s]
           /\ \/ /\ PassFail(t) /\ pass'[t].pc = "done" /\ pass'[t].got = Unknown /\ disk' = disk
              \/ /\ PassSave(t) /\ pass[t].pc = "saving" /\ pass'[t].pc = "saved"
                 /\ pass'[t].got = pass[t].got /\ pass'[t].todo = pass[t].todo
                 /\ disk' = IF SavesLand THEN Merged(disk, pass[t].got) ELSE disk
              \/ /\ PassDone(t) /\ pass[t].pc = "saved" /\ pass'[t].pc = "done"
                 /\ pass'[t].got = pass[t].got /\ disk' = disk
<1>1. pass[t] \in [pc : {"off", "asking", "saving", "saved", "done"},
                   todo : SUBSET Partitions, got : Verdicts]
    BY DEF IInv, Shape
<1>2. silences \in 0 .. MaxSilences /\ MaxSilences \in Nat
    BY SessionAssumption DEF Typed, TypeOK
<1>3. CASE PassFail(t)
    <2>1. silences' \in 0 .. MaxSilences
        BY <1>2, <1>3 DEF PassFail
    <2>2. [Resting EXCEPT !.pc = "done"].pc = "done" /\ [Resting EXCEPT !.pc = "done"].got = Unknown
        BY DEF Resting
    <2>3. pass' = [pass EXCEPT ![t] = [Resting EXCEPT !.pc = "done"]]
        BY <1>3 DEF PassFail
    <2>4. pass'[t].pc = "done" /\ pass'[t].got = Unknown /\ \A s \in Passes \ {t} : pass'[s] = pass[s]
        BY <2>2, <2>3 DEF IInv, Shape
    <2>5. QED
        BY <1>3, <2>1, <2>4 DEF PassFail, Running
<1>4. CASE PassSave(t)
    <2>1. pass' = [pass EXCEPT ![t].pc = "saved"]
        BY <1>4 DEF PassSave
    <2>2. /\ pass'[t].pc = "saved" /\ pass'[t].got = pass[t].got /\ pass'[t].todo = pass[t].todo
          /\ \A s \in Passes \ {t} : pass'[s] = pass[s]
        BY <1>1, <2>1 DEF IInv, Shape
    <2>3. QED
        BY <1>2, <1>4, <2>2 DEF PassSave, Save, Running, control
<1>5. CASE PassDone(t)
    <2>1. pass' = [pass EXCEPT ![t].pc = "done"]
        BY <1>5 DEF PassDone
    <2>2. /\ pass'[t].pc = "done" /\ pass'[t].got = pass[t].got
          /\ \A s \in Passes \ {t} : pass'[s] = pass[s]
        BY <1>1, <2>1 DEF IInv, Shape
    <2>3. QED
        BY <1>2, <1>5, <2>2 DEF PassDone, Running, control
<1>6. QED
    BY <1>3, <1>4, <1>5

-----------------------------------------------------------------------------
\* The session starts with what is on disk and nothing on screen.
LEMMA StartsTyped == Init => Typed
<1> SUFFICES ASSUME Init PROVE Typed
    OBVIOUS
<1>1. MaxTurns \in Nat /\ MaxSilences \in Nat
    BY SessionAssumption
<1>2. \A n \in 0 .. MaxTurns : [says |-> Mind(n), turn |-> n] \in Verdict
    BY DEF Mind, Verdict
<1>3. disk \in Verdicts
    BY <1>2 DEF Init, Verdicts
<1>4. Asked(shown) = {} /\ got \in Verdicts /\ shown \in Verdicts
    BY Fresh DEF Init
<1>5. pass \in [Passes -> [pc : {"off", "asking", "saving", "saved", "done"},
                           todo : SUBSET Partitions, got : Verdicts]]
    BY Starts DEF IInv, Shape
<1>6. silences \in 0 .. MaxSilences
    BY <1>1 DEF Init
<1>7. TypeOK
    BY <1>3, <1>4, <1>5, <1>6 DEF Init, TypeOK
<1>8. QED
    BY <1>7 DEF Typed, Init

\* And keeps its types, whatever happens.
LEMMA TypedSteps == IInv /\ Typed /\ [Next]_vars => Typed'
<1> SUFFICES ASSUME IInv, Typed, [Next]_vars PROVE Typed'
    OBVIOUS
<1>1. MaxTurns \in Nat /\ MaxSilences \in Nat
    BY SessionAssumption
<1>2. IInv'
    BY Steps
<1>3. /\ pass' \in [Passes -> [pc : {"off", "asking", "saving", "saved", "done"},
                              todo : SUBSET Partitions, got : Verdicts]]
      /\ live' \in Passes \cup {NoPass} /\ room' \in SUBSET Partitions
    BY <1>2 DEF IInv, Shape
<1>4. ASSUME UNCHANGED <<got, shown, room, missing, crossed>>, turn' = turn, silences' \in 0 .. MaxSilences,
             pc' = pc, disk' \in Verdicts, UNCHANGED <<live, watching, recall, moved>>,
             rested' \in BOOLEAN
      PROVE  Typed'
    BY <1>3, <1>4 DEF Typed, TypeOK, Asked
<1>5. disk \in Verdicts /\ got \in Verdicts /\ shown \in Verdicts
    BY DEF Typed, TypeOK
<1>6. CASE Read
    <2>1. PICK c \in SUBSET Partitions :
             /\ room' = c /\ turn' = turn /\ silences' = silences /\ disk' = disk
             /\ missing' = c \ Asked(disk) /\ recall' \in BOOLEAN
             /\ got' \in Verdicts
             /\ \A p \in Partitions : got'[p] = IF p \in c THEN disk[p] ELSE None
             /\ \/ /\ c \subseteq Asked(disk) /\ Draw(c, got', TRUE)
                   /\ crossed' = IF live \in Running THEN crossed ELSE {}
                \/ /\ pc' = "asking" /\ shown' = shown /\ pass' = pass /\ live' = live
                   /\ watching' = watching /\ rested' = rested /\ moved' = moved
                   /\ crossed' = crossed
        BY <1>6, Readings
    <2>2. /\ Asked(got)' \subseteq room' /\ room' \subseteq Asked(got)' \cup missing'
          /\ missing' \subseteq room' /\ crossed' \subseteq Partitions
        BY <2>1 DEF Asked, Typed, TypeOK
    <2>3. CASE c \subseteq Asked(disk) /\ Draw(c, got', TRUE)
        <3>1. /\ pc' = "browsing" /\ shown' = got' /\ moved' = FALSE /\ rested' = rested
              /\ watching' \in {NoPass, live'}
            BY <2>1, <2>3, Drawn
        <3>2. \A p \in Partitions : shown'[p] = IF p \in c THEN disk[p] ELSE None
            BY <2>1, <3>1
        <3>3. Asked(shown)' = room'
            BY <2>1, <2>3, <3>2 DEF Asked
        <3>4. QED
            BY <1>3, <2>1, <2>2, <3>1, <3>3 DEF Typed, TypeOK
    <2>4. CASE pc' = "asking" /\ shown' = shown /\ pass' = pass /\ live' = live
               /\ watching' = watching /\ rested' = rested /\ moved' = moved
        BY <1>3, <2>1, <2>2, <2>4 DEF Typed, TypeOK
    <2>5. QED
        BY <2>1, <2>3, <2>4
<1>7. CASE Show
    <2>1. /\ Draw(room, got, recall) /\ Asked(got) = room /\ missing' = {} /\ disk' \in Verdicts
          /\ UNCHANGED <<turn, silences, room, recall, got, crossed>>
        BY <1>7, Showing
    <2>2. room \in SUBSET Partitions
        BY DEF IInv, Shape
    <2>3. /\ pc' = "browsing" /\ shown' = got /\ moved' = FALSE /\ rested' = rested
          /\ watching' \in {NoPass, live'}
        BY <2>1, <2>2, Drawn
    <2>4. Asked(shown)' = room'
        BY <2>1, <2>3 DEF Asked
    <2>5. QED
        BY <1>3, <2>1, <2>3, <2>4 DEF Typed, TypeOK
<1>8. ASSUME NEW p \in Partitions, Ask(p) PROVE Typed'
    <2>1. /\ pc = "asking" /\ p \in room
          /\ turn' = turn /\ silences' \in 0 .. MaxSilences
          /\ got' \in Verdicts
          /\ \A q \in Partitions \ {p} : got'[q] = got[q]
          /\ got'[p] # None /\ crossed' \in {crossed, crossed \cup {p}}
          /\ UNCHANGED <<disk, pc, room, missing, recall, shown, recheck, moved>>
        BY <1>8, Asking
    <2>2. Asked(got)' \subseteq room' /\ Asked(got) \subseteq Asked(got)'
        BY <2>1 DEF Typed, Asked
    <2>3. QED
        BY <1>3, <2>1, <2>2 DEF Typed, TypeOK, recheck, Asked
<1>9. ASSUME NEW t \in Passes, Pass(t) PROVE Typed'
    <2>1. pass[t].got \in Verdicts
        BY DEF IInv, Shape
    <2>2. UNCHANGED <<pc, frame, live, watching, moved>> /\ rested' \in BOOLEAN
        BY <1>9 DEF Pass, PassFail, PassSave, PassDone, PassAsk, Typed, TypeOK
    <2>3. CASE PassFail(t) \/ PassSave(t) \/ PassDone(t)
        <3>1. turn' = turn /\ silences' \in 0 .. MaxSilences
              /\ (disk' = disk \/ disk' = Merged(disk, pass[t].got))
            BY <2>3, PassSteps
        <3>2. disk' \in Verdicts
            BY <1>5, <2>1, <3>1, Merging
        <3>3. QED
            BY <1>4, <2>2, <3>1, <3>2 DEF frame
    <2>4. ASSUME NEW p \in Partitions, PassAsk(t, p) PROVE Typed'
        <3>1. turn' = turn /\ silences' \in 0 .. MaxSilences
            BY <2>4, PassAsking
        <3>2. disk' = disk
            BY <2>4 DEF PassAsk
        <3>3. QED
            BY <1>4, <1>5, <2>2, <3>1, <3>2 DEF frame
    <2>5. QED
        BY <1>9, <2>3, <2>4 DEF Pass
<1>10. CASE Rest \/ Over \/ UNCHANGED vars
    <2>1. silences \in 0 .. MaxSilences /\ rested \in BOOLEAN
        BY DEF Typed, TypeOK
    <2>2. QED
        BY <1>4, <1>5, <1>10, <2>1 DEF Rest, Over, vars, control, frame, recheck
<1>11. CASE Broken \/ PressR \/ IdleReload \/ MovedReload \/ Quit
    BY <1>3, <1>11
    DEF Broken, PressR, IdleReload, MovedReload, Reload, Quit, control, frame, recheck, Typed, TypeOK
<1>12. ASSUME NEW p \in Partitions, ChangeMind(p) PROVE Typed'
    <2>1. turn' \in [Partitions -> 0 .. MaxTurns]
        BY <1>1, <1>12 DEF ChangeMind, Typed, TypeOK
    <2>2. QED
        BY <1>3, <1>12, <2>1 DEF ChangeMind, Typed, TypeOK, frame, recheck, Asked
<1>13. ASSUME NEW p \in Partitions, Expire(p) PROVE Typed'
    <2>1. UNCHANGED <<control, pc, frame, recheck, moved>> /\ disk' \in Verdicts
        BY <1>13, Expiring
    <2>2. silences' \in 0 .. MaxSilences /\ rested' \in BOOLEAN
        BY <2>1 DEF control, recheck, Typed, TypeOK
    <2>3. QED
        BY <1>4, <2>1, <2>2 DEF control, frame, recheck
<1>14. QED
    BY <1>6, <1>7, <1>8, <1>9, <1>10, <1>11, <1>12, <1>13 DEF Next

\* Answers are as old as the mind they tell of.
LEMMA CausalSteps == IInv /\ Typed /\ Causal /\ [Next]_vars => Causal'
<1> SUFFICES ASSUME IInv, Typed, Causal, [Next]_vars PROVE Causal'
    OBVIOUS
<1>1. /\ disk \in Verdicts /\ got \in Verdicts /\ shown \in Verdicts /\ Unknown \in Verdicts
      /\ \A t \in Passes : pass[t].got \in Verdicts
    BY Fresh DEF IInv, Shape, Typed, TypeOK
<1>2. \A p \in Partitions : turn[p] \in Int /\ turn[p] >= 0
    BY SessionAssumption DEF Typed, TypeOK
<1>3. ASSUME UNCHANGED <<turn, disk, got, shown, pass>> PROVE Causal'
    BY <1>3 DEF Causal
<1>4. ASSUME NEW c \in SUBSET Partitions, NEW v, NEW remembered, Draw(c, v, remembered),
             turn' = turn,
             \A p \in Partitions : v[p].turn <= turn[p] /\ disk'[p].turn <= turn[p]
                                   /\ got'[p].turn <= turn[p]
      PROVE  Causal'
    <2>1. /\ shown' = v
          /\ \/ pass' = pass
             \/ live' \in Passes
                /\ pass' = [pass EXCEPT ![live'] =
                               [pc |-> "asking", todo |-> c, got |-> Unknown]]
        BY <1>4, Drawn
    <2>2. \A t \in Passes : pass'[t].got = pass[t].got \/ pass'[t].got = Unknown
        BY <2>1 DEF IInv, Shape
    <2>3. \A p \in Partitions, t \in Passes : pass'[t].got[p].turn <= turn[p]
        BY <1>2, <2>2, Fresh DEF Causal
    <2>4. QED
        BY <1>4, <2>1, <2>3 DEF Causal
<1>5. CASE Read
    <2>1. PICK c \in SUBSET Partitions :
             /\ turn' = turn /\ disk' = disk
             /\ \A p \in Partitions : got'[p] = IF p \in c THEN disk[p] ELSE None
             /\ \/ Draw(c, got', TRUE)
                \/ shown' = shown /\ pass' = pass
        BY <1>5, Readings
    <2>2. \A p \in Partitions : got'[p].turn <= turn[p]
        BY <1>1, <1>2, <2>1 DEF Causal, None
    <2>3. QED
        BY <1>4, <2>1, <2>2 DEF Causal
<1>6. CASE Show
    <2>1. /\ Draw(room, got, recall) /\ turn' = turn /\ got' = got
          /\ \A p \in Partitions : disk'[p] = disk[p] \/ disk'[p] = got[p]
        BY <1>6, Showing
    <2>2. QED
        BY <1>4, <2>1 DEF Causal, IInv, Shape
<1>7. ASSUME NEW p \in Partitions, Ask(p) PROVE Causal'
    <2>1. /\ turn' = turn /\ got'[p].turn = turn[p]
          /\ \A q \in Partitions \ {p} : got'[q] = got[q]
        BY <1>7, Asking
    <2>2. disk' = disk /\ shown' = shown /\ pass' = pass
        BY <1>7 DEF Ask, recheck
    <2>3. \A q \in Partitions : got'[q].turn <= turn[q]
        BY <1>2, <2>1 DEF Causal
    <2>4. QED
        BY <2>1, <2>2, <2>3 DEF Causal
<1>8. ASSUME NEW t \in Passes, Pass(t) PROVE Causal'
    <2>1. got' = got /\ shown' = shown
        BY <1>8 DEF Pass, PassFail, PassSave, PassDone, PassAsk, frame
    <2>2. CASE PassFail(t) \/ PassSave(t) \/ PassDone(t)
        <3>1. /\ turn' = turn
              /\ \A s \in Passes \ {t} : pass'[s] = pass[s]
              /\ (pass'[t].got = Unknown \/ pass'[t].got = pass[t].got)
              /\ (disk' = disk \/ disk' = Merged(disk, pass[t].got))
            BY <2>2, PassSteps
        <3>2. \A p \in Partitions : disk'[p] = disk[p] \/ disk'[p] = pass[t].got[p]
            BY <1>1, <3>1, Merging
        <3>3. \A p \in Partitions, s \in Passes :
                 pass'[s].got[p].turn = pass[s].got[p].turn \/ pass'[s].got[p].turn = -1
            BY <3>1, Fresh
        <3>4. \A p \in Partitions, s \in Passes : pass'[s].got[p].turn <= turn[p]
            BY <1>2, <3>3 DEF Causal
        <3>5. QED
            BY <2>1, <3>1, <3>2, <3>4 DEF Causal
    <2>3. ASSUME NEW p \in Partitions, PassAsk(t, p) PROVE Causal'
        <3>1. /\ turn' = turn
              /\ \A s \in Passes \ {t} : pass'[s] = pass[s]
              /\ pass'[t].got[p].turn = turn[p]
              /\ \A q \in Partitions \ {p} : pass'[t].got[q] = pass[t].got[q]
            BY <2>3, PassAsking
        <3>2. disk' = disk
            BY <2>3 DEF PassAsk
        <3>3. \A q \in Partitions, s \in Passes : pass'[s].got[q].turn <= turn[q]
            BY <1>2, <3>1 DEF Causal
        <3>4. QED
            BY <2>1, <3>1, <3>2, <3>3 DEF Causal
    <2>4. QED
        BY <1>8, <2>2, <2>3 DEF Pass
<1>9. CASE Rest \/ Broken \/ PressR \/ IdleReload \/ MovedReload \/ Quit \/ Over \/ UNCHANGED vars
    BY <1>3, <1>9
    DEF Rest, Broken, PressR, IdleReload, MovedReload, Reload, Quit, Over, vars, recheck, frame, control
<1>10. ASSUME NEW p \in Partitions, ChangeMind(p) PROVE Causal'
    <2>1. /\ UNCHANGED <<disk, got, shown, pass>>
          /\ \A q \in Partitions : turn'[q] = turn[q] \/ turn'[q] = turn[q] + 1
        BY <1>10 DEF ChangeMind, frame, recheck, Typed, TypeOK
    <2>2. \A q \in Partitions, v \in Verdicts : v[q].turn <= turn[q] => v[q].turn <= turn'[q]
        BY <1>2, <2>1, Turns
    <2>3. QED
        BY <1>1, <2>1, <2>2 DEF Causal
<1>11. ASSUME NEW p \in Partitions, Expire(p) PROVE Causal'
    <2>1. /\ UNCHANGED <<turn, got, shown, pass>>
          /\ \A q \in Partitions : disk'[q] = disk[q] \/ disk'[q] = None
        BY <1>11, Expiring DEF control, frame, recheck
    <2>2. \A q \in Partitions : disk'[q].turn <= turn[q]
        BY <1>2, <2>1 DEF Causal, None
    <2>3. QED
        BY <2>1, <2>2 DEF Causal
<1>12. QED
    BY <1>5, <1>6, <1>7, <1>8, <1>9, <1>10, <1>11 DEF Next

\* What is remembered keeps up with the screen, where it can be written.
LEMMA OrderedSteps ==
    IInv /\ Typed /\ Causal /\ Ordered /\ (SavesLand => Written) /\ [Next]_vars => Ordered'
<1> SUFFICES ASSUME IInv, Typed, Causal, Ordered, SavesLand => Written, [Next]_vars
             PROVE  Ordered'
    OBVIOUS
<1>1. /\ disk \in Verdicts /\ got \in Verdicts /\ shown \in Verdicts
      /\ \A t \in Passes : pass[t].got \in Verdicts
    BY DEF IInv, Shape, Typed, TypeOK
<1>2. \A p \in Partitions : turn[p] \in Int /\ turn[p] >= 0
    BY SessionAssumption DEF Typed, TypeOK
<1>3. ASSUME UNCHANGED <<disk, got, shown, missing, crossed>>, pc' = "asking" => pc = "asking"
      PROVE  Ordered'
    BY <1>3 DEF Ordered, Asked
<1>4. CASE Read
    <2>1. PICK c \in SUBSET Partitions :
             /\ disk' = disk /\ missing' = c \ Asked(disk)
             /\ \A p \in Partitions : got'[p] = IF p \in c THEN disk[p] ELSE None
             /\ \/ Draw(c, got', TRUE)
                \/ pc' = "asking" /\ shown' = shown /\ crossed' = crossed
        BY <1>4, Readings
    <2>2. \A p \in Partitions : p \in Asked(disk) => got'[p].turn <= disk[p].turn
        BY <1>1, <2>1, Turns DEF None
    <2>3. CASE Draw(c, got', TRUE)
        <3>1. pc' = "browsing" /\ shown' = got'
            BY <2>3, Drawn
        <3>2. QED
            BY <2>1, <2>2, <3>1 DEF Ordered
    <2>4. CASE pc' = "asking" /\ shown' = shown /\ crossed' = crossed
        <3>1. \A p \in Partitions : p \in Asked(got') => p \in Asked(disk) /\ got'[p] = disk[p]
            BY <2>1 DEF Asked
        <3>2. \A p \in Partitions : p \in missing' => p \notin Asked(disk')
            BY <2>1
        <3>3. QED
            BY <2>1, <2>2, <2>4, <3>1, <3>2 DEF Ordered
    <2>5. QED
        BY <2>1, <2>3, <2>4
<1>5. CASE Show
    <2>1. /\ Draw(room, got, recall) /\ pc = "asking" /\ crossed' = crossed
          /\ \A p \in Partitions :
                disk'[p] = IF SavesLand /\ p \in missing THEN got[p] ELSE disk[p]
        BY <1>5, Showing
    <2>2. pc' = "browsing" /\ shown' = got
        BY <2>1, Drawn DEF IInv, Shape
    <2>3. ASSUME NEW p \in Partitions \ crossed, p \in Asked(disk')
          PROVE  got[p].turn <= disk'[p].turn
        <3>1. got[p].turn \in Int /\ disk[p].turn \in Int /\ disk[p].turn >= -1
            BY <1>1, Turns
        <3>2. CASE SavesLand /\ p \in missing
            BY <2>1, <3>1, <3>2
        <3>3. CASE ~(SavesLand /\ p \in missing)
            <4>1. p \in Asked(disk) /\ disk'[p] = disk[p] /\ p \notin missing
                BY <2>1, <2>3, <3>3 DEF Ordered, Asked
            <4>2. CASE p \in Asked(got)
                BY <2>1, <4>1, <4>2 DEF Ordered
            <4>3. CASE p \notin Asked(got)
                BY <1>1, <3>1, <4>1, <4>3, Turns
            <4>4. QED
                BY <4>2, <4>3
        <3>4. QED
            BY <3>2, <3>3
    <2>4. QED
        BY <2>1, <2>2, <2>3 DEF Ordered
<1>6. ASSUME NEW p \in Partitions, Ask(p) PROVE Ordered'
    <2>1. /\ pc = "asking" /\ p \in missing /\ p \notin Asked(got) /\ got'[p].turn = turn[p]
          /\ \A q \in Partitions \ {p} : got'[q] = got[q]
          /\ crossed \subseteq crossed'
          /\ disk' = disk /\ shown' = shown /\ pc' = pc /\ missing' = missing
        BY <1>6, Asking
    <2>2. shown[p].turn <= got'[p].turn
        BY <1>1, <2>1, Turns DEF Causal
    <2>3. \A q \in Partitions \ {p} : q \in Asked(got') <=> q \in Asked(got)
        BY <2>1 DEF Asked
    <2>4. QED
        BY <2>1, <2>2, <2>3 DEF Ordered
<1>7. ASSUME NEW t \in Passes, Pass(t) PROVE Ordered'
    <2>1. UNCHANGED <<got, shown, missing, crossed, pc>>
        BY <1>7 DEF Pass, PassFail, PassSave, PassDone, PassAsk, frame
    <2>2. CASE disk' = disk
        BY <1>3, <2>1, <2>2
    <2>3. CASE PassSave(t) /\ SavesLand
        <3>1. t \in Running /\ pass[t].pc = "saving" /\ disk' = Merged(disk, pass[t].got)
            BY <2>3 DEF PassSave, Save, Running
        <3>2. \A p \in Partitions \ crossed :
                 p \in Asked(pass[t].got) =>
                     /\ shown[p].turn <= pass[t].got[p].turn
                     /\ pc = "asking" => got[p].turn <= pass[t].got[p].turn
            BY <2>3, <3>1 DEF Written
        <3>3. \A p \in Partitions :
                 disk'[p] = IF p \in Asked(pass[t].got) THEN pass[t].got[p] ELSE disk[p]
            BY <1>1, <3>1, Merging
        <3>4. \A p \in Partitions :
                 p \in Asked(disk') => p \in Asked(pass[t].got) \/ p \in Asked(disk)
            BY <3>3 DEF Asked
        <3>5. QED
            BY <2>1, <2>3, <3>2, <3>3, <3>4 DEF Ordered
    <2>4. QED
        BY <1>7, <2>2, <2>3 DEF Pass, PassFail, PassSave, PassDone, PassAsk, Save
<1>8. CASE Rest \/ Broken \/ PressR \/ IdleReload \/ MovedReload \/ Quit \/ Over \/ UNCHANGED vars
    BY <1>3, <1>8
    DEF Rest, Broken, PressR, IdleReload, MovedReload, Reload, Quit, Over, vars, frame, control
<1>9. ASSUME NEW p \in Partitions, ChangeMind(p) PROVE Ordered'
    BY <1>3, <1>9 DEF ChangeMind, frame
<1>10. ASSUME NEW p \in Partitions, Expire(p) PROVE Ordered'
    <2>1. /\ UNCHANGED <<got, shown, missing, crossed, pc>>
          /\ Asked(disk') \subseteq Asked(disk)
          /\ \A q \in Asked(disk') : disk'[q] = disk[q]
        BY <1>10, Expiring DEF frame
    <2>2. QED
        BY <2>1 DEF Ordered
<1>11. QED
    BY <1>4, <1>5, <1>6, <1>7, <1>8, <1>9, <1>10 DEF Next

\* A recheck is ahead of everybody until it has written down what it heard,
\* about all but what the frame has asked itself in the meantime.
LEMMA WrittenSteps ==
    SavesLand /\ IInv /\ Typed /\ Causal /\ Ordered /\ Written /\ [Next]_vars => Written'
<1> SUFFICES ASSUME SavesLand, IInv, Typed, Causal, Ordered, Written, [Next]_vars
             PROVE  Written'
    OBVIOUS
<1>1. /\ disk \in Verdicts /\ got \in Verdicts /\ shown \in Verdicts
      /\ \A t \in Passes : pass[t].got \in Verdicts
    BY DEF IInv, Shape, Typed, TypeOK
<1>2. \A p \in Partitions : turn[p] \in Int /\ turn[p] >= 0
    BY SessionAssumption DEF Typed, TypeOK
<1>3. ASSUME UNCHANGED <<disk, got, shown, pass, crossed>>, pc' = "asking" => pc = "asking"
      PROVE  Written'
    BY <1>3 DEF Written, Asked, Running
<1>4. \A p \in Partitions, t \in Running :
         p \in Asked(pass[t].got) => pass[t].got[p].turn \in Int /\ pass[t].got[p].turn >= 0
    BY <1>1, Turns DEF Running
<1>5. ASSUME NEW c \in SUBSET Partitions, NEW v, NEW remembered, Draw(c, v, remembered),
             Running # {} => crossed' = crossed,
             \A p \in Partitions \ crossed, t \in Running :
                 pass[t].pc # "saved" /\ p \in Asked(pass[t].got) =>
                     /\ v[p].turn <= pass[t].got[p].turn
                     /\ disk'[p].turn <= pass[t].got[p].turn
      PROVE  Written'
    <2>1. /\ pc' = "browsing" /\ shown' = v
          /\ \/ pass' = pass
             \/ /\ Running = {} /\ live' \in Passes
                /\ pass' = [pass EXCEPT ![live'] =
                               [pc |-> "asking", todo |-> c, got |-> Unknown]]
        BY <1>5, Drawn
    <2>2. CASE pass' = pass
        BY <1>5, <2>1, <2>2 DEF Written, Asked, Running
    <2>3. CASE Running = {} /\ live' \in Passes
               /\ pass' = [pass EXCEPT ![live'] =
                              [pc |-> "asking", todo |-> c, got |-> Unknown]]
        <3>1. \A t \in Running' : pass'[t].got = Unknown
            BY <2>3 DEF Running, IInv, Shape
        <3>2. QED
            BY <3>1, Fresh DEF Written
    <2>4. QED
        BY <2>1, <2>2, <2>3
<1>6. CASE Read
    <2>1. PICK c \in SUBSET Partitions :
             /\ disk' = disk
             /\ \A p \in Partitions : got'[p] = IF p \in c THEN disk[p] ELSE None
             /\ \/ /\ Draw(c, got', TRUE)
                   /\ crossed' = IF live \in Running THEN crossed ELSE {}
                \/ pc' = "asking" /\ shown' = shown /\ pass' = pass /\ crossed' = crossed
        BY <1>6, Readings
    <2>2. \A p \in Partitions : got'[p].turn = disk[p].turn \/ got'[p].turn = -1
        BY <2>1 DEF None
    <2>3. \A p \in Partitions \ crossed, t \in Running :
             pass[t].pc # "saved" /\ p \in Asked(pass[t].got) =>
                 got'[p].turn <= pass[t].got[p].turn
        BY <1>4, <2>2 DEF Written
    <2>4. CASE Draw(c, got', TRUE) /\ crossed' = IF live \in Running THEN crossed ELSE {}
        <3>1. Running # {} => crossed' = crossed
            BY <2>4 DEF IInv
        <3>2. QED
            BY <1>5, <2>1, <2>3, <2>4, <3>1 DEF Written
    <2>5. CASE pc' = "asking" /\ shown' = shown /\ pass' = pass /\ crossed' = crossed
        BY <2>1, <2>3, <2>5 DEF Written, Asked, Running
    <2>6. QED
        BY <2>1, <2>4, <2>5
<1>7. CASE Show
    <2>1. /\ Draw(room, got, recall) /\ pc = "asking" /\ crossed' = crossed
          /\ \A p \in Partitions : disk'[p] = got[p] \/ disk'[p] = disk[p]
        BY <1>7, Showing
    <2>2. room \in SUBSET Partitions
        BY DEF IInv, Shape
    <2>3. \A p \in Partitions \ crossed, t \in Running :
             pass[t].pc # "saved" /\ p \in Asked(pass[t].got) =>
                 /\ got[p].turn <= pass[t].got[p].turn
                 /\ disk'[p].turn <= pass[t].got[p].turn
        BY <2>1 DEF Written
    <2>4. QED
        BY <1>5, <2>1, <2>2, <2>3
<1>8. ASSUME NEW p \in Partitions, Ask(p) PROVE Written'
    <2>1. /\ \A q \in Partitions \ {p} : got'[q] = got[q]
          /\ crossed' = IF Unsaved(p) THEN crossed \cup {p} ELSE crossed
          /\ disk' = disk /\ shown' = shown /\ pc' = pc /\ pass' = pass
        BY <1>8, Asking DEF recheck
    <2>2. p \in crossed' \/ \A t \in Running :
             pass[t].pc = "saved" \/ p \notin Asked(pass[t].got)
        BY <2>1 DEF Unsaved, Running
    <2>3. crossed \subseteq crossed'
        BY <2>1
    <2>4. \A q \in Partitions \ crossed', t \in Running :
             pass[t].pc # "saved" /\ q \in Asked(pass[t].got) /\ pc = "asking" =>
                 got'[q].turn <= pass[t].got[q].turn
        BY <2>1, <2>2, <2>3 DEF Written
    <2>5. QED
        BY <2>1, <2>3, <2>4 DEF Written, Asked, Running
<1>9. ASSUME NEW t \in Passes, Pass(t) PROVE Written'
    <2>1. got' = got /\ shown' = shown /\ pc' = pc /\ crossed' = crossed
        BY <1>9 DEF Pass, PassFail, PassSave, PassDone, PassAsk, frame
    <2>2. CASE PassFail(t) \/ PassSave(t) \/ PassDone(t)
        <3>1. /\ t \in Running /\ \A s \in Passes \ {t} : pass'[s] = pass[s]
              /\ pass'[t].pc \in {"done", "saved"}
            BY <2>2, PassSteps
        <3>2. Running \subseteq {t}
            BY <3>1 DEF IInv
        <3>3. \A s \in Running' : s = t /\ pass'[s].pc = "saved"
            BY <3>1, <3>2 DEF Running
        <3>4. QED
            BY <3>3 DEF Written
    <2>3. ASSUME NEW p \in Partitions, PassAsk(t, p) PROVE Written'
        <3>1. /\ t \in Running /\ pass[t].pc = "asking"
              /\ \A s \in Passes \ {t} : pass'[s] = pass[s]
              /\ pass'[t].got[p].turn = turn[p]
              /\ \A q \in Partitions \ {p} : pass'[t].got[q] = pass[t].got[q]
            BY <2>3, PassAsking
        <3>2. disk' = disk
            BY <2>3 DEF PassAsk
        <3>3. \A s \in Running' : s = t
            BY <3>1 DEF Running, IInv
        <3>4. ASSUME NEW q \in Partitions \ crossed, q \in Asked(pass'[t].got)
              PROVE  /\ shown[q].turn <= pass'[t].got[q].turn
                     /\ disk[q].turn <= pass'[t].got[q].turn
                     /\ pc = "asking" => got[q].turn <= pass'[t].got[q].turn
            <4>1. CASE q = p
                BY <3>1, <4>1 DEF Causal
            <4>2. CASE q # p
                <5>1. q \in Asked(pass[t].got) /\ pass'[t].got[q] = pass[t].got[q]
                    BY <3>1, <3>4, <4>2 DEF Asked
                <5>2. QED
                    BY <3>1, <5>1 DEF Written
            <4>3. QED
                BY <4>1, <4>2
        <3>5. QED
            BY <2>1, <3>2, <3>3, <3>4 DEF Written, Asked
    <2>4. QED
        BY <1>9, <2>2, <2>3 DEF Pass
<1>10. CASE Rest \/ Broken \/ PressR \/ IdleReload \/ MovedReload \/ Quit \/ Over \/ UNCHANGED vars
    BY <1>3, <1>10
    DEF Rest, Broken, PressR, IdleReload, MovedReload, Reload, Quit, Over, vars, frame, recheck
<1>11. ASSUME NEW p \in Partitions, ChangeMind(p) PROVE Written'
    BY <1>3, <1>11 DEF ChangeMind, frame, recheck
<1>12. ASSUME NEW p \in Partitions, Expire(p) PROVE Written'
    <2>1. /\ UNCHANGED <<got, shown, pass, crossed, pc>>
          /\ \A q \in Partitions : disk'[q] = disk[q] \/ disk'[q].turn = -1
        BY <1>12, Expiring DEF frame, recheck, None
    <2>2. \A q \in Partitions \ crossed, t \in Running :
             pass[t].pc # "saved" /\ q \in Asked(pass[t].got) =>
                 disk'[q].turn <= pass[t].got[q].turn
        BY <1>4, <2>1 DEF Written
    <2>3. QED
        BY <2>1, <2>2 DEF Written, Asked, Running
<1>13. QED
    BY <1>3, <1>6, <1>7, <1>8, <1>9, <1>10, <1>11, <1>12 DEF Next

\* What a browse waits for is on disk before it is told.
LEMMA FollowedSteps ==
    SavesLand /\ IInv /\ Typed /\ Causal /\ Followed /\ [Next]_vars => Followed'
<1> SUFFICES ASSUME SavesLand, IInv, Typed, Causal, Followed, [Next]_vars PROVE Followed'
    OBVIOUS
<1>1. /\ disk \in Verdicts /\ got \in Verdicts
      /\ \A t \in Passes : pass[t].got \in Verdicts
      /\ live \in Passes \cup {NoPass} /\ NoPass \notin Passes
    BY SessionAssumption DEF IInv, Shape, Typed, TypeOK
<1>2. ASSUME NEW c \in SUBSET Partitions, NEW v, NEW remembered, Draw(c, v, remembered)
      PROVE  Followed'
    <2>1. /\ pc' = "browsing" /\ moved' = FALSE
          /\ \/ watching' = NoPass
             \/ /\ live' \in Passes /\ watching' = live'
                /\ pass' = [pass EXCEPT ![live'] =
                               [pc |-> "asking", todo |-> c, got |-> Unknown]]
        BY <1>2, Drawn
    <2>2. watching' # NoPass => watching' = live' /\ pass'[live'].pc = "asking"
        BY <2>1 DEF IInv, Shape
    <2>3. QED
        BY <2>1, <2>2 DEF Followed
<1>3. CASE Read
    <2>1. PICK c \in SUBSET Partitions :
             /\ disk' = disk
             /\ \A p \in Partitions : got'[p] = IF p \in c THEN disk[p] ELSE None
             /\ \/ Draw(c, got', TRUE)
                \/ /\ pc' = "asking" /\ pass' = pass /\ live' = live
                   /\ watching' = watching /\ moved' = moved
        BY <1>3, Readings
    <2>2. CASE pc' = "asking" /\ pass' = pass /\ live' = live
               /\ watching' = watching /\ moved' = moved
        <3>1. pc = "reading"
            BY <1>3 DEF Read
        <3>2. watching' = NoPass
            BY <2>2, <3>1 DEF Followed
        <3>3. \A p \in Partitions : p \in Asked(got') => got'[p] = disk[p]
            BY <2>1 DEF Asked
        <3>4. QED
            BY <2>1, <2>2, <3>1, <3>2, <3>3 DEF Followed, Asked
    <2>3. QED
        BY <1>2, <2>1, <2>2
<1>4. CASE Show
    BY <1>2, <1>4 DEF Show, IInv, Shape
<1>5. ASSUME NEW p \in Partitions, Ask(p) PROVE Followed'
    <2>1. /\ pc = "asking" /\ got'[p].turn = turn[p]
          /\ \A q \in Partitions \ {p} : got'[q] = got[q]
        BY <1>5, Asking
    <2>2. disk' = disk /\ pc' = pc /\ pass' = pass /\ live' = live
          /\ watching' = watching /\ moved' = moved
        BY <1>5 DEF Ask, recheck
    <2>3. moved => live \in Passes /\ pass[live].got[p].turn <= got'[p].turn
        BY <2>1 DEF Followed, Causal
    <2>4. moved => \A q \in Partitions :
             q \in Asked(pass[live].got) /\ q \in Asked(got') =>
                 got'[q].turn >= pass[live].got[q].turn
        <3> SUFFICES ASSUME moved, NEW q \in Partitions, q \in Asked(pass[live].got),
                            q \in Asked(got')
                     PROVE  got'[q].turn >= pass[live].got[q].turn
            OBVIOUS
        <3>1. CASE q = p
            <4>1. pass[live].got[p].turn \in Int /\ turn[p] \in Int
                BY <1>1, <2>3, Turns, SessionAssumption DEF Typed, TypeOK
            <4>2. QED
                BY <2>1, <2>3, <3>1, <4>1
        <3>2. CASE q # p
            <4>1. q \in Asked(got) /\ got'[q] = got[q]
                BY <2>1, <3>2 DEF Asked
            <4>2. QED
                BY <2>1, <4>1 DEF Followed
        <3>3. QED
            BY <3>1, <3>2
    <2>5. Asked(pass[live].got)' = Asked(pass[live].got)
        BY <2>2 DEF Asked
    <2>6. QED
        BY <2>1, <2>2, <2>4, <2>5 DEF Followed, Asked
<1>6. ASSUME NEW t \in Passes, Pass(t) PROVE Followed'
    <2>1. got' = got /\ pc' = pc /\ live' = live /\ watching' = watching /\ moved' = moved
        BY <1>6 DEF Pass, PassFail, PassSave, PassDone, PassAsk, frame
    <2>2. t \in Running /\ (pass[t].pc \in {"asking", "saving", "saved"})
        BY <1>6 DEF Pass, PassFail, PassSave, PassDone, PassAsk, Running
    <2>3. t = live
        BY <2>2 DEF IInv
    <2>4. moved => pc = "over"
        BY <2>2, <2>3 DEF Followed
    <2>5. watching # NoPass /\ pass'[t].pc \in {"saved", "done"} =>
             \A p \in Asked(pass'[t].got) \cap Asked(disk') :
                 disk'[p].turn >= pass'[t].got[p].turn
        <3>1. CASE PassFail(t)
            <4>1. pass'[t].got = Unknown
                BY <3>1, PassSteps DEF PassFail, PassSave, PassDone
            <4>2. QED
                BY <4>1, Fresh
        <3>2. CASE PassSave(t)
            <4>1. pass'[t].got = pass[t].got /\ disk' = Merged(disk, pass[t].got)
                BY <3>2, PassSteps DEF PassSave, Save
            <4>2. \A p \in Partitions : p \in Asked(pass[t].got) => disk'[p] = pass[t].got[p]
                BY <1>1, <4>1, Merging
            <4>3. \A p \in Partitions : pass[t].got[p].turn \in Int
                BY <1>1, Turns
            <4>4. QED
                BY <4>1, <4>2, <4>3 DEF Asked
        <3>3. CASE PassDone(t)
            <4>1. pass'[t].got = pass[t].got /\ disk' = disk /\ pass[t].pc = "saved"
                BY <3>3, PassSteps DEF PassFail, PassSave, PassDone
            <4>2. QED
                BY <2>3, <4>1 DEF Followed
        <3>4. CASE \E p \in Partitions : PassAsk(t, p)
            BY <3>4, PassAsking
        <3>5. QED
            BY <1>6, <3>1, <3>2, <3>3, <3>4 DEF Pass
    <2>6. watching # NoPass => watching = t
        BY <2>3 DEF Followed
    <2>7. QED
        BY <2>1, <2>3, <2>4, <2>5, <2>6 DEF Followed, Asked
<1>7. CASE PressR \/ IdleReload
    BY <1>7 DEF PressR, IdleReload, Reload, Followed, frame
<1>8. CASE MovedReload
    <2>1. PICK p \in Partitions : Contradicts(watching, p)
        BY <1>8 DEF MovedReload
    <2>2. /\ watching # NoPass /\ pc' = "reading" /\ watching' = NoPass
          /\ disk' = disk /\ pass' = pass /\ live' = live
        BY <1>8 DEF MovedReload, Reload
    <2>3. pass[watching].pc = "done" /\ watching = live /\ live \in Passes
        BY <1>1, <2>1, <2>2 DEF Contradicts, Followed
    <2>4. QED
        BY <2>2, <2>3 DEF Followed, Asked
<1>9. CASE Rest \/ Broken \/ Quit \/ Over \/ UNCHANGED vars
    BY <1>9 DEF Rest, Broken, Quit, Over, vars, frame, recheck, Followed, Asked
<1>10. ASSUME NEW p \in Partitions, ChangeMind(p) PROVE Followed'
    BY <1>10 DEF ChangeMind, frame, recheck, Followed, Asked
<1>11. ASSUME NEW p \in Partitions, Expire(p) PROVE Followed'
    <2>1. /\ got' = got /\ pc' = pc /\ pass' = pass /\ live' = live
          /\ watching' = watching /\ moved' = moved
          /\ Asked(disk') \subseteq Asked(disk) /\ \A q \in Asked(disk') : disk'[q] = disk[q]
        BY <1>11, Expiring DEF frame, recheck
    <2>2. QED
        BY <2>1 DEF Followed, Asked
<1>12. QED
    BY <1>3, <1>4, <1>5, <1>6, <1>7, <1>8, <1>9, <1>10, <1>11 DEF Next

-----------------------------------------------------------------------------
\* Everything the order of answers rests on.
OrderInv == Typed /\ Causal /\ Ordered /\ (SavesLand => Written /\ Followed)

LEMMA OrderHolds == Spec => [](IInv /\ OrderInv)
<1>1. Init => IInv /\ OrderInv
    <2> SUFFICES ASSUME Init PROVE OrderInv
        BY Starts
    <2>1. Typed
        BY StartsTyped
    <2>2. Causal
        <3>1. \A p \in Partitions : turn[p] \in Int /\ turn[p] >= 0
            BY <2>1, SessionAssumption DEF Typed, TypeOK
        <3>2. \A t \in Passes : pass[t].got = Unknown
            BY DEF Init, Resting
        <3>3. QED
            BY <3>1, <3>2, Fresh DEF Init, Causal
    <2>3. Ordered /\ Written /\ Followed
        <3>1. Running = {} /\ Asked(shown) = {}
            BY Fresh DEF Init, Running, Resting
        <3>2. \A p \in Partitions : p \in Asked(disk) => shown[p].turn <= disk[p].turn
            BY <2>1, Turns, Fresh DEF Init, Typed, TypeOK
        <3>3. QED
            BY <3>1, <3>2 DEF Init, Ordered, Written, Followed
    <2>4. QED
        BY <2>1, <2>2, <2>3 DEF OrderInv
<1>2. IInv /\ OrderInv /\ [Next]_vars => (IInv /\ OrderInv)'
    BY Steps, TypedSteps, CausalSteps, OrderedSteps, WrittenSteps, FollowedSteps DEF OrderInv
<1>3. QED
    BY <1>1, <1>2, PTL DEF Spec

\* Every variable keeps its type, and a frame shows a verdict for each of the
\* partitions it was drawn for and for no other.
THEOREM TypeCorrect == Spec => []TypeOK
<1>1. OrderInv => TypeOK
    BY DEF OrderInv, Typed
<1>2. QED
    BY <1>1, OrderHolds, PTL

\* Whatever the readings, the rechecks and the frames that wait write over one
\* another and whichever answers lapse, the screen never goes back to an older
\* answer about a partition, whether or not the answers can be written down, but
\* for a partition that a frame had to ask about while a recheck held an earlier
\* answer to be saved.
THEOREM ScreenNeverRegresses == Spec => FrameNeverRegresses
<1>1. IInv /\ OrderInv /\ [Next]_vars =>
         [\A p \in (Asked(shown) \cap Asked(shown')) \ crossed :
             shown'[p].turn >= shown[p].turn]_vars
    <2> SUFFICES ASSUME IInv, OrderInv, [Next]_vars,
                        NEW p \in (Asked(shown) \cap Asked(shown')) \ crossed
                 PROVE  shown'[p].turn >= shown[p].turn
        OBVIOUS
    <2>1. p \in Partitions /\ shown[p].turn \in Int
        <3>1. p \in Partitions /\ shown \in Verdicts
            BY DEF Asked, OrderInv, Typed, TypeOK
        <3>2. QED
            BY <3>1, Turns
    <2>2. Typed /\ Ordered /\ room \in SUBSET Partitions
        BY DEF OrderInv, IInv, Shape
    <2>3. CASE shown' = shown
        BY <2>1, <2>3
    <2>4. CASE Read
        <3>1. PICK c \in SUBSET Partitions :
                 /\ \A q \in Partitions : got'[q] = IF q \in c THEN disk[q] ELSE None
                 /\ \/ Draw(c, got', TRUE)
                    \/ shown' = shown
            BY <2>2, <2>4, Readings
        <3>2. CASE Draw(c, got', TRUE)
            <4>1. shown' = got'
                BY <2>2, <3>2, Drawn
            <4>2. shown'[p] # None
                BY DEF Asked
            <4>3. p \in Asked(disk) /\ shown'[p] = disk[p]
                BY <2>1, <3>1, <4>1, <4>2 DEF Asked
            <4>4. disk[p].turn \in Int
                BY <2>1, Turns DEF OrderInv, Typed, TypeOK
            <4>5. QED
                BY <2>1, <2>2, <4>3, <4>4 DEF Ordered
        <3>3. QED
            BY <2>3, <3>1, <3>2
    <2>5. CASE Show
        <3>1. shown' = got /\ pc = "asking"
            BY <2>2, <2>5, Drawn DEF Show
        <3>2. p \in Asked(got) /\ got[p].turn \in Int
            BY <2>1, <3>1, Turns DEF OrderInv, Typed, TypeOK, Asked
        <3>3. QED
            BY <2>1, <2>2, <3>1, <3>2 DEF Ordered
    <2>6. \/ Read \/ Show \/ shown' = shown
        BY DEF Next, vars, frame, recheck, Rest, Broken, PressR, IdleReload, MovedReload, Reload,
               Quit, Over, ChangeMind, Expire, Ask, Pass, PassFail, PassSave, PassDone, PassAsk
    <2>7. QED
        BY <2>3, <2>4, <2>5, <2>6
<1>2. QED
    BY <1>1, OrderHolds, PTL DEF Spec, FrameNeverRegresses

\* Where the answers can be written down, a reload made because a recheck's
\* answer contradicts the screen puts that answer, or a later one, on it.
THEOREM CorrectionsShow == ASSUME SavesLand PROVE Spec => CorrectionReachesScreen
<1>1. IInv /\ OrderInv /\ [Next]_vars =>
         [moved /\ pc' = "browsing" =>
             \A p \in Asked(shown') \cap Asked(pass[live].got) :
                 shown'[p].turn >= pass[live].got[p].turn]_vars
    <2> SUFFICES ASSUME IInv, OrderInv, [Next]_vars, moved, pc' = "browsing", ~UNCHANGED vars,
                        NEW p \in Asked(shown') \cap Asked(pass[live].got)
                 PROVE  shown'[p].turn >= pass[live].got[p].turn
        OBVIOUS
    <2>1. Typed /\ Followed /\ room \in SUBSET Partitions /\ p \in Partitions
        BY SavesLand DEF OrderInv, IInv, Shape, Asked
    <2>2. CASE Read
        <3>1. PICK c \in SUBSET Partitions :
                 /\ \A q \in Partitions : got'[q] = IF q \in c THEN disk[q] ELSE None
                 /\ Draw(c, got', TRUE)
            BY <2>1, <2>2, Readings
        <3>2. shown' = got' /\ pc = "reading"
            BY <2>1, <2>2, <3>1, Drawn DEF Read
        <3>3. p \in Asked(disk) /\ shown'[p] = disk[p]
            BY <2>1, <3>1, <3>2 DEF Asked
        <3>4. p \in Asked(pass[live].got)
            OBVIOUS
        <3>5. QED
            BY <2>1, <3>2, <3>3, <3>4 DEF Followed
    <2>3. CASE Show
        <3>1. shown' = got /\ pc = "asking"
            BY <2>1, <2>3, Drawn DEF Show
        <3>2. p \in Asked(got)
            BY <2>1, <3>1 DEF Asked
        <3>3. QED
            BY <2>1, <3>1, <3>2 DEF Followed
    <2>4. Read \/ Show
        <3>1. pc # "browsing"
            BY <2>1 DEF Followed
        <3>2. QED
            BY <3>1 DEF Next, vars, frame, recheck, Rest, Broken, PressR, IdleReload, MovedReload,
                        Reload, Quit, Over, ChangeMind, Expire, Ask, Pass, PassFail, PassSave, PassDone,
                        PassAsk
    <2>5. QED
        BY <2>2, <2>3, <2>4
<1>2. QED
    BY <1>1, OrderHolds, PTL DEF Spec, CorrectionReachesScreen

-----------------------------------------------------------------------------
(* How often such a browse re-reads the cluster by itself.                 *)

CONSTANTS Idles, NoIdle, Exponent, MaxKeys, MaxAlone
VARIABLES phase, step, watch, quiet, backoff, waited, keys

Pace == INSTANCE IdleRefresh WITH pc <- phase

\* A set of numbers has a least one.
LEMMA LeastOf ==
    ASSUME NEW S \in SUBSET Nat, S # {}
    PROVE  \E n \in S : \A m \in S : n <= m
<1> DEFINE R == OpToRel(<, Nat)
<1>1. IsWellFoundedOn(R, Nat)
    BY NatLessThanWellFounded
<1>2. \A m, n \in Nat : m < n => <<m, n>> \in R
    BY DEF OpToRel
<1> HIDE DEF R
<1>3. PICK n \in S : \A m \in S : ~(<<m, n>> \in R)
    BY <1>1, WFMin
<1>4. ASSUME NEW m \in S PROVE n <= m
    <2>1. m \in Nat /\ n \in Nat /\ ~(m < n)
        BY <1>2, <1>3
    <2>2. QED
        BY <2>1
<1>5. QED
    BY <1>4

\* What a function that doubles does up to n; there is one, and it is the only one.
Doubles(n, g) == g[0] = 1 /\ \A k \in 1 .. n : g[k] = 2 * g[k - 1]

LEMMA DoublesOnce ==
    ASSUME NEW n \in Nat, NEW g, NEW h, Doubles(n, g), Doubles(n, h)
    PROVE  \A k \in 0 .. n : g[k] = h[k]
<1> DEFINE B == {k \in 0 .. n : g[k] # h[k]}
<1>1. SUFFICES ASSUME B # {} PROVE FALSE
    OBVIOUS
<1>2. PICK k \in B : \A m \in B : k <= m
    <2>1. B \in SUBSET Nat
        OBVIOUS
    <2> HIDE DEF B
    <2>2. QED
        BY <1>1, <2>1, LeastOf
<1>3. k # 0
    BY <1>2 DEF Doubles
<1>4. k - 1 \in 0 .. n /\ k \in 1 .. n /\ ~(k <= k - 1)
    BY <1>2, <1>3
<1>5. g[k - 1] = h[k - 1]
    BY <1>2, <1>4
<1>6. QED
    BY <1>2, <1>4, <1>5 DEF Doubles

LEMMA DoublesUpTo ==
    ASSUME NEW n \in Nat
    PROVE  \E g : Doubles(n, g)
<1> DEFINE B == {k \in Nat : ~\E g : Doubles(k, g)}
<1>1. SUFFICES ASSUME B # {} PROVE FALSE
    OBVIOUS
<1>2. PICK k \in B : \A m \in B : k <= m
    <2>1. B \in SUBSET Nat
        OBVIOUS
    <2> HIDE DEF B
    <2>2. QED
        BY <1>1, <2>1, LeastOf
<1>3. CASE k = 0
    <2>1. Doubles(0, [m \in Nat |-> 1])
        BY DEF Doubles
    <2>2. QED
        BY <1>2, <1>3, <2>1
<1>4. CASE k # 0
    <2>1. k \in Nat /\ k - 1 \in Nat /\ ~(k <= k - 1)
        BY <1>2, <1>4
    <2>2. PICK g : Doubles(k - 1, g)
        BY <1>2, <2>1
    <2> DEFINE h == [m \in Nat |-> IF m = k THEN 2 * g[k - 1] ELSE g[m]]
    <2>3. ASSUME NEW m \in 1 .. k PROVE h[m] = 2 * h[m - 1]
        BY <2>1, <2>2 DEF Doubles
    <2>4. h[0] = 1
        BY <1>4, <2>2 DEF Doubles
    <2> HIDE DEF h
    <2>5. Doubles(k, h)
        BY <2>3, <2>4 DEF Doubles
    <2>6. QED
        BY <1>2, <2>5
<1>5. QED
    BY <1>3, <1>4

LEMMA DoubledDefined ==
    Pace!Doubled = [n \in Nat |-> IF n = 0 THEN 1 ELSE 2 * Pace!Doubled[n - 1]]
<1> DEFINE of(n) == CHOOSE g : Doubles(n, g)
           G == [n \in Nat |-> of(n)[n]]
<1>1. ASSUME NEW n \in Nat PROVE Doubles(n, of(n))
    BY DoublesUpTo
<1>2. ASSUME NEW n \in Nat PROVE G[n] = IF n = 0 THEN 1 ELSE 2 * G[n - 1]
    <2>1. G[n] = of(n)[n]
        OBVIOUS
    <2>2. CASE n = 0
        <3> HIDE DEF of, G
        <3>1. QED
            BY <1>1, <2>1, <2>2 DEF Doubles
    <2>3. CASE n # 0
        <3>1. n - 1 \in Nat /\ n \in 1 .. n /\ n - 1 \in 0 .. n - 1
            BY <2>3
        <3>2. G[n - 1] = of(n - 1)[n - 1]
            BY <3>1
        <3> HIDE DEF of, G
        <3>3. Doubles(n - 1, of(n - 1)) /\ Doubles(n - 1, of(n))
            BY <1>1, <3>1 DEF Doubles
        <3>4. of(n)[n - 1] = of(n - 1)[n - 1]
            BY <3>1, <3>3, DoublesOnce
        <3>5. of(n)[n] = 2 * of(n)[n - 1]
            BY <1>1, <3>1 DEF Doubles
        <3>6. QED
            BY <2>1, <2>3, <3>2, <3>4, <3>5
    <2>4. QED
        BY <2>2, <2>3
<1>3. G = [n \in Nat |-> IF n = 0 THEN 1 ELSE 2 * G[n - 1]]
    <2>1. G = [n \in Nat |-> G[n]]
        OBVIOUS
    <2> HIDE DEF G
    <2>2. QED
        BY <1>2, <2>1
<1> HIDE DEF G
<1>4. QED
    BY <1>3 DEF Pace!Doubled

\* Twice as much is at least as much.
LEMMA DoubledIsNumber ==
    ASSUME NEW n \in Nat
    PROVE  Pace!Doubled[n] \in Nat \ {0}
<1> DEFINE B == {k \in Nat : Pace!Doubled[k] \notin Nat \ {0}}
<1>1. SUFFICES ASSUME B # {} PROVE FALSE
    OBVIOUS
<1>2. PICK k \in B : \A m \in B : k <= m
    <2>1. B \in SUBSET Nat
        OBVIOUS
    <2> HIDE DEF B
    <2>2. QED
        BY <1>1, <2>1, LeastOf
<1>3. Pace!Doubled[k] = IF k = 0 THEN 1 ELSE 2 * Pace!Doubled[k - 1]
    BY <1>2, DoubledDefined
<1>4. k # 0 /\ k - 1 \in Nat /\ ~(k <= k - 1)
    BY <1>2, <1>3
<1>5. Pace!Doubled[k - 1] \in Nat \ {0}
    BY <1>2, <1>4
<1>6. 2 * Pace!Doubled[k - 1] \in Nat \ {0}
    BY <1>5
<1>7. QED
    BY <1>2, <1>3, <1>4, <1>6

LEMMA DoubledGrows ==
    ASSUME NEW m \in Nat, NEW n \in Nat, m <= n
    PROVE  Pace!Doubled[m] <= Pace!Doubled[n]
<1> DEFINE B == {k \in Nat : m <= k /\ ~(Pace!Doubled[m] <= Pace!Doubled[k])}
<1>1. SUFFICES ASSUME B # {} PROVE FALSE
    OBVIOUS
<1>2. PICK k \in B : \A j \in B : k <= j
    <2>1. B \in SUBSET Nat
        OBVIOUS
    <2> HIDE DEF B
    <2>2. QED
        BY <1>1, <2>1, LeastOf
<1>3. \A j \in Nat : Pace!Doubled[j] \in Nat
    BY DoubledIsNumber
<1>4. k # m
    BY <1>2, <1>3
<1>5. k # 0 /\ k - 1 \in Nat /\ m <= k - 1 /\ ~(k <= k - 1)
    BY <1>2, <1>4
<1>6. Pace!Doubled[m] <= Pace!Doubled[k - 1]
    BY <1>2, <1>5
<1>7. Pace!Doubled[k] = 2 * Pace!Doubled[k - 1]
    BY <1>2, <1>5, DoubledDefined
<1>8. QED
    BY <1>2, <1>3, <1>5, <1>6, <1>7

LEMMA ProductGrows ==
    ASSUME NEW i \in Nat, NEW a \in Nat, NEW b \in Nat, a <= b
    PROVE  i * a \in Nat /\ i * b \in Nat /\ i * a <= i * b
<1>1. b - a \in Nat /\ i * (b - a) \in Nat /\ i * a \in Nat /\ i * b \in Nat
    OBVIOUS
<1>2. i * b = i * a + i * (b - a)
    OBVIOUS
<1>3. QED
    BY <1>1, <1>2

\* The interval after n doublings is one, and no shorter than after fewer.
LEMMA Waits ==
    ASSUME Pace!IdleAssumption, NEW i \in 1 .. Cap, NEW m \in Nat, NEW n \in Nat, m <= n
    PROVE  /\ Pace!Lesser(i * Pace!Doubled[m], Cap) \in 1 .. Cap
           /\ Pace!Lesser(i * Pace!Doubled[n], Cap) \in 1 .. Cap
           /\ Pace!Lesser(i * Pace!Doubled[m], Cap) <= Pace!Lesser(i * Pace!Doubled[n], Cap)
<1>1. Cap \in Nat \ {0} /\ i \in Nat \ {0}
    BY DEF Pace!IdleAssumption
<1>2. Pace!Doubled[m] \in Nat \ {0} /\ Pace!Doubled[n] \in Nat \ {0} /\ Pace!Doubled[m] <= Pace!Doubled[n]
    BY DoubledIsNumber, DoubledGrows
<1> DEFINE a == i * Pace!Doubled[m]
           b == i * Pace!Doubled[n]
<1>3. a \in Nat /\ b \in Nat /\ a <= b
    BY <1>1, <1>2, ProductGrows
<1>4. i * 1 <= i * Pace!Doubled[m]
    BY <1>1, <1>2, ProductGrows
<1>5. a >= 1
    BY <1>1, <1>3, <1>4
<1> HIDE DEF a, b
<1>6. Pace!Lesser(a, Cap) \in 1 .. Cap /\ Pace!Lesser(b, Cap) \in 1 .. Cap /\ Pace!Lesser(a, Cap) <= Pace!Lesser(b, Cap)
    BY <1>1, <1>3, <1>5 DEF Pace!Lesser
<1>7. QED
    BY <1>6 DEF a, b

-----------------------------------------------------------------------------
\* A reload that the timer asked for is the only one that leaves the pace as it
\* is, and after any other the timer's refreshes are counted anew.
Fair ==
    /\ fired => phase = "leaving"
    /\ phase = "leaving" /\ ~fired => alone = 0
    /\ phase \in {"reading", "browsing", "leaving"} => alone <= backoff

\* What a browse waits is what the timer's refreshes in a row have made of its
\* interval, at least; and it has been on the screen for as long as it has counted.
Waiting ==
    phase = "browsing" =>
        /\ step # NoIdle => idle # NoIdle /\ Pace!Lesser(idle * Pace!Doubled[alone], Cap) <= step
        /\ Pace!Lesser(quiet + waited, Cap) <= since

PaceIInv == Pace!IdleAssumption /\ Pace!TypeOK /\ Fair /\ Waiting

LEMMA PaceInit == Pace!IdleAssumption /\ Pace!Init => PaceIInv
<1> SUFFICES ASSUME Pace!IdleAssumption, Pace!Init PROVE PaceIInv
    OBVIOUS
<1>1. Pace!TypeOK
    <2>1. fired \in BOOLEAN /\ phase \in {"reading"} /\ watch \in {"none"}
        BY DEF Pace!Init
    <2>2. /\ quiet \in 0 .. Cap /\ since \in 0 .. Cap /\ waited \in 0 .. Cap /\ backoff \in Nat
          /\ alone \in 0 .. MaxAlone /\ keys \in 0 .. MaxKeys
        BY DEF Pace!IdleAssumption, Pace!Init
    <2>3. idle = NoIdle /\ step = NoIdle
        BY DEF Pace!Init
    <2>4. QED
        BY <2>1, <2>2, <2>3 DEF Pace!TypeOK
<1>2. Fair /\ Waiting
    BY DEF Pace!Init, Fair, Waiting
<1>3. QED
    BY <1>1, <1>2 DEF PaceIInv

LEMMA DrawKeeps ==
    ASSUME PaceIInv, Pace!Draw
    PROVE  PaceIInv'
<1>1. PICK i \in Idles, w \in {"none", "asking"} :
          IF i # NoIdle /\ backoff >= Exponent
          THEN phase' = "crashed" /\ UNCHANGED <<idle, step, watch>>
          ELSE phase' = "browsing" /\ idle' = i /\ step' = Pace!Step(i, backoff) /\ watch' = w
    BY DEF Pace!Draw, Pace!browse
<1>2. /\ phase = "reading" /\ quiet' = 0 /\ waited' = 0 /\ since' = 0
      /\ UNCHANGED <<backoff, fired, alone, keys>>
    BY DEF Pace!Draw
<1>3. /\ Cap \in Nat \ {0} /\ NoIdle \notin Nat /\ Idles \subseteq 1 .. Cap \cup {NoIdle}
      /\ alone \in Nat /\ backoff \in Nat /\ alone <= backoff /\ ~fired
    BY <1>2 DEF PaceIInv, Pace!IdleAssumption, Pace!TypeOK, Fair
<1>4. CASE phase' = "crashed"
    BY <1>1, <1>2, <1>3, <1>4 DEF PaceIInv, Pace!IdleAssumption, Pace!TypeOK, Fair, Waiting
<1>5. CASE phase' = "browsing" /\ idle' = i /\ step' = Pace!Step(i, backoff) /\ watch' = w
    <2>1. i # NoIdle => /\ Pace!Lesser(i * Pace!Doubled[backoff], Cap) \in 1 .. Cap
                        /\ Pace!Lesser(i * Pace!Doubled[alone], Cap) <= Pace!Lesser(i * Pace!Doubled[backoff], Cap)
        BY <1>3, Waits DEF PaceIInv
    <2>2. step' \in 1 .. Cap \cup {NoIdle}
        BY <1>5, <2>1 DEF Pace!Step
    <2>3. Waiting'
        BY <1>2, <1>3, <1>5, <2>1 DEF Waiting, Pace!Step, Pace!Lesser
    <2>4. QED
        BY <1>2, <1>3, <1>5, <2>2, <2>3 DEF PaceIInv, Pace!IdleAssumption, Pace!TypeOK, Fair
<1>6. QED
    BY <1>1, <1>4, <1>5

LEMMA TickKeeps ==
    ASSUME PaceIInv, Pace!Tick
    PROVE  /\ PaceIInv'
           /\ ~fired /\ fired' => since' >= Pace!Lesser(idle * Pace!Doubled[alone], Cap)
<1>1. /\ phase = "browsing" /\ Pace!Poll # NoIdle /\ since' = Pace!Lesser(since + 1, Cap)
      /\ UNCHANGED <<idle, step, watch, keys>>
    BY DEF Pace!Tick, Pace!browse
<1>2. /\ Cap \in Nat \ {0} /\ NoIdle \notin Nat /\ MaxAlone \in Nat
      /\ quiet \in 0 .. Cap /\ since \in 0 .. Cap /\ waited \in 0 .. Cap
      /\ alone \in 0 .. MaxAlone /\ backoff \in Nat /\ alone <= backoff /\ ~fired
      /\ Pace!Poll \in 1 .. Cap /\ step \in 1 .. Cap \cup {NoIdle}
    BY <1>1 DEF PaceIInv, Pace!IdleAssumption, Pace!TypeOK, Fair, Pace!Poll
<1>3. Pace!Lesser(quiet + waited, Cap) <= since
    BY <1>1 DEF PaceIInv, Waiting
<1>4. step # NoIdle => idle # NoIdle /\ Pace!Lesser(idle * Pace!Doubled[alone], Cap) <= step
    BY <1>1 DEF PaceIInv, Waiting
<1>5. since' \in 0 .. Cap /\ since <= since' /\ Pace!Lesser(quiet + waited + 1, Cap) <= since'
    BY <1>1, <1>2, <1>3 DEF Pace!Lesser
<1>6. CASE waited + 1 < Pace!Poll
    <2>1. waited' = waited + 1 /\ UNCHANGED <<phase, quiet, backoff, fired, alone>>
        BY <1>6 DEF Pace!Tick
    <2>2. waited' \in 0 .. Cap
        BY <1>2, <1>6, <2>1
    <2>3. Pace!Lesser(quiet' + waited', Cap) <= since'
        BY <1>2, <1>5, <2>1 DEF Pace!Lesser
    <2>4. Waiting'
        BY <1>1, <1>4, <2>1, <2>3 DEF Waiting
    <2>5. QED
        BY <1>1, <1>2, <1>5, <2>1, <2>2, <2>4 DEF PaceIInv, Pace!IdleAssumption, Pace!TypeOK, Fair
<1>7. CASE ~(waited + 1 < Pace!Poll)
    <2>1. Pace!Expire
        BY <1>7 DEF Pace!Tick
    <2>2. Pace!Lesser(quiet + Pace!Poll, Cap) <= since'
        BY <1>2, <1>5, <1>7 DEF Pace!Lesser
    <2>3. CASE watch = "moved"
        <3>1. phase' = "leaving" /\ alone' = 0 /\ UNCHANGED <<quiet, backoff, fired, waited>>
            BY <2>1, <2>3 DEF Pace!Expire
        <3>2. QED
            BY <1>1, <1>2, <1>5, <3>1 DEF PaceIInv, Pace!IdleAssumption, Pace!TypeOK, Fair, Waiting
    <2>4. CASE watch # "moved" /\ step # NoIdle /\ quiet + Pace!Poll >= step
        <3>1. /\ alone < MaxAlone /\ phase' = "leaving" /\ fired' = TRUE
              /\ backoff' = backoff + 1 /\ alone' = alone + 1 /\ quiet' = 0 /\ waited' = 0
            BY <2>1, <2>4 DEF Pace!Expire
        <3>2. PaceIInv'
            BY <1>1, <1>2, <1>5, <3>1 DEF PaceIInv, Pace!IdleAssumption, Pace!TypeOK, Fair, Waiting
        <3>3. step <= since'
            BY <1>2, <1>5, <2>2, <2>4 DEF Pace!Lesser
        <3>4. idle \in 1 .. Cap
            BY <1>4, <2>4 DEF PaceIInv, Pace!TypeOK, Pace!IdleAssumption
        <3>5. Pace!Lesser(idle * Pace!Doubled[alone], Cap) \in 1 .. Cap
            <4>1. alone \in Nat /\ alone <= alone /\ Pace!IdleAssumption
                BY <1>2 DEF PaceIInv
            <4>2. QED
                BY <3>4, <4>1, Waits
        <3>6. QED
            BY <1>2, <1>4, <1>5, <2>4, <3>2, <3>3, <3>5
    <2>5. CASE watch # "moved" /\ ~(step # NoIdle /\ quiet + Pace!Poll >= step)
        <3>1. /\ quiet' = Pace!Lesser(quiet + Pace!Poll, Cap) /\ waited' = 0
              /\ UNCHANGED <<phase, backoff, fired, alone>>
            BY <2>1, <2>5 DEF Pace!Expire
        <3>2. quiet' \in 0 .. Cap /\ Pace!Lesser(quiet' + waited', Cap) <= since'
            BY <1>2, <2>2, <3>1 DEF Pace!Lesser
        <3>3. Waiting'
            BY <1>1, <1>4, <3>1, <3>2 DEF Waiting
        <3>4. QED
            BY <1>1, <1>2, <1>5, <3>1, <3>2, <3>3 DEF PaceIInv, Pace!IdleAssumption, Pace!TypeOK, Fair
    <2>6. QED
        BY <2>3, <2>4, <2>5
<1>8. QED
    BY <1>6, <1>7

\* A key starts the wait anew, and not what has been counted of it.
LEMMA KeyKeeps ==
    ASSUME PaceIInv, Pace!Arrow \/ Pace!Open \/ Pace!PressR
    PROVE  PaceIInv' /\ ~fired'
<1>1. /\ phase = "browsing" /\ keys < MaxKeys /\ keys' = keys + 1 /\ alone' = 0 /\ waited' = 0
      /\ UNCHANGED <<idle, step, watch, quiet, since>>
    BY DEF Pace!Arrow, Pace!Open, Pace!PressR, Pace!Key, Pace!browse
<1>2. /\ phase' = "browsing" \/ phase' = "leaving"
      /\ backoff' \in {backoff, 0} /\ fired' = FALSE
    <2>1. fired = FALSE
        BY <1>1 DEF PaceIInv, Pace!TypeOK, Fair
    <2>2. QED
        BY <1>1, <2>1 DEF Pace!Arrow, Pace!Open, Pace!PressR, Pace!Touched
<1>3. ~fired /\ backoff \in Nat /\ alone \in Nat /\ Cap \in Nat \ {0} /\ NoIdle \notin Nat
      /\ quiet \in 0 .. Cap /\ waited \in 0 .. Cap /\ since \in 0 .. Cap /\ MaxAlone \in Nat
      /\ idle \in 1 .. Cap \cup {NoIdle} /\ step \in 1 .. Cap \cup {NoIdle}
    BY <1>1 DEF PaceIInv, Pace!IdleAssumption, Pace!TypeOK, Fair
<1>4. step # NoIdle => idle # NoIdle /\ Pace!Lesser(idle * Pace!Doubled[0], Cap) <= step
    <2> SUFFICES ASSUME step # NoIdle PROVE idle # NoIdle /\ Pace!Lesser(idle * Pace!Doubled[0], Cap) <= step
        OBVIOUS
    <2>1. idle # NoIdle /\ Pace!Lesser(idle * Pace!Doubled[alone], Cap) <= step
        BY <1>1 DEF PaceIInv, Waiting
    <2>2. /\ Pace!Lesser(idle * Pace!Doubled[0], Cap) \in 1 .. Cap
          /\ Pace!Lesser(idle * Pace!Doubled[alone], Cap) \in 1 .. Cap
          /\ Pace!Lesser(idle * Pace!Doubled[0], Cap) <= Pace!Lesser(idle * Pace!Doubled[alone], Cap)
        <3>1. idle \in 1 .. Cap /\ 0 \in Nat /\ 0 <= alone /\ alone \in Nat /\ Pace!IdleAssumption
            BY <1>3, <2>1 DEF PaceIInv
        <3>2. QED
            BY <3>1, Waits
    <2>3. QED
        BY <1>3, <2>1, <2>2
<1>5. Pace!Lesser(quiet' + waited', Cap) <= since'
    <2>1. Pace!Lesser(quiet + waited, Cap) <= since
        BY <1>1 DEF PaceIInv, Waiting
    <2>2. QED
        BY <1>1, <1>3, <2>1 DEF Pace!Lesser
<1>6. Waiting'
    BY <1>1, <1>4, <1>5 DEF Waiting
<1>7. Fair'
    BY <1>1, <1>2, <1>3 DEF Fair
<1>8. Pace!TypeOK'
    <2>1. fired' \in BOOLEAN /\ phase' \in {"reading", "browsing", "leaving", "over", "crashed"}
        BY <1>2
    <2>2. alone' \in 0 .. MaxAlone /\ keys' \in 0 .. MaxKeys /\ backoff' \in Nat /\ waited' \in 0 .. Cap
        BY <1>1, <1>2, <1>3 DEF PaceIInv, Pace!IdleAssumption, Pace!TypeOK
    <2>3. QED
        BY <1>1, <2>1, <2>2 DEF PaceIInv, Pace!TypeOK
<1>9. Pace!IdleAssumption'
    BY DEF PaceIInv, Pace!IdleAssumption
<1>10. QED
    BY <1>2, <1>3, <1>6, <1>7, <1>8, <1>9 DEF PaceIInv

LEMMA OthersKeep ==
    ASSUME PaceIInv, Pace!Answer \/ Pace!Quit \/ Pace!Leave \/ Pace!Ended \/ UNCHANGED Pace!vars
    PROVE  PaceIInv' /\ (fired' => fired)
<1> USE DEF PaceIInv, Fair, Waiting, Pace!TypeOK
<1>1. Pace!IdleAssumption'
    BY DEF Pace!IdleAssumption
<1>2. CASE Pace!Answer
    BY <1>1, <1>2 DEF Pace!Answer
<1>3. CASE Pace!Quit
    BY <1>1, <1>3 DEF Pace!Quit, Pace!Touched, Pace!browse
<1>4. CASE Pace!Leave
    <2>1. phase = "leaving" /\ phase' = "reading" /\ UNCHANGED <<idle, step, watch, quiet, waited, since, alone, keys>>
        BY <1>4 DEF Pace!Leave, Pace!browse
    <2>2. fired' = FALSE /\ backoff' \in Nat /\ alone <= backoff'
        BY <1>4, <2>1 DEF Pace!Leave, Pace!Touched, Pace!IdleAssumption
    <2>3. QED
        BY <1>1, <2>1, <2>2
<1>5. CASE Pace!Ended \/ UNCHANGED Pace!vars
    BY <1>1, <1>5 DEF Pace!Ended, Pace!vars, Pace!browse
<1>6. QED
    BY <1>2, <1>3, <1>4, <1>5

LEMMA PaceStep ==
    ASSUME PaceIInv, [Pace!Next]_(Pace!vars)
    PROVE  /\ PaceIInv'
           /\ Pace!TimerReloads => since' >= Pace!Lesser(idle * Pace!Doubled[alone], Cap)
<1>1. CASE Pace!Draw
    BY <1>1, DrawKeeps DEF Pace!Draw, Pace!TimerReloads
<1>2. CASE Pace!Tick
    BY <1>2, TickKeeps DEF Pace!TimerReloads
<1>3. CASE Pace!Arrow \/ Pace!Open \/ Pace!PressR
    BY <1>3, KeyKeeps DEF Pace!TimerReloads
<1>4. CASE Pace!Answer \/ Pace!Quit \/ Pace!Leave \/ Pace!Ended \/ UNCHANGED Pace!vars
    BY <1>4, OthersKeep DEF Pace!TimerReloads
<1>5. QED
    BY <1>1, <1>2, <1>3, <1>4 DEF Pace!Next

LEMMA PaceInvariant == Pace!IdleAssumption /\ Pace!Spec => []PaceIInv
<1>1. PaceIInv /\ [Pace!Next]_(Pace!vars) => PaceIInv'
    BY PaceStep
<1>2. QED
    BY <1>1, PaceInit, PTL DEF Pace!Spec

\* Every variable keeps its type: no browse waits longer than _IDLE_CAP, however
\* often the interval has been doubled.
THEOREM PaceTypeCorrect == Pace!IdleAssumption /\ Pace!Spec => []Pace!TypeOK
<1>1. PaceIInv => Pace!TypeOK
    BY DEF PaceIInv
<1>2. QED
    BY <1>1, PaceInvariant, PTL

\* After n refreshes of the timer in a row, with neither a key nor a reload made
\* by a recheck among them, the next comes no sooner than the doubling allows,
\* whatever went before (cli.py `_browse`, `_touched`).
THEOREM LeftAloneIsPaced == Pace!IdleAssumption /\ Pace!Spec => PacedByNobody
<1>1. PaceIInv /\ [Pace!Next]_(Pace!vars)
      => [TimerReloads => since' >= Lesser(idle * Doubled[alone], Cap)]_<<idle, fired, since, alone>>
    <2>1. Doubled = Pace!Doubled
        BY DEF Doubled, Pace!Doubled
    <2>2. Lesser(idle * Pace!Doubled[alone], Cap) = Pace!Lesser(idle * Pace!Doubled[alone], Cap)
        BY DEF Lesser, Pace!Lesser
    <2>3. TimerReloads <=> Pace!TimerReloads
        BY DEF TimerReloads, Pace!TimerReloads
    <2>4. QED
        BY <2>1, <2>2, <2>3, PaceStep
<1>2. QED
    BY <1>1, PaceInvariant, PTL DEF Pace!Spec, PacedByNobody
=============================================================================
