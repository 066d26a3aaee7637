---------------------------- MODULE Terminal_proofs ----------------------------
(***************************************************************************)
(* What holds of the terminal for every set of fatal signals, every        *)
(* disposition a process may be started with, and any number of signals    *)
(* and of Ctrl-Zs, where signals come while a key is awaited or the        *)
(* process is stopped.                                                     *)
(***************************************************************************)
EXTENDS Terminal, SequenceTheorems, TLAPS

-----------------------------------------------------------------------------
(* What the main thread may have left to do.                               *)

Names == {"save", "resave", "cbreak", "hide", "catch", "browse", "give", "show", "restore",
          "default", "kill"}
Steps == [do : Names] \cup [do : Names, signal : Caught]
Lists == Seq(Steps)

Then(what, rest) == Do(what) \o rest
ThenOf(what, s, rest) == Raising(what, s) \o rest

Browsing == Do("browse") \o Exit
Taking == Then("cbreak", Then("hide", Then("catch", Browsing)))

\* What follows a signal that the process sent itself, and what leads there.
After(s) == IF s = Stop THEN Then("resave", Taking) ELSE Browsing
Raise(s) == ThenOf("default", s, ThenOf("kill", s, After(s)))

\* Giving the terminal back, with `rest` to follow.
Giving(rest) == Then("give", Then("show", Then("restore", rest)))
Rests == {<<>>} \cup {Raise(s) : s \in Caught}

\* The dispositions that a shell gets back: those it gave, but that a Ctrl-Z makes
\* SIGTSTP the default.
Kept(d) ==
    /\ d \in [Caught -> Outer]
    /\ \A s \in Fatal : d[s] = original[s]
    /\ d[Stop] \in {original[Stop], "default"}

Handed == ~saved /\ tty = "cooked" /\ cursor = "shown" /\ previous = <<>>
Held(t, c) == saved /\ tty = t /\ cursor = c
Unarmed == Kept(disposed) /\ previous = <<>>
Armed == disposed = [s \in Caught |-> "handler"] /\ Kept(previous)

\* Where the main thread stands decides what has been taken.
AtSave == agenda = Then("save", Taking) /\ Handed /\ Unarmed /\ ~within
AtResave == agenda = Then("resave", Taking) /\ Handed /\ Unarmed
AtCbreak == agenda = Taking /\ Held("cooked", "shown") /\ Unarmed
AtHide == agenda = Then("hide", Then("catch", Browsing)) /\ Held("raw", "shown") /\ Unarmed
AtCatch == agenda = Then("catch", Browsing) /\ Held("raw", "hidden") /\ Unarmed
AtBrowse == agenda = Browsing /\ Held("raw", "hidden") /\ Armed
AtGive(rest) == agenda = Giving(rest) /\ Held("raw", "hidden") /\ Armed
AtShow(rest) ==
    agenda = Then("show", Then("restore", rest)) /\ Held("raw", "hidden") /\ Unarmed
AtRestore(rest) == agenda = Then("restore", rest) /\ Held("raw", "shown") /\ Unarmed
AtRest(rest) == agenda = rest /\ Handed /\ Unarmed
AtKill(s) ==
    /\ agenda = ThenOf("kill", s, After(s)) /\ Handed
    /\ disposed[s] = "default" /\ (s = Stop => Unarmed)

Standing ==
    \/ AtSave \/ AtResave \/ AtCbreak \/ AtHide \/ AtCatch \/ AtBrowse
    \/ \E rest \in Rests : AtGive(rest) \/ AtShow(rest) \/ AtRestore(rest) \/ AtRest(rest)
    \/ \E s \in Caught : AtKill(s)

\* A stopped process has given everything back, and so has one that is gone.
IInv ==
    /\ original \in [Caught -> Outer] /\ original \in Originals
    /\ fate \in {"running", "stopped", "gone"} /\ pending \subseteq Fatal
    /\ fate = "running" => Standing
    /\ fate = "stopped" => AtResave
    /\ fate = "gone" =>
          tty = "cooked" /\ cursor = "shown" /\ (cause = "none" => Kept(disposed))

-----------------------------------------------------------------------------
(* Lists of steps.                                                         *)

\* A list that begins with a step.
LEMMA Cons ==
    ASSUME NEW x \in Steps, NEW rest \in Seq(Steps)
    PROVE  /\ <<x>> \o rest \in Seq(Steps) /\ <<x>> \o rest # <<>>
           /\ Head(<<x>> \o rest) = x /\ Tail(<<x>> \o rest) = rest
<1>1. <<x>> \in Seq(Steps) /\ Len(<<x>>) = 1 /\ <<x>>[1] = x
    OBVIOUS
<1>2. /\ <<x>> \o rest \in Seq(Steps) /\ Len(<<x>> \o rest) = 1 + Len(rest)
      /\ \A i \in 1 .. 1 + Len(rest) :
            (<<x>> \o rest)[i] = IF i <= 1 THEN x ELSE rest[i - 1]
    BY <1>1, ConcatProperties
<1>3. <<x>> \o rest # <<>>
    BY <1>2, LenProperties
<1>4. Head(<<x>> \o rest) = x
    BY <1>2, <1>3, HeadTailProperties, LenProperties
<1>5. Tail(<<x>> \o rest) = rest
    <2>1. /\ Tail(<<x>> \o rest) \in Seq(Steps) /\ Len(Tail(<<x>> \o rest)) = Len(rest)
          /\ \A i \in 1 .. Len(rest) : Tail(<<x>> \o rest)[i] = (<<x>> \o rest)[i + 1]
        BY <1>2, <1>3, HeadTailProperties, LenProperties
    <2>2. \A i \in 1 .. Len(rest) : Tail(<<x>> \o rest)[i] = rest[i]
        BY <1>2, <2>1, LenProperties
    <2>3. QED
        BY <2>1, <2>2, SeqEqual
<1>6. QED
    BY <1>2, <1>3, <1>4, <1>5

\* The same, of the two kinds of steps there are.
LEMMA ThenList ==
    ASSUME NEW what \in Names, NEW rest \in Lists
    PROVE  /\ Then(what, rest) \in Lists /\ Then(what, rest) # <<>>
           /\ Head(Then(what, rest)).do = what /\ Tail(Then(what, rest)) = rest
<1>1. [do |-> what] \in Steps
    BY DEF Steps
<1>2. QED
    BY <1>1, Cons DEF Then, Do, Lists

LEMMA ThenOfList ==
    ASSUME NEW what \in Names, NEW s \in Caught, NEW rest \in Lists
    PROVE  /\ ThenOf(what, s, rest) \in Lists /\ ThenOf(what, s, rest) # <<>>
           /\ Head(ThenOf(what, s, rest)).do = what
           /\ Head(ThenOf(what, s, rest)).signal = s
           /\ Tail(ThenOf(what, s, rest)) = rest
<1>1. [do |-> what, signal |-> s] \in Steps
    BY DEF Steps
<1>2. QED
    BY <1>1, Cons DEF ThenOf, Raising, Lists

\* Single steps are lists of steps, and lists are put together in any order.
LEMMA Singles ==
    /\ <<>> \in Lists
    /\ \A what \in Names : Do(what) \in Lists
    /\ \A what \in Names, s \in Caught : Raising(what, s) \in Lists
<1>1. <<>> \in Lists
    BY DEF Lists
<1>2. ASSUME NEW what \in Names PROVE Do(what) \in Lists
    BY DEF Do, Steps, Lists
<1>3. ASSUME NEW what \in Names, NEW s \in Caught PROVE Raising(what, s) \in Lists
    BY DEF Raising, Steps, Lists
<1>4. QED
    BY <1>1, <1>2, <1>3

Joined(r, s) == r \o s

LEMMA JoinedLists ==
    ASSUME NEW r \in Lists, NEW s \in Lists, NEW t \in Lists
    PROVE  /\ Joined(r, s) \in Lists
           /\ Joined(Joined(r, s), t) = Joined(r, Joined(s, t))
           /\ Joined(r, <<>>) = r
<1>1. r \o s \in Seq(Steps)
    BY ConcatProperties DEF Lists
<1>2. (r \o s) \o t = r \o (s \o t)
    BY ConcatAssociative DEF Lists
<1>3. r \o <<>> = r
    BY ConcatEmptySeq DEF Lists
<1>4. QED
    BY <1>1, <1>2, <1>3, Zenon DEF Joined, Lists

\* A list that goes on after its first step.
LEMMA ThenJoined ==
    ASSUME NEW what \in Names, NEW rest \in Lists, NEW more \in Lists
    PROVE  /\ Joined(Do(what), more) = Then(what, more)
           /\ Joined(Then(what, rest), more) = Then(what, Joined(rest, more))
<1>1. Do(what) \in Lists
    BY Singles
<1>2. Then(what, rest) = Joined(Do(what), rest) /\ Then(what, more) = Joined(Do(what), more)
    BY DEF Then, Joined
<1>3. Then(what, Joined(rest, more)) = Joined(Do(what), Joined(rest, more))
    BY DEF Then, Joined
<1>4. QED
    BY <1>1, <1>2, <1>3, JoinedLists

\* __exit__, and what it leads to.
LEMMA ExitGiving ==
    ASSUME NEW rest \in Lists
    PROVE  /\ Exit \in Lists /\ Exit = Giving(<<>>) /\ Joined(Exit, rest) = Giving(rest)
<1> USE DEF Names
<1>0. Do("give") \in Lists /\ Do("show") \in Lists /\ Do("restore") \in Lists /\ <<>> \in Lists
    BY Singles
<1>1. Exit = Joined(Joined(Do("give"), Do("show")), Do("restore"))
    BY DEF Exit, Joined
<1>2. Exit = Joined(Do("give"), Joined(Do("show"), Do("restore")))
    BY <1>0, <1>1, JoinedLists
<1>3. ASSUME NEW more \in Lists PROVE Joined(Exit, more) = Giving(more)
    <2>1. Joined(Do("show"), Do("restore")) \in Lists
        BY <1>0, JoinedLists
    <2>2. Joined(Exit, more) = Joined(Do("give"), Joined(Joined(Do("show"), Do("restore")), more))
        BY <1>0, <1>2, <2>1, JoinedLists
    <2>3. Joined(Joined(Do("show"), Do("restore")), more)
              = Joined(Do("show"), Joined(Do("restore"), more))
        BY <1>0, JoinedLists
    <2>4. Joined(Do("restore"), more) = Then("restore", more) /\ Then("restore", more) \in Lists
        BY <1>0, ThenJoined, ThenList
    <2>5. /\ Joined(Do("show"), Then("restore", more)) = Then("show", Then("restore", more))
          /\ Then("show", Then("restore", more)) \in Lists
        BY <2>4, <1>0, ThenJoined, ThenList
    <2>6. Joined(Do("give"), Then("show", Then("restore", more))) = Giving(more)
        BY <2>5, <1>0, ThenJoined DEF Giving
    <2>7. QED
        BY <2>2, <2>3, <2>4, <2>5, <2>6
<1>4. Exit \in Lists
    BY <1>0, <1>2, JoinedLists
<1>5. Exit = Giving(<<>>)
    BY <1>0, <1>3, <1>4, JoinedLists
<1>6. QED
    BY <1>3, <1>4, <1>5

\* Everything there may be left to do is a list of steps.
LEMMA ShapesAreLists ==
    /\ Browsing \in Lists /\ Browsing # <<>>
    /\ Head(Browsing).do = "browse" /\ Tail(Browsing) = Giving(<<>>)
    /\ Taking \in Lists
    /\ \A s \in Caught : After(s) \in Lists /\ Raise(s) \in Lists
    /\ \A rest \in Rests : rest \in Lists
    /\ \A rest \in Lists : Giving(rest) \in Lists
<1> USE DEF Names
<1>1. /\ Browsing \in Lists /\ Browsing # <<>>
      /\ Head(Browsing).do = "browse" /\ Tail(Browsing) = Giving(<<>>)
    <2>1. Browsing = Then("browse", Exit)
        BY DEF Browsing, Then
    <2>2. QED
        BY <2>1, ExitGiving, ThenList, Singles
<1>2. Taking \in Lists
    BY <1>1, ThenList DEF Taking
<1>3. ASSUME NEW s \in Caught PROVE After(s) \in Lists /\ Raise(s) \in Lists
    <2>1. After(s) \in Lists
        BY <1>1, <1>2, ThenList DEF After
    <2>2. QED
        BY <2>1, ThenOfList DEF Raise
<1>4. ASSUME NEW rest \in Lists PROVE Giving(rest) \in Lists
    BY ThenList DEF Giving
<1>5. QED
    BY <1>1, <1>2, <1>3, <1>4, Singles DEF Rests

\* What is appended to a list is what its last step is followed by.
LEMMA Shift ==
    ASSUME NEW list \in Lists, NEW what \in Names, NEW s \in Caught, NEW rest \in Lists
    PROVE  /\ Joined(list, Do(what)) \in Lists
           /\ Joined(Joined(list, Do(what)), rest) = Joined(list, Then(what, rest))
           /\ Joined(list, Raising(what, s)) \in Lists
           /\ Joined(Joined(list, Raising(what, s)), rest) = Joined(list, ThenOf(what, s, rest))
<1>1. Do(what) \in Lists /\ Raising(what, s) \in Lists
    BY Singles
<1>2. Joined(Do(what), rest) = Then(what, rest)
    BY DEF Joined, Then
<1>3. Joined(Raising(what, s), rest) = ThenOf(what, s, rest)
    BY DEF Joined, ThenOf
<1>4. QED
    BY <1>1, <1>2, <1>3, JoinedLists

\* A browse begins by taking the terminal.
LEMMA EnterTaking ==
    Enter \o Do("browse") \o Exit = Then("save", Taking) /\ Then("save", Taking) \in Lists
<1> USE DEF Names
<1>1. Stop \in Caught
    BY DEF Caught
<1> DEFINE s1 == Do("save")
           s2 == Joined(s1, Do("cbreak"))
           s3 == Joined(s2, Do("hide"))
           s4 == Joined(s3, Do("catch"))
           r4 == Then("catch", Browsing)
           r3 == Then("hide", r4)
<1>2. Enter \o Do("browse") \o Exit = Joined(Joined(s4, Do("browse")), Exit)
    BY DEF Enter, Joined
<1>3. Exit \in Lists /\ Then("browse", Exit) = Browsing /\ <<>> \in Lists
    BY ExitGiving, Singles DEF Browsing, Then
<1>4. /\ Browsing \in Lists /\ r4 \in Lists /\ r3 \in Lists /\ Taking = Then("cbreak", r3)
      /\ Taking \in Lists /\ Then("save", Taking) \in Lists
    BY ShapesAreLists, ThenList DEF Taking
<1>5. s1 \in Lists /\ s2 \in Lists /\ s3 \in Lists /\ s4 \in Lists
    BY <1>1, <1>3, Singles, Shift
<1> HIDE DEF s1, s2, s3, s4, r3, r4
<1>6. Joined(Joined(s4, Do("browse")), Exit) = Joined(s4, Browsing)
    BY <1>1, <1>3, <1>5, Shift
<1>7. Joined(s4, Browsing) = Joined(s3, r4)
    BY <1>1, <1>4, <1>5, Shift DEF s4, r4
<1>8. Joined(s3, r4) = Joined(s2, r3)
    BY <1>1, <1>4, <1>5, Shift DEF s3, r3
<1>9. Joined(s2, r3) = Joined(s1, Taking)
    BY <1>1, <1>4, <1>5, Shift DEF s2
<1>10. Joined(s1, Taking) = Then("save", Taking)
    BY DEF s1, Joined, Then
<1>11. QED
    BY <1>2, <1>4, <1>6, <1>7, <1>8, <1>9, <1>10

\* A handler gives the terminal back, raises its signal, and, after a Ctrl-Z, goes
\* on to take it again.
LEMMA HandlerGiving ==
    ASSUME NEW s \in Caught
    PROVE  Handler(s) \o Browsing = Giving(Raise(s))
<1> USE DEF Names
<1> DEFINE e1 == Joined(Exit, Raising("default", s))
           e2 == Joined(e1, Raising("kill", s))
<1>1. Exit \in Lists /\ Browsing \in Lists /\ After(s) \in Lists /\ <<>> \in Lists
    BY ExitGiving, ShapesAreLists, Singles
<1>2. e1 \in Lists /\ e2 \in Lists
    BY <1>1, Shift
<1> HIDE DEF e1, e2
<1>3. Joined(e2, After(s)) = Giving(Raise(s))
    <2> DEFINE kill == ThenOf("kill", s, After(s))
    <2>0. Raise(s) = ThenOf("default", s, kill)
        BY DEF Raise
    <2>2. kill \in Lists
        BY <1>1, ThenOfList
    <2>1. Joined(e2, After(s)) = Joined(e1, kill)
        BY <1>1, <1>2, Shift DEF e2
    <2> HIDE DEF kill
    <2>3. Joined(e1, kill) = Joined(Exit, Raise(s))
        BY <1>1, <2>0, <2>2, Shift DEF e1
    <2>4. Raise(s) \in Lists
        BY ShapesAreLists
    <2>5. QED
        BY <2>1, <2>3, <2>4, ExitGiving
<1>4. CASE s # Stop
    <2>1. Handler(s) = e2
        BY <1>4 DEF Handler, Die, Joined, e1, e2
    <2>2. Handler(s) \o Browsing = Joined(e2, After(s))
        BY <1>4, <2>1 DEF Joined, After
    <2>3. QED
        BY <1>3, <2>2
<1>5. CASE s = Stop
    <2> DEFINE e3 == Joined(e2, Do("resave"))
               e4 == Joined(e3, Do("cbreak"))
               e5 == Joined(e4, Do("hide"))
               e6 == Joined(e5, Do("catch"))
               r6 == Then("catch", Browsing)
               r5 == Then("hide", r6)
    <2>1. Handler(s) = e6
        BY <1>5 DEF Handler, Suspend, Joined, e1, e2
    <2>2. /\ r6 \in Lists /\ r5 \in Lists /\ Taking = Then("cbreak", r5) /\ Taking \in Lists
          /\ After(s) = Then("resave", Taking)
        BY <1>1, <1>5, ShapesAreLists, ThenList DEF Taking, After
    <2>3. e3 \in Lists /\ e4 \in Lists /\ e5 \in Lists
        BY <1>1, <1>2, Shift
    <2>4. Handler(s) \o Browsing = Joined(e6, Browsing)
        BY <2>1 DEF Joined
    <2> HIDE DEF e3, e4, e5, e6, r5, r6
    <2>5. Joined(e6, Browsing) = Joined(e5, r6)
        BY <1>1, <2>3, Shift DEF e6, r6
    <2>6. Joined(e5, r6) = Joined(e4, r5)
        BY <2>2, <2>3, Shift DEF e5, r5
    <2>7. Joined(e4, r5) = Joined(e3, Taking)
        BY <2>2, <2>3, Shift DEF e4
    <2>8. Joined(e3, Taking) = Joined(e2, After(s))
        BY <1>2, <2>2, Shift DEF e3
    <2>9. QED
        BY <1>3, <2>4, <2>5, <2>6, <2>7, <2>8
<1>6. QED
    BY <1>4, <1>5

-----------------------------------------------------------------------------
(* The invariant.                                                          *)

\* A process starts with everything handed back.
LEMMA InitInvariant == Init => IInv
<1> SUFFICES ASSUME Init PROVE IInv
    OBVIOUS
<1>1. original \in Originals /\ original \in [Caught -> Outer]
    BY TerminalAssumption DEF Init
<1>2. agenda = Then("save", Taking)
    BY EnterTaking DEF Init
<1>3. Kept(disposed)
    BY <1>1 DEF Init, Kept, Caught
<1>4. AtSave
    BY <1>2, <1>3 DEF Init, AtSave, Handed, Unarmed
<1>5. QED
    BY <1>1, <1>4 DEF Init, IInv, Standing

\* Unless a key is awaited, a process that runs is doing its next step.
LEMMA Undisturbed ==
    ASSUME ~AnyTime, fate = "running", agenda # <<>> => Head(agenda).do # "browse", Next
    PROVE  Step
<1>1. ~MayCome
    BY DEF MayCome, Running
<1>2. QED
    BY <1>1 DEF Next, Resume, Interrupt, Gone, Deliver, Wait

\* The step it is doing is the first that is left.
LEMMA StepIsFirst ==
    ASSUME Step, NEW what, agenda # <<>>, Head(agenda).do = what
    PROVE  /\ fate = "running"
           /\ \/ what \in {"save", "resave"} /\ Save
              \/ what = "cbreak" /\ Cbreak
              \/ what = "hide" /\ Hide
              \/ what = "catch" /\ Catch
              \/ what = "give" /\ Give
              \/ what = "show" /\ Show
              \/ what = "restore" /\ Restore
              \/ what = "default" /\ Default
              \/ what = "kill" /\ Kill
              \/ what = "browse" /\ (Begin \/ Browse)
BY DEF Step, Save, Cbreak, Hide, Catch, Give, Show, Restore, Default, Kill, Begin, Browse,
       Finish, Running

\* What a step that is nobody else's leaves alone.
Alone == UNCHANGED <<original, fate, pending>>

LEMMA TakingSteps ==
    ASSUME ~AnyTime, IInv, Next, fate = "running",
           AtSave \/ AtResave \/ AtCbreak \/ AtHide \/ AtCatch
    PROVE  Standing' /\ Alone
<1> USE DEF Names
<1>0. Browsing \in Lists /\ Taking \in Lists /\ Then("catch", Browsing) \in Lists
      /\ Then("hide", Then("catch", Browsing)) \in Lists
    BY ShapesAreLists, ThenList
<1>1. CASE AtSave \/ AtResave
    <2>1. agenda # <<>> /\ Head(agenda).do \in {"save", "resave"} /\ Tail(agenda) = Taking
        <3>1. CASE AtSave
            BY <1>0, <3>1, ThenList DEF AtSave
        <3>2. CASE AtResave
            BY <1>0, <3>2, ThenList DEF AtResave
        <3>3. QED
            BY <1>1, <3>1, <3>2
    <2>2. Save
        BY <2>1, Undisturbed, StepIsFirst
    <2>3. AtCbreak' /\ Alone
        BY <1>1, <2>1, <2>2
        DEF AtSave, AtResave, AtCbreak, Save, Done, Unsignalled, Handed, Held, Unarmed, Kept, Alone
    <2>4. QED
        BY <2>3 DEF Standing
<1>2. CASE AtCbreak
    <2>1. /\ agenda # <<>> /\ Head(agenda).do = "cbreak"
          /\ Tail(agenda) = Then("hide", Then("catch", Browsing))
        BY <1>0, <1>2, ThenList DEF AtCbreak, Taking
    <2>2. Cbreak
        BY <2>1, Undisturbed, StepIsFirst
    <2>3. AtHide' /\ Alone
        BY <1>2, <2>1, <2>2
        DEF AtCbreak, AtHide, Cbreak, Done, Unsignalled, Held, Unarmed, Kept, Alone
    <2>4. QED
        BY <2>3 DEF Standing
<1>3. CASE AtHide
    <2>1. agenda # <<>> /\ Head(agenda).do = "hide" /\ Tail(agenda) = Then("catch", Browsing)
        BY <1>0, <1>3, ThenList DEF AtHide
    <2>2. Hide
        BY <2>1, Undisturbed, StepIsFirst
    <2>3. AtCatch' /\ Alone
        BY <1>3, <2>1, <2>2
        DEF AtHide, AtCatch, Hide, Done, Unsignalled, Held, Unarmed, Kept, Alone
    <2>4. QED
        BY <2>3 DEF Standing
<1>4. CASE AtCatch
    <2>1. agenda # <<>> /\ Head(agenda).do = "catch" /\ Tail(agenda) = Browsing
        BY <1>0, <1>4, ThenList DEF AtCatch
    <2>2. Catch
        BY <2>1, Undisturbed, StepIsFirst
    <2>3. AtBrowse' /\ Alone
        BY <1>4, <2>1, <2>2
        DEF AtCatch, AtBrowse, Catch, Done, Unsignalled, Held, Unarmed, Armed, Kept, Alone
    <2>4. QED
        BY <2>3 DEF Standing
<1>5. QED
    BY <1>1, <1>2, <1>3, <1>4

LEMMA GivingSteps ==
    ASSUME ~AnyTime, IInv, Next, fate = "running", NEW rest \in Rests,
           AtGive(rest) \/ AtShow(rest) \/ AtRestore(rest)
    PROVE  Standing' /\ Alone
<1> USE DEF Names
<1>0. /\ rest \in Lists /\ Then("restore", rest) \in Lists
      /\ Then("show", Then("restore", rest)) \in Lists
    BY ShapesAreLists, ThenList
<1>1. CASE AtGive(rest)
    <2>1. /\ agenda # <<>> /\ Head(agenda).do = "give"
          /\ Tail(agenda) = Then("show", Then("restore", rest))
        BY <1>0, <1>1, ThenList DEF AtGive, Giving
    <2>2. Give
        BY <2>1, Undisturbed, StepIsFirst
    <2>3. previous # <<>>
        BY <1>1 DEF AtGive, Armed, Kept, Caught
    <2>4. AtShow(rest)' /\ Alone
        <3>1. agenda' = Then("show", Then("restore", rest)) /\ Alone
            BY <2>1, <2>2 DEF Give, Done, Unsignalled, Alone
        <3>2. Held("raw", "hidden")'
            BY <1>1, <2>2 DEF Give, AtGive, Held
        <3>3. Unarmed'
            BY <1>1, <2>2, <2>3 DEF Give, AtGive, Armed, Unarmed, Kept, Unsignalled
        <3>4. QED
            BY <3>1, <3>2, <3>3 DEF AtShow, Rests
    <2>5. QED
        BY <2>4 DEF Standing
<1>2. CASE AtShow(rest)
    <2>1. agenda # <<>> /\ Head(agenda).do = "show" /\ Tail(agenda) = Then("restore", rest)
        BY <1>0, <1>2, ThenList DEF AtShow
    <2>2. Show
        BY <2>1, Undisturbed, StepIsFirst
    <2>3. AtRestore(rest)' /\ Alone
        BY <1>2, <2>1, <2>2
        DEF AtShow, AtRestore, Show, Done, Unsignalled, Held, Unarmed, Kept, Alone
    <2>4. QED
        BY <2>3 DEF Standing
<1>3. CASE AtRestore(rest)
    <2>1. agenda # <<>> /\ Head(agenda).do = "restore" /\ Tail(agenda) = rest
        BY <1>0, <1>3, ThenList DEF AtRestore
    <2>2. Restore
        BY <2>1, Undisturbed, StepIsFirst
    <2>3. AtRest(rest)' /\ Alone
        BY <1>3, <2>1, <2>2
        DEF AtRestore, AtRest, Restore, Done, Unsignalled, Held, Handed, Unarmed, Kept, Alone
    <2>4. QED
        BY <2>3 DEF Standing
<1>4. QED
    BY <1>1, <1>2, <1>3

\* The browse is over, or a handler has given the terminal back.
LEMMA RestSteps ==
    ASSUME ~AnyTime, IInv, Next, fate = "running", NEW rest \in Rests, AtRest(rest)
    PROVE  IInv'
<1> USE DEF Names
<1>1. CASE rest = <<>>
    <2>1. agenda = <<>>
        BY <1>1 DEF AtRest
    <2>2. Step
        BY <2>1, Undisturbed
    <2>3. Finish
        BY <2>1, <2>2
        DEF Step, Save, Cbreak, Hide, Catch, Give, Show, Restore, Default, Kill, Begin,
            Browse, Running
    <2>4. QED
        BY <2>3 DEF Finish, IInv, AtRest, Handed, Unarmed, Kept, taken
<1>2. ASSUME NEW s \in Caught, rest = Raise(s)
      PROVE  IInv'
    <2>1. ThenOf("kill", s, After(s)) \in Lists
        BY ShapesAreLists, ThenOfList
    <2>2. /\ agenda # <<>> /\ Head(agenda).do = "default" /\ Head(agenda).signal = s
          /\ Tail(agenda) = ThenOf("kill", s, After(s))
        BY <1>2, <2>1, ThenOfList DEF AtRest, Raise
    <2>3. Default
        BY <2>2, Undisturbed, StepIsFirst
    <2>4. /\ agenda' = ThenOf("kill", s, After(s))
          /\ disposed' = [disposed EXCEPT ![s] = "default"]
          /\ UNCHANGED <<original, fate, pending, previous, saved, tty, cursor>>
        BY <2>2, <2>3 DEF Default, Done, Unsignalled
    <2>5. Kept(disposed) /\ Handed
        BY DEF AtRest, Unarmed
    <2>6. disposed'[s] = "default" /\ (s = Stop => Kept(disposed)')
        BY <2>4, <2>5, TerminalAssumption DEF Kept, Caught, Outer
    <2>7. AtKill(s)'
        BY <2>4, <2>5, <2>6 DEF AtKill, Handed, Unarmed
    <2>8. QED
        BY <2>4, <2>7 DEF IInv, Standing
<1>3. QED
    BY <1>1, <1>2 DEF Rests

\* A handler's signal takes effect.
LEMMA KillSteps ==
    ASSUME ~AnyTime, IInv, Next, fate = "running", NEW s \in Caught, AtKill(s)
    PROVE  IInv'
<1> USE DEF Names
<1>1. After(s) \in Lists
    BY ShapesAreLists
<1>2. /\ agenda # <<>> /\ Head(agenda).do = "kill" /\ Head(agenda).signal = s
      /\ Tail(agenda) = After(s)
    BY <1>1, ThenOfList DEF AtKill
<1>3. Kill
    BY <1>2, Undisturbed, StepIsFirst
<1>4. agenda' = After(s) /\ Act(s) /\ UNCHANGED <<original, taken, pending>>
    BY <1>2, <1>3 DEF Kill, Done
<1>5. CASE s = Stop
    <2>1. AtResave'
        BY <1>4, <1>5 DEF AtKill, AtResave, After, Handed, Unarmed, Kept, taken
    <2>2. QED
        BY <1>4, <1>5, <2>1 DEF Act, IInv
<1>6. CASE s # Stop
    <2>1. cause' \in Fatal /\ fate' = "gone"
        BY <1>4, <1>6 DEF Act, Caught
    <2>2. QED
        BY <1>4, <2>1, TerminalAssumption DEF IInv, AtKill, Handed, taken
<1>7. QED
    BY <1>5, <1>6

\* While a key is awaited, every signal finds its handler.
LEMMA BrowseSteps ==
    ASSUME ~AnyTime, IInv, Next, fate = "running", AtBrowse
    PROVE  IInv'
<1>1. agenda # <<>> /\ Head(agenda).do = "browse" /\ Tail(agenda) = Giving(<<>>)
    BY ShapesAreLists DEF AtBrowse
<1>2. CASE Step
    <2>1. Begin \/ Browse
        BY <1>1, <1>2, StepIsFirst
    <2>2. CASE Begin
        BY <2>2 DEF Begin, IInv, Standing, AtBrowse, Held, Armed, Kept, taken
    <2>3. CASE Browse
        <3>1. AtGive(<<>>)'
            BY <1>1, <2>3 DEF Browse, Done, AtBrowse, AtGive, Held, Armed, Kept, taken
        <3>2. QED
            BY <2>3, <3>1 DEF Browse, IInv, Standing, Rests
    <2>4. QED
        BY <2>1, <2>2, <2>3
<1>3. CASE Interrupt
    <2>1. within
        BY <1>3 DEF Interrupt, MayCome, Running
    <2>2. agenda' = Giving(<<>>)
        BY <1>3, <2>1, ExitGiving, Singles DEF Interrupt
    <2>3. AtGive(<<>>)'
        BY <1>3, <2>2 DEF Interrupt, AtBrowse, AtGive, Held, Armed, Kept, taken
    <2>4. QED
        BY <1>3, <2>3 DEF Interrupt, IInv, Standing, Rests
<1>4. ASSUME NEW s \in Caught, Deliver(s) PROVE IInv'
    <2>1. disposed[s] = "handler"
        BY DEF AtBrowse, Armed
    <2>2. /\ agenda' = Handler(s) \o Browsing
          /\ UNCHANGED <<original, taken, fate, pending>>
        BY <1>4, <2>1 DEF Deliver, AtBrowse
    <2>3. agenda' = Giving(Raise(s))
        BY <2>2, HandlerGiving
    <2>4. Raise(s) \in Rests
        BY DEF Rests
    <2>5. AtGive(Raise(s))'
        BY <2>2, <2>3 DEF AtBrowse, AtGive, Held, Armed, Kept, taken
    <2>6. QED
        BY <2>2, <2>4, <2>5 DEF IInv, Standing
<1>5. QED
    BY <1>2, <1>3, <1>4 DEF Next, Resume, Wait, Gone

\* A stopped process keeps what comes for it, and is resumed or dies of it.
LEMMA StoppedSteps ==
    ASSUME ~AnyTime, IInv, Next, fate = "stopped"
    PROVE  IInv'
<1>1. ASSUME NEW s \in Caught, Wait(s) PROVE IInv'
    <2>1. /\ UNCHANGED <<original, taken, agenda, fate>>
          /\ pending' = pending \cup {s} /\ s \in Fatal
        BY <1>1 DEF Wait, Caught
    <2>2. QED
        BY <2>1 DEF IInv, AtResave, Handed, Unarmed, Kept, taken
<1>2. CASE Resume
    <2>1. UNCHANGED <<original, taken, agenda>> /\ pending' = {}
        BY <1>2 DEF Resume
    <2>2. AtResave'
        BY <2>1 DEF IInv, AtResave, Handed, Unarmed, Kept, taken
    <2>3. CASE fate' = "running"
        BY <2>1, <2>2, <2>3 DEF IInv, Standing
    <2>4. CASE \E s \in pending : Act(s)
        <3>1. PICK s \in Fatal : Act(s)
            BY <2>4 DEF IInv
        <3>2. cause' # "none" /\ fate' = "gone"
            BY <3>1, TerminalAssumption DEF Act
        <3>3. QED
            BY <2>1, <2>2, <3>2 DEF IInv, AtResave, Handed
    <2>5. QED
        BY <1>2, <2>3, <2>4 DEF Resume
<1>3. QED
    BY <1>1, <1>2
    DEF Next, Step, Save, Cbreak, Hide, Catch, Give, Show, Restore, Default, Kill, Begin, Browse,
        Finish, Running, Interrupt, Deliver, Gone

\* Every step keeps to it.
LEMMA StepInvariant == ~AnyTime /\ IInv /\ [Next]_vars => IInv'
<1> SUFFICES ASSUME ~AnyTime, IInv, [Next]_vars PROVE IInv'
    OBVIOUS
<1>1. CASE UNCHANGED vars
    BY <1>1
    DEF vars, taken, IInv, Standing, AtSave, AtResave, AtCbreak, AtHide, AtCatch, AtBrowse, AtGive,
        AtShow, AtRestore, AtRest, AtKill, Handed, Held, Armed, Unarmed, Kept
<1>2. CASE Next /\ fate = "running"
    <2>1. Standing
        BY <1>2 DEF IInv
    <2>2. CASE AtSave \/ AtResave \/ AtCbreak \/ AtHide \/ AtCatch
        BY <1>2, <2>2, TakingSteps DEF Alone, IInv
    <2>3. CASE AtBrowse
        BY <1>2, <2>3, BrowseSteps
    <2>4. ASSUME NEW rest \in Rests, AtGive(rest) \/ AtShow(rest) \/ AtRestore(rest)
          PROVE  IInv'
        BY <1>2, <2>4, GivingSteps DEF Alone, IInv
    <2>5. ASSUME NEW rest \in Rests, AtRest(rest) PROVE IInv'
        BY <1>2, <2>5, RestSteps
    <2>6. ASSUME NEW s \in Caught, AtKill(s) PROVE IInv'
        BY <1>2, <2>6, KillSteps
    <2>7. QED
        BY <2>1, <2>2, <2>3, <2>4, <2>5, <2>6 DEF Standing
<1>3. CASE Next /\ fate = "stopped"
    BY <1>3, StoppedSteps
<1>4. CASE Next /\ fate = "gone"
    <2>1. UNCHANGED vars
        BY <1>4
        DEF Next, Step, Save, Cbreak, Hide, Catch, Give, Show, Restore, Default, Kill, Begin,
            Browse, Finish, Running, Resume, Interrupt, Deliver, Wait, Gone
    <2>2. QED
        BY <1>1, <2>1
<1>5. QED
    BY <1>1, <1>2, <1>3, <1>4 DEF IInv

\* It holds throughout.
LEMMA Invariance == ASSUME ~AnyTime PROVE Spec => []IInv
<1>1. Init => IInv
    BY InitInvariant
<1>2. IInv /\ [Next]_vars => IInv'
    BY StepInvariant
<1>3. QED
    BY <1>1, <1>2, PTL DEF Spec

-----------------------------------------------------------------------------
(* The types.                                                              *)

\* What the main thread is about to do says where it stands.
LEMMA WhereItStands ==
    ASSUME IInv, fate = "running", agenda # <<>>
    PROVE  /\ Head(agenda).do = "browse" => AtBrowse
           /\ Head(agenda).do = "kill" => \E s \in Caught : AtKill(s)
<1> USE DEF Names
<1> DEFINE first == Head(agenda).do
<1>1. Standing
    BY DEF IInv
<1>2. /\ Browsing \in Lists /\ Taking \in Lists
      /\ Then("catch", Browsing) \in Lists
      /\ Then("hide", Then("catch", Browsing)) \in Lists
    BY ShapesAreLists, ThenList
<1>3. CASE AtSave \/ AtResave
    <2>1. Head(Then("save", Taking)).do = "save" /\ Head(Then("resave", Taking)).do = "resave"
        BY <1>2, ThenList
    <2>2. QED
        BY <1>3, <2>1 DEF AtSave, AtResave
<1>4. CASE AtCbreak \/ AtHide \/ AtCatch
    <2>1. Head(Taking).do = "cbreak"
        BY <1>2, ThenList DEF Taking
    <2>2. Head(Then("hide", Then("catch", Browsing))).do = "hide"
        BY <1>2, ThenList
    <2>3. Head(Then("catch", Browsing)).do = "catch"
        BY <1>2, ThenList
    <2>4. QED
        BY <1>4, <2>1, <2>2, <2>3 DEF AtCbreak, AtHide, AtCatch
<1>5. CASE AtBrowse
    BY <1>5, ShapesAreLists DEF AtBrowse
<1>6. ASSUME NEW rest \in Rests, AtGive(rest) \/ AtShow(rest) \/ AtRestore(rest) \/ AtRest(rest)
      PROVE  first \in {"give", "show", "restore", "default"}
    <2>1. /\ rest \in Lists /\ Then("restore", rest) \in Lists
          /\ Then("show", Then("restore", rest)) \in Lists
        BY ShapesAreLists, ThenList
    <2>2. Head(Giving(rest)).do = "give"
        BY <2>1, ThenList DEF Giving
    <2>3. Head(Then("show", Then("restore", rest))).do = "show"
        BY <2>1, ThenList
    <2>4. Head(Then("restore", rest)).do = "restore"
        BY <2>1, ThenList
    <2>5. ASSUME NEW s \in Caught PROVE Head(Raise(s)).do = "default"
        BY ShapesAreLists, ThenOfList DEF Raise
    <2>6. AtRest(rest) => first = "default"
        BY <2>5 DEF AtRest, Rests
    <2>7. QED
        BY <1>6, <2>2, <2>3, <2>4, <2>6 DEF AtGive, AtShow, AtRestore
<1>7. ASSUME NEW s \in Caught, AtKill(s)
      PROVE  first = "kill"
    BY <1>7, ShapesAreLists, ThenOfList DEF AtKill
<1>8. QED
    BY <1>1, <1>3, <1>4, <1>5, <1>6, <1>7 DEF Standing

\* The types.  That the modes are saved whenever the terminal is raw is where the
\* main thread stands.
Typed ==
    /\ original \in [Caught -> Outer]
    /\ disposed \in [Caught -> Outer \cup {"handler"}]
    /\ previous = <<>> \/ previous \in [Caught -> Outer \cup {"handler"}]
    /\ saved \in BOOLEAN /\ within \in BOOLEAN /\ told \in BOOLEAN
    /\ tty \in {"cooked", "raw"} /\ cursor \in {"shown", "hidden"}
    /\ fate \in {"running", "stopped", "gone"} /\ cause \in Fatal \cup {"none"}
    /\ pending \subseteq Fatal /\ signals \in 0 .. MaxSignals
    /\ pending # {} => fate = "stopped"

LEMMA InitTyped == Init => Typed
<1> SUFFICES ASSUME Init PROVE Typed
    OBVIOUS
<1>1. original \in [Caught -> Outer] /\ disposed = original
    BY TerminalAssumption DEF Init
<1>2. disposed \in [Caught -> Outer \cup {"handler"}]
    BY <1>1
<1>3. signals \in 0 .. MaxSignals
    BY TerminalAssumption DEF Init
<1>4. QED
    BY <1>1, <1>2, <1>3 DEF Init, Typed

\* A signal that is acted on is one that is caught.
LEMMA ActTyped ==
    ASSUME NEW s \in Caught, Act(s), cause \in Fatal \cup {"none"}
    PROVE  fate' \in {"running", "stopped", "gone"} /\ cause' \in Fatal \cup {"none"}
BY DEF Act, Caught

LEMMA StepTyped == IInv /\ Typed /\ Step => Typed'
<1> SUFFICES ASSUME IInv, Typed, Step PROVE Typed'
    OBVIOUS
<1>1. CASE Save \/ Cbreak \/ Hide \/ Show \/ Restore
    BY <1>1 DEF Typed, Save, Cbreak, Hide, Show, Restore, Unsignalled
<1>2. CASE Catch \/ Give \/ Default
    <2>1. UNCHANGED <<original, within, fate, told, cause, pending, signals, saved, tty, cursor>>
        BY <1>2 DEF Catch, Give, Default, Unsignalled
    <2>2. disposed' \in [Caught -> Outer \cup {"handler"}]
        <3>1. CASE Catch
            BY <3>1 DEF Catch
        <3>2. CASE Give
            BY <3>2 DEF Typed, Give
        <3>3. CASE Default
            BY <3>3 DEF Typed, Default, Outer
        <3>4. QED
            BY <1>2, <3>1, <3>2, <3>3
    <2>3. previous' = <<>> \/ previous' \in [Caught -> Outer \cup {"handler"}]
        BY <1>2 DEF Typed, Catch, Give, Default
    <2>4. QED
        BY <2>1, <2>2, <2>3 DEF Typed
<1>3. CASE Kill
    <2>1. Running("kill")
        BY <1>3 DEF Kill
    <2>2. PICK s \in Caught : AtKill(s)
        BY <2>1, WhereItStands DEF Running
    <2>3. Head(agenda).signal = s
        BY <2>2, ShapesAreLists, ThenOfList DEF AtKill, Names
    <2>4. Act(s) /\ UNCHANGED <<original, taken, within, told, pending, signals>>
        BY <1>3, <2>3 DEF Kill
    <2>5. pending' = {}
        BY <2>1, <2>4 DEF Typed, Running
    <2>6. fate' \in {"running", "stopped", "gone"} /\ cause' \in Fatal \cup {"none"}
        BY <2>4, ActTyped DEF Typed
    <2>7. QED
        BY <2>4, <2>5, <2>6 DEF Typed, taken
<1>4. CASE Begin \/ Browse
    BY <1>4 DEF Typed, Begin, Browse, taken
<1>5. CASE Finish
    BY <1>5 DEF Typed, Finish, taken
<1>6. QED
    BY <1>1, <1>2, <1>3, <1>4, <1>5 DEF Step

LEMMA NextTyped == ~AnyTime /\ IInv /\ Typed /\ [Next]_vars => Typed'
<1> SUFFICES ASSUME ~AnyTime, IInv, Typed, [Next]_vars PROVE Typed'
    OBVIOUS
<1>1. CASE Step
    BY <1>1, StepTyped
<1>2. CASE Resume
    <2>1. /\ UNCHANGED <<original, taken, within, told, signals>> /\ pending' = {}
        BY <1>2 DEF Resume
    <2>2. fate' \in {"running", "stopped", "gone"} /\ cause' \in Fatal \cup {"none"}
        <3>1. CASE fate' = "running" /\ UNCHANGED cause
            BY <3>1 DEF Typed
        <3>2. ASSUME NEW s \in pending, Act(s)
              PROVE  fate' \in {"running", "stopped", "gone"} /\ cause' \in Fatal \cup {"none"}
            <4>1. s \in Caught
                BY DEF Typed, Caught
            <4>2. QED
                BY <3>2, <4>1, ActTyped DEF Typed
        <3>3. QED
            BY <1>2, <3>1, <3>2 DEF Resume
    <2>3. QED
        BY <2>1, <2>2 DEF Typed, taken
<1>3. CASE Interrupt
    <2>1. /\ UNCHANGED <<original, taken, fate, told, cause, pending>>
          /\ within' = FALSE /\ signals' = signals + 1 /\ signals < MaxSignals
        BY <1>3 DEF Interrupt, MayCome
    <2>2. signals' \in 0 .. MaxSignals
        BY <2>1, TerminalAssumption DEF Typed
    <2>3. QED
        BY <2>1, <2>2 DEF Typed, taken
<1>4. ASSUME NEW s \in Caught, Deliver(s) PROVE Typed'
    <2>1. /\ UNCHANGED <<original, taken, within, pending>>
          /\ signals' = signals + 1 /\ signals < MaxSignals /\ fate = "running"
          /\ told' \in BOOLEAN
        BY <1>4 DEF Deliver, MayCome, Typed
    <2>2. fate' \in {"running", "stopped", "gone"} /\ cause' \in Fatal \cup {"none"}
        <3>1. CASE UNCHANGED <<fate, cause>>
            BY <3>1 DEF Typed
        <3>2. CASE Act(s)
            BY <3>2, ActTyped DEF Typed
        <3>3. disposed[s] \in {"handler", "default", "ignored"}
            BY DEF Typed, Outer
        <3>4. QED
            BY <1>4, <3>1, <3>2, <3>3 DEF Deliver
    <2>3. pending' = {}
        BY <2>1 DEF Typed
    <2>4. QED
        BY <2>1, <2>2, <2>3, TerminalAssumption DEF Typed, taken
<1>5. ASSUME NEW s \in Caught, Wait(s) PROVE Typed'
    BY <1>5, TerminalAssumption DEF Typed, Wait, MayCome, Caught, taken
<1>6. CASE UNCHANGED vars
    BY <1>6 DEF Typed, vars, taken
<1>7. QED
    BY <1>1, <1>2, <1>3, <1>4, <1>5, <1>6 DEF Next, Gone

-----------------------------------------------------------------------------
\* Every variable keeps its type, the modes are saved whenever the terminal is raw,
\* and nothing is pending for a process that runs.
THEOREM TypeCorrect == ASSUME ~AnyTime PROVE Spec => []TypeOK
<1>1. IInv /\ Typed => TypeOK
    <2>1. IInv => (tty = "raw" => saved)
        BY DEF IInv, Standing, AtSave, AtResave, AtCbreak, AtHide, AtCatch, AtBrowse, AtGive,
               AtShow, AtRestore, AtRest, AtKill, Handed, Held
    <2>2. QED
        BY <2>1 DEF Typed, TypeOK
<1>2. Init => Typed
    BY InitTyped
<1>3. IInv /\ Typed /\ [Next]_vars => Typed'
    BY NextTyped
<1>4. QED
    BY <1>1, <1>2, <1>3, Invariance, PTL DEF Spec

\* Whatever signals come while a key is awaited or the process is stopped, and
\* however often it is stopped: the terminal is whole when others have it.
THEOREM TerminalHandedBack == ASSUME ~AnyTime PROVE Spec => []HandedBack
<1>1. IInv => HandedBack
    BY DEF IInv, HandedBack, AtResave, Handed
<1>2. QED
    BY <1>1, Invariance, PTL

\* Whenever a key is awaited, after any number of Ctrl-Zs, the terminal is the
\* browse's and every handler is armed.
THEOREM BrowsesAreArmed == ASSUME ~AnyTime PROVE Spec => []ArmedWhileBrowsing
<1>1. ASSUME IInv, within, Running("browse")
      PROVE  AtBrowse
    BY <1>1, WhereItStands DEF Running
<1>2. IInv => ArmedWhileBrowsing
    BY <1>1 DEF ArmedWhileBrowsing, AtBrowse, Held, Armed
<1>3. QED
    BY <1>2, Invariance, PTL

\* A process that was not started with SIGTSTP ignored, and ends of no signal, goes
\* with the dispositions it came with.
THEOREM DispositionsHandedBack ==
    ASSUME ~AnyTime, \A shell \in Originals : shell[Stop] = "default"
    PROVE  Spec => []TruthHandedBack
<1>1. ASSUME IInv, fate = "gone", cause = "none"
      PROVE  disposed = original
    <2>1. Kept(disposed) /\ original \in [Caught -> Outer] /\ original[Stop] = "default"
        BY <1>1 DEF IInv
    <2>2. \A s \in Caught : disposed[s] = original[s]
        BY <2>1 DEF Kept, Caught
    <2>3. QED
        BY <2>1, <2>2 DEF Kept
<1>2. IInv => TruthHandedBack
    BY <1>1 DEF TruthHandedBack
<1>3. QED
    BY <1>2, Invariance, PTL
=============================================================================
