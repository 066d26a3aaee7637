------------------------- MODULE AccessCache_proofs -------------------------
(***************************************************************************)
(* What the clocks of the access cache guarantee for every TTL and every   *)
(* number of runs, questions and partitions: nothing stale is served,      *)
(* nothing fresh is dropped but by a run that another has overtaken, and a *)
(* run's own answer reaches the disk.  And what `_prune` leaves of a       *)
(* directory that one run has to itself, however often that run is killed: *)
(* no more than was meant, and the newest answer.                          *)
(***************************************************************************)
EXTENDS AccessCache, FiniteSetTheorems, TLAPS

Stamp == Nat \cup {Never}
Doc == [at : Stamp, verdicts : [Partitions -> Verdict \cup {"none"}],
        seen : [Partitions -> Stamp], asked : [Partitions -> Stamp]]

\* The shape of the state, as far as the clocks are concerned.
Shape ==
    /\ site \in Sites
    /\ now \in Nat
    /\ file \in [Keys -> Doc]
    /\ run \in [Runs -> [pc : {"idle", "asking", "read", "written", "saved", "listed", "pruning"},
                         key : Keys \cup {0}, got : [Partitions -> Verdict \cup {"none"}],
                         when : [Partitions -> Stamp], draft : Doc]]
    /\ \A r \in Runs : run[r].pc \in {"asking", "read", "written"} => run[r].key \in Keys

\* The moment `load` takes a verdict of a document to have been given at.
Given(doc, p) == IF doc.seen[p] # Never THEN doc.seen[p] ELSE doc.at

\* A verdict's clock is neither before the control plane was asked nor later
\* than a sweep after it, and a document is no older than what it holds.
Dated(doc, t) ==
    \A p \in Remembered(doc.verdicts) :
        /\ doc.at \in 0 .. t /\ doc.asked[p] \in Nat
        /\ doc.asked[p] <= Given(doc, p) /\ Given(doc, p) <= doc.at
        /\ Given(doc, p) <= doc.asked[p] + MaxSpan

\* A run that holds an answer has not held it for longer than a sweep, and one
\* that has not begun holds none.
Fresh(x, t) ==
    \A p \in Remembered(x.got) : x.when[p] \in Nat /\ x.when[p] <= t /\ t - x.when[p] <= MaxSpan
Held(r) ==
    /\ run[r].pc = "idle" => Remembered(run[r].got) = {}
    /\ run[r].pc \in {"asking", "read"} => Fresh(run[r], now)

\* What a run is about to rename over the target carries its own answer.
Carries(r) ==
    run[r].pc = "written" =>
        \A p \in Remembered(run[r].got) : run[r].draft.verdicts[p] = run[r].got[p]

IInv ==
    /\ Shape
    /\ \A k \in Keys : Dated(file[k], now)
    /\ \A r \in Runs : Dated(run[r].draft, now) /\ Held(r) /\ Carries(r)

-----------------------------------------------------------------------------
LEMMA SiteShape ==
    ASSUME site \in Sites
    PROVE  /\ Keys \subseteq Questions /\ Runs \subseteq Everyone
           /\ Answers \subseteq Verdict /\ Stored \subseteq Verdict
           /\ MaxSpan \in Nat
BY CacheAssumption DEF Keys, Runs, Answers, Stored, MaxSpan

\* Nothing remembered.
LEMMA MissingIsDated ==
    ASSUME NEW t \in Nat
    PROVE  Missing \in Doc /\ Dated(Missing, t)
BY DEF Missing, Doc, Stamp, Dated, Remembered

\* A document stays dated as time passes.
LEMMA DatedLater ==
    ASSUME NEW doc \in Doc, NEW t \in Nat, Dated(doc, t)
    PROVE  Dated(doc, t + 1)
BY DEF Dated

\* `save`: merging keeps every clock it does not renew, and renews no clock but
\* those of the partitions that were asked.
LEMMA MergeIsDated ==
    ASSUME NEW before \in Doc, NEW v \in [Partitions -> Verdict \cup {"none"}],
           NEW t \in [Partitions -> Stamp], NEW stamp \in Nat, MaxSpan \in Nat,
           Dated(before, stamp),
           \A p \in Remembered(v) : t[p] \in 0 .. stamp /\ stamp - t[p] <= MaxSpan
    PROVE  /\ Merge(before, v, t, stamp) \in Doc
           /\ Dated(Merge(before, v, t, stamp), stamp)
           /\ \A p \in Remembered(v) : Merge(before, v, t, stamp).verdicts[p] = v[p]
<1> DEFINE m == Merge(before, v, t, stamp)
<1>1. /\ m.at = stamp
      /\ \A p \in Partitions : /\ m.verdicts[p] = IF v[p] # "none" THEN v[p] ELSE before.verdicts[p]
                               /\ m.asked[p] = IF v[p] # "none" THEN t[p] ELSE before.asked[p]
      /\ \A p \in Partitions : v[p] # "none" => m.seen[p] = stamp
      /\ \A p \in Partitions : v[p] = "none" /\ before.verdicts[p] # "none"
            => m.seen[p] = Given(before, p)
    BY DEF Merge, Given
<1>2. m \in Doc
    BY DEF Merge, Doc, Stamp
<1>3. ASSUME NEW p \in Remembered(m.verdicts)
      PROVE  /\ m.at \in 0 .. stamp /\ m.asked[p] \in Nat
             /\ m.asked[p] <= Given(m, p) /\ Given(m, p) <= m.at
             /\ Given(m, p) <= m.asked[p] + MaxSpan
    <2>1. p \in Partitions
        BY DEF Remembered
    <2>2. CASE v[p] # "none"
        <3>1. m.seen[p] = stamp /\ m.asked[p] = t[p] /\ t[p] \in 0 .. stamp
              /\ stamp - t[p] <= MaxSpan
            BY <1>1, <2>1, <2>2 DEF Remembered
        <3>2. Given(m, p) = stamp
            BY <3>1 DEF Given, Never
        <3> HIDE DEF m
        <3>3. QED
            BY <1>1, <3>1, <3>2
    <2>3. CASE v[p] = "none"
        <3>1. m.verdicts[p] = before.verdicts[p] /\ p \in Remembered(before.verdicts)
            BY <1>1, <2>1, <2>3 DEF Remembered
        <3>2. /\ before.at \in 0 .. stamp /\ before.asked[p] \in Nat
              /\ before.asked[p] <= Given(before, p) /\ Given(before, p) <= before.at
              /\ Given(before, p) <= before.asked[p] + MaxSpan
            BY <3>1 DEF Dated
        <3>3. Given(before, p) \in Nat
            BY <2>1, <3>2 DEF Given, Doc, Stamp, Never
        <3>4. m.seen[p] = Given(before, p) /\ m.asked[p] = before.asked[p]
            BY <1>1, <2>1, <2>3, <3>1 DEF Remembered
        <3>5. Given(m, p) = Given(before, p)
            BY <3>3, <3>4 DEF Given, Never
        <3> HIDE DEF m
        <3>6. QED
            BY <1>1, <3>2, <3>3, <3>4, <3>5
    <2>4. QED
        BY <2>2, <2>3
<1>4. \A p \in Remembered(v) : m.verdicts[p] = v[p]
    BY <1>1 DEF Remembered
<1>5. QED
    BY <1>2, <1>3, <1>4 DEF Dated

LEMMA LegacyIsDated ==
    ASSUME NEW v \in [Partitions -> Stored], Stored \subseteq Verdict, MaxSpan \in Nat
    PROVE  Legacy(v, 0) \in Doc /\ Dated(Legacy(v, 0), 0)
<1>1. Legacy(v, 0) \in Doc
    BY DEF Legacy, Doc, Stamp, Never, Verdict
<1>2. Dated(Legacy(v, 0), 0)
    BY DEF Legacy, Dated, Given, Remembered, Never
<1>3. QED
    BY <1>1, <1>2

-----------------------------------------------------------------------------
LEMMA Starts == Init => IInv
<1> SUFFICES ASSUME Init PROVE IInv
    OBVIOUS
<1>1. site \in Sites /\ now = 0
    BY DEF Init
<1>2. Stored \subseteq Verdict /\ MaxSpan \in Nat
    BY <1>1, SiteShape
<1>3. Missing \in Doc /\ Dated(Missing, 0)
    BY MissingIsDated
<1>4. file \in [Keys -> Doc] /\ \A k \in Keys : Dated(file[k], now)
    <2>1. \A v \in [Partitions -> Stored] : Legacy(v, 0) \in Doc /\ Dated(Legacy(v, 0), 0)
        BY <1>2, LegacyIsDated
    <2>2. file \in [Keys -> {Missing} \cup {Legacy(v, 0) : v \in [Partitions -> Stored]}]
        BY DEF Init
    <2>3. QED
        BY <1>1, <1>3, <2>1, <2>2
<1>5. run = [r \in Runs |-> Idle]
    BY DEF Init
<1>6. Idle \in [pc : {"idle", "asking", "read", "written", "saved", "listed", "pruning"},
                key : Keys \cup {0}, got : [Partitions -> Verdict \cup {"none"}],
                when : [Partitions -> Stamp], draft : Doc]
    BY <1>3 DEF Idle, NoVerdicts, NoTimes, Stamp
<1>7. Idle.pc = "idle" /\ Idle.draft = Missing /\ Remembered(Idle.got) = {}
    BY DEF Idle, NoVerdicts, Remembered
<1>8. QED
    BY <1>1, <1>3, <1>4, <1>5, <1>6, <1>7 DEF IInv, Shape, Held, Carries

\* A step that leaves the clock alone changes a run and perhaps one file.
LEMMA Steps == IInv /\ [Next]_vars => IInv'
<1> SUFFICES ASSUME IInv, [Next]_vars PROVE IInv'
    OBVIOUS
<1> DEFINE RunShape == [pc : {"idle", "asking", "read", "written", "saved", "listed", "pruning"},
                        key : Keys \cup {0}, got : [Partitions -> Verdict \cup {"none"}],
                        when : [Partitions -> Stamp], draft : Doc]
<1>1. Keys \subseteq Questions /\ Answers \subseteq Verdict /\ MaxSpan \in Nat
    BY SiteShape DEF IInv, Shape
<1>2. site' = site
    BY DEF Next, Step, Tick, Begin, Ask, Read, Write, Replace, Fail, List, Sort, Unlink, Kill, vars
<1>3. Keys' = Keys /\ Runs' = Runs /\ MaxSpan' = MaxSpan
    BY <1>2 DEF Keys, Runs, MaxSpan
<1>4. Missing \in Doc /\ Dated(Missing, now)
    BY MissingIsDated DEF IInv, Shape
<1>5. /\ Idle \in RunShape /\ Idle.pc = "idle" /\ Idle.draft = Missing
      /\ Remembered(Idle.got) = {}
    BY <1>4 DEF Idle, NoVerdicts, NoTimes, Stamp, Remembered
<1>6. ASSUME now' = now, file' \in [Keys -> Doc], \A k \in Keys : Dated(file'[k], now),
             NEW r \in Runs, NEW new \in RunShape, run' = [run EXCEPT ![r] = new],
             new.pc \in {"asking", "read", "written"} => new.key \in Keys,
             Dated(new.draft, now),
             new.pc = "idle" => Remembered(new.got) = {},
             new.pc \in {"asking", "read"} => Fresh(new, now),
             new.pc = "written" =>
                \A p \in Remembered(new.got) : new.draft.verdicts[p] = new.got[p]
      PROVE  IInv'
    <2>1. run' \in [Runs -> RunShape] /\ run'[r] = new /\ \A w \in Runs \ {r} : run'[w] = run[w]
        BY <1>6 DEF IInv, Shape
    <2>2. Shape'
        BY <1>2, <1>3, <1>6, <2>1 DEF IInv, Shape
    <2>3. \A k \in Keys : Dated(file'[k], now)
        BY <1>6
    <2>4. ASSUME NEW w \in Runs
          PROVE  /\ Dated(run'[w].draft, now)
                 /\ run'[w].pc = "idle" => Remembered(run'[w].got) = {}
                 /\ run'[w].pc \in {"asking", "read"} => Fresh(run'[w], now)
                 /\ run'[w].pc = "written" =>
                        \A p \in Remembered(run'[w].got) : run'[w].draft.verdicts[p] = run'[w].got[p]
        BY <1>6, <2>1, <2>4 DEF IInv, Held, Carries
    <2>5. ASSUME NEW w \in Runs PROVE Held(w)' /\ Carries(w)'
        <3>1. Fresh(run'[w], now) => Fresh(run[w], now)'
            BY <1>3, <1>6 DEF Fresh
        <3>2. QED
            BY <2>4, <2>5, <3>1 DEF Held, Carries
    <2>6. QED
        BY <1>3, <1>6, <2>2, <2>3, <2>4, <2>5 DEF IInv, Dated
<1>7. CASE UNCHANGED vars
    BY <1>7, <1>3 DEF IInv, Shape, Dated, Fresh, Held, Carries, vars
<1>8. CASE Tick
    <2>1. now' = now + 1 /\ now' \in Nat /\ file' = file /\ run' = run
        BY <1>8 DEF Tick, IInv, Shape
    <2>2. Shape'
        BY <1>2, <1>3, <2>1 DEF IInv, Shape
    <2>3. \A k \in Keys : Dated(file[k], now + 1)
        BY DatedLater DEF IInv, Shape
    <2>4. \A r \in Runs : Dated(run[r].draft, now + 1)
        BY DatedLater DEF IInv, Shape
    <2>5. ASSUME NEW r \in Runs, run[r].pc \in {"asking", "read"} PROVE Fresh(run[r], now + 1)
        <3>1. ASSUME NEW p \in Remembered(run[r].got)
              PROVE  /\ run[r].when[p] \in Nat /\ run[r].when[p] <= now + 1
                     /\ (now + 1) - run[r].when[p] <= MaxSpan
            <4>1. run[r].when[p] \in Nat /\ run[r].when[p] <= now /\ now \in Nat
                BY <2>5 DEF IInv, Held, Fresh, Shape
            <4>2. ~(now - run[r].when[p] >= MaxSpan)
                BY <1>8, <2>5 DEF Tick, Overdue, Remembered
            <4>3. QED
                BY <1>1, <4>1, <4>2
        <3>2. QED
            BY <3>1 DEF Fresh
    <2>6. ASSUME NEW r \in Runs PROVE Held(r)' /\ Carries(r)'
        <3>1. Carries(r)'
            BY <2>1, <2>6 DEF IInv, Carries
        <3>2. Fresh(run[r], now + 1) => Fresh(run[r], now)'
            BY <1>3, <2>1 DEF Fresh
        <3>3. QED
            BY <2>1, <2>5, <2>6, <3>1, <3>2 DEF IInv, Held
    <2>7. QED
        BY <1>3, <2>1, <2>2, <2>3, <2>4, <2>6 DEF IInv, Dated
<1>9. ASSUME NEW r \in Runs, Step(r) PROVE IInv'
    <2>1. run[r] \in RunShape /\ now \in Nat /\ file \in [Keys -> Doc]
          /\ (run[r].pc \in {"asking", "read", "written"} => run[r].key \in Keys)
        BY DEF IInv, Shape
    <2>2. \A k \in Keys : Dated(file[k], now)
        BY DEF IInv
    <2>3. Dated(run[r].draft, now) /\ Held(r) /\ Carries(r)
        BY DEF IInv
    <2> DEFINE To(new) == /\ now' = now /\ run' = [run EXCEPT ![r] = new]
    <2>4. ASSUME NEW k \in Keys, Begin(r, k) PROVE IInv'
        <3> DEFINE new == [run[r] EXCEPT !.pc = "asking", !.key = k]
        <3>1. To(new) /\ file' = file /\ new \in RunShape
            BY <2>1, <2>4 DEF Begin, IInv, Shape
        <3>2. new.pc = "asking" /\ new.key \in Keys /\ new.draft = run[r].draft
            BY <2>1
        <3>3. Remembered(new.got) = {}
            BY <2>1, <2>3, <2>4 DEF Begin, Held
        <3> HIDE DEF new
        <3>4. QED
            BY <1>6, <2>1, <2>2, <2>3, <3>1, <3>2, <3>3 DEF Fresh
    <2>5. ASSUME NEW p \in Partitions, Ask(r, p) PROVE IInv'
        <3>1. PICK v \in Answers : run' = [run EXCEPT ![r].got[p] = v, ![r].when[p] = now]
            BY <2>5 DEF Ask
        <3> DEFINE new == run'[r]
        <3>2. To(new) /\ file' = file /\ run[r].pc = "asking"
            BY <2>5, <3>1 DEF Ask, IInv, Shape
        <3>3. /\ new \in RunShape /\ new.pc = "asking" /\ new.key = run[r].key
              /\ new.draft = run[r].draft
              /\ new.got = [run[r].got EXCEPT ![p] = v]
              /\ new.when = [run[r].when EXCEPT ![p] = now]
            BY <1>1, <2>1, <3>1, <3>2 DEF Stamp, IInv, Shape
        <3>4. ASSUME NEW q \in Remembered(new.got)
              PROVE  new.when[q] \in Nat /\ new.when[q] <= now /\ now - new.when[q] <= MaxSpan
            <4>1. CASE q = p
                BY <1>1, <2>1, <3>3, <4>1
            <4>2. CASE q # p
                <5>1. q \in Remembered(run[r].got) /\ new.when[q] = run[r].when[q]
                    BY <2>1, <3>3, <4>2 DEF Remembered
                <5>2. QED
                    BY <2>3, <3>2, <5>1 DEF Held, Fresh
            <4>3. QED
                BY <4>1, <4>2
        <3> HIDE DEF new
        <3>5. QED
            BY <1>6, <2>1, <2>2, <2>3, <3>2, <3>3, <3>4 DEF Fresh
    <2>6. ASSUME Read(r) PROVE IInv'
        <3> DEFINE new == [run[r] EXCEPT !.pc = "read", !.draft = file[run[r].key]]
        <3>1. To(new) /\ file' = file /\ run[r].pc = "asking"
            BY <2>6 DEF Read, IInv, Shape
        <3>2. new \in RunShape /\ new.pc = "read" /\ new.key \in Keys
              /\ new.draft = file[run[r].key] /\ new.got = run[r].got /\ new.when = run[r].when
            BY <2>1, <3>1
        <3> HIDE DEF new
        <3>3. QED
            BY <1>6, <2>1, <2>2, <2>3, <3>1, <3>2 DEF Held, Fresh
    <2>7. ASSUME Write(r) PROVE IInv'
        <3> DEFINE doc == Merge(run[r].draft, run[r].got, run[r].when, now)
                   new == [run[r] EXCEPT !.pc = "written", !.draft = doc]
        <3>1. To(new) /\ file' = file /\ run[r].pc = "read"
            BY <2>7 DEF Write, IInv, Shape
        <3>2. /\ doc \in Doc /\ Dated(doc, now)
              /\ \A p \in Remembered(run[r].got) : doc.verdicts[p] = run[r].got[p]
            BY <1>1, <2>1, <2>3, <3>1, MergeIsDated DEF Held, Fresh
        <3> HIDE DEF doc
        <3>3. new \in RunShape /\ new.pc = "written" /\ new.key = run[r].key
              /\ new.draft = doc /\ new.got = run[r].got
            BY <2>1, <3>2
        <3> HIDE DEF new
        <3>4. QED
            BY <1>6, <2>1, <2>2, <3>1, <3>2, <3>3
    <2>8. ASSUME Replace(r) PROVE IInv'
        <3> DEFINE new == [run[r] EXCEPT !.pc = "saved"]
        <3>1. To(new) /\ file' = [file EXCEPT ![run[r].key] = run[r].draft]
            BY <2>8 DEF Replace, IInv, Shape
        <3>2. new \in RunShape /\ new.pc = "saved" /\ new.key = run[r].key
              /\ new.draft = run[r].draft /\ run[r].pc = "written"
            BY <2>1, <2>8 DEF Replace
        <3>3. file' \in [Keys -> Doc] /\ \A k \in Keys : Dated(file'[k], now)
            BY <2>1, <2>2, <2>3, <3>1
        <3> HIDE DEF new
        <3>4. QED
            BY <1>6, <2>1, <2>3, <3>1, <3>2, <3>3
    <2>9. ASSUME now' = now, file' \in [Keys -> Doc], \A k \in Keys : Dated(file'[k], now),
                 run' = [run EXCEPT ![r] = Idle]
          PROVE  IInv'
        BY <1>4, <1>5, <1>6, <2>9
    <2>10. CASE Fail(r)
        BY <2>1, <2>2, <2>9, <2>10 DEF Fail
    <2>11. ASSUME now' = now, file' \in [Keys -> Doc], \A k \in Keys : Dated(file'[k], now),
                  NEW of \in {run[r], Idle}, NEW at \in {"listed", "pruning"},
                  run' = [run EXCEPT ![r] = [of EXCEPT !.pc = at]]
           PROVE  IInv'
        <3> DEFINE new == [of EXCEPT !.pc = at]
        <3>1. new \in RunShape /\ new.pc = at /\ new.key = of.key /\ new.draft = of.draft
            BY <1>5, <2>1
        <3>2. Dated(of.draft, now)
            BY <1>4, <1>5, <2>3
        <3>3. To(new)
            BY <2>11
        <3> HIDE DEF new
        <3>4. QED
            BY <1>6, <2>11, <3>1, <3>2, <3>3
    <2>12. CASE List(r)
        BY <2>1, <2>2, <2>9, <2>11, <2>12 DEF List, IInv, Shape
    <2>13. CASE Sort(r)
        BY <2>1, <2>2, <2>9, <2>11, <2>13 DEF Sort, IInv, Shape
    <2>14. CASE Unlink(r)
        <3>1. now' = now /\ file' \in [Keys -> Doc] /\ \A k \in Keys : Dated(file'[k], now)
            <4>1. PICK old \in listed[r] :
                      file' = IF old \in Keys THEN [file EXCEPT ![old] = Missing] ELSE file
                BY <2>14 DEF Unlink
            <4>2. QED
                BY <1>4, <2>1, <2>2, <2>14, <4>1 DEF Unlink
        <3>2. CASE run' = [run EXCEPT ![r] = Idle]
            BY <2>9, <3>1, <3>2
        <3>3. CASE run' = run
            <4>1. run' = [run EXCEPT ![r] = [run[r] EXCEPT !.pc = "pruning"]]
                BY <2>1, <2>14, <3>3 DEF Unlink, IInv, Shape
            <4>2. QED
                BY <2>11, <3>1, <4>1
        <3>4. QED
            BY <2>14, <3>2, <3>3 DEF Unlink
    <2>15. CASE Kill(r)
        BY <2>1, <2>2, <2>9, <2>15 DEF Kill
    <2>16. QED
        BY <1>9, <2>4, <2>5, <2>6, <2>7, <2>8, <2>10, <2>12, <2>13, <2>14, <2>15 DEF Step
<1>10. QED
    BY <1>7, <1>8, <1>9 DEF Next

-----------------------------------------------------------------------------
\* Whatever the interleaving of the runs that share the directory and wherever
\* one of them is killed, `load` serves no verdict that was given longer ago
\* than the TTL and the sweep that obtained it.
THEOREM NothingStale == Spec => []NothingStaleServed
<1>1. IInv => NothingStaleServed
    <2> SUFFICES ASSUME IInv, NEW k \in Keys, NEW p \in Served(file[k], now)
                 PROVE  now - file[k].asked[p] <= TTL + MaxSpan
        BY DEF NothingStaleServed
    <2>1. p \in Remembered(file[k].verdicts) /\ now - Given(file[k], p) <= TTL
        BY DEF Served, Readable, Given
    <2>2. /\ file[k].at \in 0 .. now /\ file[k].asked[p] \in Nat
          /\ file[k].asked[p] <= Given(file[k], p) /\ Given(file[k], p) <= file[k].at
          /\ Given(file[k], p) <= file[k].asked[p] + MaxSpan
        BY <2>1 DEF IInv, Dated
    <2>3. Given(file[k], p) \in Int /\ now \in Nat /\ MaxSpan \in Nat
        BY <2>1, SiteShape DEF Given, IInv, Shape, Doc, Stamp, Never, Remembered
    <2>4. QED
        BY <2>1, <2>2, <2>3, TTLAssumption
<1>2. QED
    BY <1>1, Starts, Steps, PTL DEF Spec

\* What is younger than the TTL, on the clock a document gives it or an older
\* one, `load` serves.
LEMMA YoungIsServed ==
    ASSUME NEW doc \in Doc, NEW t \in Nat, Dated(doc, t),
           NEW p \in Remembered(doc.verdicts), NEW since \in Nat,
           since <= Given(doc, p), t - since <= TTL
    PROVE  p \in Served(doc, t)
<1>1. doc.at \in 0 .. t /\ Given(doc, p) <= doc.at
    BY DEF Dated
<1>2. Given(doc, p) \in Int
    BY DEF Given, Doc, Stamp, Never, Remembered
<1>3. t - Given(doc, p) <= TTL /\ t - doc.at <= TTL
    BY <1>1, <1>2, TTLAssumption
<1>4. Readable(doc, t)
    BY <1>1, <1>3 DEF Readable, Never
<1>5. doc.seen[p] # Never => t - doc.seen[p] <= TTL
    BY <1>3 DEF Given
<1>6. QED
    BY <1>4, <1>5 DEF Served

\* A run whose reading no other has overtaken is about to write what the file
\* holds by then, merged with its own answer, unless the file has been pruned.
Current(r) ==
    LET doc == file[run[r].key]
        x == run[r] IN
    x.pc \in {"read", "written"} =>
        \/ doc = Missing
        \/ x.pc = "read" /\ x.draft = doc
        \/ /\ x.pc = "written" /\ x.draft = Merge(doc, x.got, x.when, x.draft.at)
           /\ Remembered(doc.verdicts) # {} => doc.at <= x.draft.at

Abreast ==
    /\ overtaken \subseteq Runs
    /\ \A r \in Runs \ overtaken : Current(r)

LEMMA AbreastSteps == IInv /\ Abreast /\ [Next]_vars => Abreast'
<1>1. ASSUME IInv, Abreast, [Next]_vars
      PROVE  Runs' = Runs /\ Keys' = Keys /\ (overtaken \subseteq Runs)'
    BY <1>1 DEF Next, Step, Tick, Begin, Ask, Read, Write, Replace, Fail, List, Sort, Unlink, Kill,
           vars, Runs, Keys, Abreast, Behind
<1> SUFFICES ASSUME IInv, Abreast, [Next]_vars,
                    NEW r \in Runs', r \notin overtaken', run'[r].pc \in {"read", "written"}
             PROVE  Current(r)'
    BY <1>1 DEF Abreast, Current
<1>2. r \in Runs /\ run[r] \in [pc : {"idle", "asking", "read", "written", "saved", "listed", "pruning"},
                                key : Keys \cup {0}, got : [Partitions -> Verdict \cup {"none"}],
                                when : [Partitions -> Stamp], draft : Doc]
      /\ (run[r].pc \in {"asking", "read", "written"} => run[r].key \in Keys)
    BY <1>1 DEF IInv, Shape
<1>3. ASSUME r \notin overtaken, run'[r] = run[r],
             file'[run[r].key] \in {file[run[r].key], Missing}
      PROVE  Current(r)'
    <2>1. Current(r)
        BY <1>2, <1>3 DEF Abreast
    <2>2. QED
        BY <1>3, <2>1 DEF Current
<1>4. CASE UNCHANGED vars \/ Tick
    BY <1>3, <1>4 DEF Tick, vars
<1>5. ASSUME NEW w \in Runs, Step(w), w # r PROVE Current(r)'
    <2>1. run'[r] = run[r]
        BY <1>2, <1>5 DEF Step, Begin, Ask, Read, Write, Replace, Fail, List, Sort, Unlink, Kill,
                          IInv, Shape
    <2>2. run[r].key \in Keys
        BY <1>2, <2>1
    <2>3. CASE Replace(w)
        <3>1. overtaken' = (overtaken \cup Behind(run[w].key)) \ {w}
              /\ file' = [file EXCEPT ![run[w].key] = run[w].draft]
            BY <2>3 DEF Replace
        <3>2. r \notin overtaken /\ r \notin Behind(run[w].key)
            BY <1>5, <3>1
        <3>3. run[r].key # run[w].key
            BY <1>2, <2>1, <3>2 DEF Behind
        <3>4. file'[run[r].key] = file[run[r].key]
            BY <2>2, <3>1, <3>3 DEF IInv, Shape
        <3>5. QED
            BY <1>3, <2>1, <3>2, <3>4
    <2>4. CASE Unlink(w)
        <3>1. r \notin overtaken
            BY <2>4 DEF Unlink
        <3>2. file'[run[r].key] \in {file[run[r].key], Missing}
            BY <2>2, <2>4 DEF Unlink, IInv, Shape
        <3>3. QED
            BY <1>3, <2>1, <3>1, <3>2
    <2>5. CASE ~Replace(w) /\ ~Unlink(w)
        <3>1. file' = file /\ r \notin overtaken
            BY <1>5, <2>5 DEF Step, Begin, Ask, Read, Write, Fail, List, Sort, Kill
        <3>2. QED
            BY <1>3, <2>1, <3>1
    <2>6. QED
        BY <2>3, <2>4, <2>5
<1>6. ASSUME Step(r) PROVE Current(r)'
    <2>1. CASE Read(r)
        <3>1. file' = file /\ run'[r].pc = "read" /\ run'[r].key = run[r].key
              /\ run'[r].draft = file[run[r].key]
            BY <1>2, <2>1 DEF Read, IInv, Shape
        <3>2. QED
            BY <3>1 DEF Current
    <2>2. CASE Write(r)
        <3> DEFINE doc == file[run[r].key]
                   next == Merge(run[r].draft, run[r].got, run[r].when, now)
        <3>1. /\ file' = file /\ r \notin overtaken /\ run[r].pc = "read"
              /\ run'[r] = [run[r] EXCEPT !.pc = "written", !.draft = next]
            BY <1>2, <2>2 DEF Write, IInv, Shape
        <3>2. next.at = now
            BY DEF Merge
        <3> HIDE DEF next
        <3>3. /\ run'[r].pc = "written" /\ run'[r].key = run[r].key /\ run'[r].draft = next
              /\ run'[r].got = run[r].got /\ run'[r].when = run[r].when
            BY <1>2, <3>1
        <3>4. doc = Missing \/ run[r].draft = doc
            BY <1>2, <3>1 DEF Abreast, Current
        <3>5. Remembered(doc.verdicts) # {} => doc.at <= now
            <4>1. Dated(doc, now) /\ now \in Nat
                BY <1>2, <3>1 DEF IInv, Shape
            <4> HIDE DEF doc
            <4>2. \A p \in Remembered(doc.verdicts) : doc.at <= now
                BY <4>1 DEF Dated
            <4>3. QED
                BY <4>2
        <3>6. run[r].draft = doc => next = Merge(doc, run[r].got, run[r].when, now)
            BY DEF next
        <3>7. QED
            BY <3>1, <3>2, <3>3, <3>4, <3>5, <3>6 DEF Current
    <2>3. CASE ~Read(r) /\ ~Write(r)
        <3>1. run'[r].pc \notin {"read", "written"}
            <4>1. CASE \E k \in Keys : Begin(r, k)
                BY <1>2, <4>1 DEF Begin, IInv, Shape
            <4>2. CASE \E p \in Partitions : Ask(r, p)
                BY <1>2, <4>2 DEF Ask, IInv, Shape
            <4>3. CASE Replace(r) \/ Fail(r) \/ Kill(r)
                BY <1>2, <4>3 DEF Replace, Fail, Kill, Idle, IInv, Shape
            <4>4. CASE List(r) \/ Sort(r) \/ Unlink(r)
                BY <1>2, <4>4 DEF List, Sort, Unlink, Idle, IInv, Shape
            <4>5. QED
                BY <1>6, <2>3, <4>1, <4>2, <4>3, <4>4 DEF Step
        <3>2. QED
            BY <3>1
    <2>4. QED
        BY <2>1, <2>2, <2>3
<1>7. CASE \E w \in Runs : Step(w)
    BY <1>5, <1>6, <1>7
<1>8. QED
    BY <1>4, <1>7 DEF Next

LEMMA AbreastStands == Spec => [](IInv /\ Abreast)
<1>1. Init => Abreast
    BY DEF Init, Abreast, Current, Idle
<1>2. QED
    BY <1>1, Starts, Steps, AbreastSteps, PTL DEF Spec

\* The converse: whichever step is taken, a verdict younger than the TTL is still
\* served after it and says what it said, unless the run that writes was itself
\* told otherwise; it goes with a file that is pruned, and under the rename of a
\* run that another's rename has overtaken, never else.
THEOREM NothingFreshIsLost == Spec => FreshIsKept
<1> DEFINE Keeping ==
             \A k \in Keys : \A p \in Remembered(file[k].verdicts) :
                now' - file[k].asked[p] <= TTL /\ file'[k] # Missing =>
                    \/ /\ p \in Served(file'[k], now')
                       /\ \/ file'[k].verdicts[p] = file[k].verdicts[p]
                          \/ \E r \in Runs : Renames(r, k) /\ p \in Remembered(run[r].got)
                    \/ \E r \in overtaken : Renames(r, k)
<1>1. IInv /\ Abreast /\ IInv' /\ [Next]_vars => [Keeping]_vars
    <2> SUFFICES ASSUME IInv, Abreast, IInv', Next,
                        NEW k \in Keys, NEW p \in Remembered(file[k].verdicts),
                        now' - file[k].asked[p] <= TTL, file'[k] # Missing,
                        \A r \in overtaken : ~Renames(r, k)
                 PROVE  /\ p \in Served(file'[k], now')
                        /\ \/ file'[k].verdicts[p] = file[k].verdicts[p]
                           \/ \E r \in Runs : Renames(r, k) /\ p \in Remembered(run[r].got)
        BY DEF Renames
    <2>1. /\ file[k].asked[p] \in Nat /\ file[k].asked[p] <= Given(file[k], p)
          /\ Given(file[k], p) <= file[k].at /\ file[k].at \in Nat
        BY DEF IInv, Dated
    <2>2. site' = site
        BY DEF Next, Step, Tick, Begin, Ask, Read, Write, Replace, Fail, List, Sort, Unlink, Kill
    <2>3. Keys' = Keys /\ file'[k] \in Doc /\ Dated(file'[k], now') /\ now' \in Nat /\ p \in Partitions
        <3>1. Keys' = Keys /\ MaxSpan' = MaxSpan
            BY <2>2 DEF Keys, MaxSpan
        <3>2. Dated(file[k], now)'
            BY <3>1 DEF IInv
        <3>3. QED
            BY <3>1, <3>2 DEF IInv, Shape, Dated, Remembered
    <2>4. Given(file[k], p) \in Nat
        <3>1. Given(file[k], p) \in Nat \cup {Never}
            BY <2>3 DEF IInv, Shape, Doc, Stamp, Given
        <3>2. QED
            BY <2>1, <3>1 DEF Never
    <2>5. CASE file'[k] = file[k]
        <3>1. p \in Served(file'[k], now')
            BY <2>1, <2>3, <2>5, YoungIsServed
        <3>2. QED
            BY <2>5, <3>1
    <2>6. CASE file'[k] # file[k]
        <3>1. PICK r \in Runs : Step(r)
            BY <2>6 DEF Next, Tick
        <3>2. Replace(r) /\ run[r].key = k
            BY <2>6, <3>1 DEF Step, Begin, Ask, Read, Write, Replace, Fail, List, Sort, Unlink,
                              Kill, IInv, Shape
        <3>3. Renames(r, k) /\ run[r].pc = "written" /\ file'[k] = run[r].draft
            BY <3>2 DEF Replace, Renames, IInv, Shape
        <3>4. r \notin overtaken /\ Current(r)
            BY <3>3 DEF Abreast
        <3>5. file[k] # Missing
            BY DEF Missing, Remembered
        <3> DEFINE m == Merge(file[k], run[r].got, run[r].when, run[r].draft.at)
        <3>6. file'[k] = m /\ file[k].at <= run[r].draft.at
            BY <3>2, <3>3, <3>4, <3>5 DEF Current
        <3>7. /\ m.verdicts[p] = IF run[r].got[p] # "none" THEN run[r].got[p] ELSE file[k].verdicts[p]
              /\ m.at = run[r].draft.at
              /\ run[r].got[p] # "none" => m.seen[p] = m.at
              /\ run[r].got[p] = "none" => m.seen[p] = Given(file[k], p)
            BY <2>3 DEF Merge, Given, Remembered
        <3> HIDE DEF m
        <3>8. p \in Remembered(file'[k].verdicts)
            BY <2>3, <3>6, <3>7 DEF Remembered
        <3>9. file[k].asked[p] <= Given(file'[k], p)
            <4>1. m.at \in Nat
                BY <2>3, <3>6, <3>8 DEF Dated
            <4>2. CASE run[r].got[p] # "none"
                <5>1. Given(m, p) = m.at
                    BY <3>7, <4>2 DEF Given
                <5>2. QED
                    BY <2>1, <2>4, <3>6, <3>7, <4>1, <5>1
            <4>3. CASE run[r].got[p] = "none"
                <5>1. Given(m, p) = Given(file[k], p)
                    BY <2>4, <3>7, <4>3 DEF Given, Never
                <5>2. QED
                    BY <2>1, <3>6, <5>1
            <4>4. QED
                BY <4>2, <4>3
        <3>10. p \in Served(file'[k], now')
            BY <2>1, <2>3, <3>8, <3>9, YoungIsServed
        <3>11. file'[k].verdicts[p] = file[k].verdicts[p] \/ p \in Remembered(run[r].got)
            BY <2>3, <3>6, <3>7 DEF Remembered
        <3>12. QED
            BY <3>3, <3>10, <3>11
    <2>7. QED
        BY <2>5, <2>6
<1>2. QED
    BY <1>1, AbreastStands, PTL DEF Spec, FreshIsKept

\* Between reading the document and renaming the new one over it anything may
\* happen to the target; the answer a run was given is in what it renames.
THEOREM OwnAnswersLand == Spec => OwnAnswerLands
<1> DEFINE Landing ==
        \A r \in Runs : run[r].pc = "written" /\ run'[r].pc = "saved" =>
            \A p \in Remembered(run[r].got) :
                file'[run[r].key].verdicts[p] = run[r].got[p]
<1>1. IInv /\ [Next]_vars => [Landing]_vars
    <2> SUFFICES ASSUME IInv, Next, NEW r \in Runs,
                        run[r].pc = "written", run'[r].pc = "saved"
                 PROVE  \A p \in Remembered(run[r].got) :
                            file'[run[r].key].verdicts[p] = run[r].got[p]
        BY DEF vars
    <2>1. Replace(r)
        <3>1. ~Tick
            BY DEF Tick
        <3>2. PICK w \in Runs : Step(w)
            BY <3>1 DEF Next
        <3>3. w = r
            BY <3>2 DEF Step, Begin, Ask, Read, Write, Replace, Fail, List, Sort, Unlink, Kill,
                        IInv, Shape
        <3>4. QED
            BY <3>2, <3>3 DEF Step, Begin, Ask, Read, Write, Fail, List, Sort, Unlink, Kill,
                              IInv, Shape, Idle
    <2>2. run[r].key \in Keys /\ file' = [file EXCEPT ![run[r].key] = run[r].draft]
        BY <2>1 DEF Replace, IInv, Shape
    <2>3. file'[run[r].key] = run[r].draft
        BY <2>2 DEF IInv, Shape
    <2>4. QED
        BY <2>3 DEF IInv, Carries
<1>2. QED
    BY <1>1, Starts, Steps, PTL DEF Spec, OwnAnswerLands

-----------------------------------------------------------------------------
(* What dropping members of a list leaves of it.                           *)

\* The places of a list, and how many there are up to one of them.
Places(s, T) == {i \in DOMAIN s : s[i] \in T}
Place(K, i) == Cardinality({j \in K : j <= i})

LEMMA PlacesShape ==
    ASSUME NEW S, NEW s \in Seq(S), NEW T
    PROVE  /\ Places(s, T) \in SUBSET (1 .. Len(s)) /\ IsFiniteSet(Places(s, T))
           /\ Cardinality(Places(s, T)) \in Nat /\ Cardinality(Places(s, T)) <= Len(s)
<1>1. DOMAIN s = 1 .. Len(s) /\ Len(s) \in Nat
    OBVIOUS
<1>2. Places(s, T) \in SUBSET (1 .. Len(s))
    BY <1>1 DEF Places
<1>3. IsFiniteSet(1 .. Len(s)) /\ Cardinality(1 .. Len(s)) = Len(s)
    BY <1>1, FS_Interval
<1>4. QED
    BY <1>2, <1>3, FS_Subset, FS_CardinalityType

\* Of the places up to a later place there are more.
LEMMA PlacesGrow ==
    ASSUME NEW N \in Nat, NEW K \in SUBSET (1 .. N), NEW i \in K
    PROVE  /\ Place(K, i) \in 1 .. Cardinality(K)
           /\ \A j \in K : i < j => Place(K, i) < Place(K, j)
           /\ (\A j \in K : j <= i) => Place(K, i) = Cardinality(K)
           /\ (\A j \in K : i <= j) => Place(K, i) = 1
<1> DEFINE UpTo(n) == {j \in K : j <= n}
<1>0. \A j \in K : j \in Nat
    OBVIOUS
<1>1. IsFiniteSet(K)
    <2>1. IsFiniteSet(1 .. N)
        BY FS_Interval
    <2>2. QED
        BY <2>1, FS_Subset
<1>2. \A n : UpTo(n) \in SUBSET K /\ IsFiniteSet(UpTo(n)) /\ Cardinality(UpTo(n)) \in Nat
             /\ Cardinality(UpTo(n)) <= Cardinality(K)
    <2>1. \A n : UpTo(n) \in SUBSET K
        OBVIOUS
    <2> HIDE DEF UpTo
    <2>2. QED
        BY <1>1, <2>1, FS_Subset, FS_CardinalityType
<1>3. \A n : Place(K, n) = Cardinality(UpTo(n))
    BY DEF Place
<1>4. Place(K, i) # 0
    <2>1. i \in UpTo(i)
        OBVIOUS
    <2> HIDE DEF UpTo
    <2>2. QED
        BY <1>2, <1>3, <2>1, FS_EmptySet
<1>5. ASSUME NEW j \in K, i < j PROVE Place(K, i) < Place(K, j)
    <2>1. \A n \in K : n <= i => n <= j
        BY <1>0, <1>5
    <2>2. UpTo(i) \in SUBSET UpTo(j)
        BY <2>1
    <2>3. j \in UpTo(j) /\ j \notin UpTo(i)
        BY <1>0, <1>5
    <2> HIDE DEF UpTo
    <2>4. Cardinality(UpTo(i)) <= Cardinality(UpTo(j)) /\ Cardinality(UpTo(i)) # Cardinality(UpTo(j))
        BY <1>2, <2>2, <2>3, FS_Subset
    <2>5. QED
        BY <1>2, <1>3, <2>4
<1>6. ASSUME \A j \in K : j <= i PROVE Place(K, i) = Cardinality(K)
    <2>1. UpTo(i) = K
        BY <1>6
    <2>2. QED
        BY <1>3, <2>1
<1>7. ASSUME \A j \in K : i <= j PROVE Place(K, i) = 1
    <2>1. \A j \in K : j <= i <=> j = i
        BY <1>0, <1>7
    <2>2. UpTo(i) = {i}
        BY <2>1
    <2>3. QED
        BY <1>3, <2>2, FS_Singleton
<1>8. Cardinality(K) \in Nat
    BY <1>1, FS_CardinalityType
<1>9. Place(K, i) \in 1 .. Cardinality(K)
    <2> HIDE DEF UpTo
    <2>1. QED
        BY <1>2, <1>3, <1>4, <1>8
<1>10. QED
    BY <1>5, <1>6, <1>7, <1>9

\* Every number of places is that of one of them, and of one only.
LEMMA RankedPlace ==
    ASSUME NEW N \in Nat, NEW K \in SUBSET (1 .. N)
    PROVE  /\ \A n \in 1 .. Cardinality(K) : Ranked(K, n) \in K /\ Place(K, Ranked(K, n)) = n
           /\ \A i \in K : Ranked(K, Place(K, i)) = i
<1> DEFINE f == [i \in K |-> Place(K, i)]
           R == 1 .. Cardinality(K)
<1>1. IsFiniteSet(K) /\ Cardinality(K) \in Nat
    <2>1. IsFiniteSet(1 .. N)
        BY FS_Interval
    <2>2. QED
        BY <2>1, FS_Subset, FS_CardinalityType
<1>2. IsFiniteSet(R) /\ Cardinality(R) = Cardinality(K)
    BY <1>1, FS_Interval
<1>3. \A i, j \in K : Place(K, i) = Place(K, j) => i = j
    <2>1. \A i, j \in K : i < j => Place(K, i) < Place(K, j)
        BY PlacesGrow
    <2>2. ASSUME NEW i \in K PROVE Place(K, i) \in Nat
        <3>1. Place(K, i) \in 1 .. Cardinality(K)
            BY PlacesGrow
        <3>2. QED
            BY <1>1, <3>1
    <2>3. \A i \in K : i \in Nat
        OBVIOUS
    <2>4. QED
        BY <2>1, <2>2, <2>3
<1>4. \A i \in K : Place(K, i) \in R
    BY PlacesGrow
<1>5. f \in Injection(K, R)
    BY <1>3, <1>4 DEF Injection, IsInjective
<1>6. f \in Surjection(K, R)
    <2> HIDE DEF f, R
    <2>1. QED
        BY <1>2, <1>5, FS_Injection
<1>7. \A n \in R : \E i \in K : Place(K, i) = n
    BY <1>6 DEF Surjection
<1>8. \A n \in R : Ranked(K, n) \in K /\ Place(K, Ranked(K, n)) = n
    BY <1>7 DEF Ranked, Place
<1>9. QED
    BY <1>3, <1>4, <1>8

\* What is picked is a list of the members that are in T, each as often as it was.
LEMMA PickedMembers ==
    ASSUME NEW S, NEW s \in Seq(S), NEW T
    PROVE  /\ Picked(s, T) \in Seq(S \cap T)
           /\ Len(Picked(s, T)) = Cardinality(Places(s, T)) /\ Len(Picked(s, T)) <= Len(s)
           /\ \A i \in DOMAIN s : s[i] \in T => \E n \in DOMAIN Picked(s, T) : Picked(s, T)[n] = s[i]
           /\ \A n \in DOMAIN Picked(s, T) : \E i \in DOMAIN s : s[i] = Picked(s, T)[n]
<1> DEFINE K == Places(s, T)
<1>1. K \in SUBSET (1 .. Len(s)) /\ Cardinality(K) \in Nat /\ Cardinality(K) <= Len(s) /\ Len(s) \in Nat
    BY PlacesShape
<1>2. /\ \A n \in 1 .. Cardinality(K) : Ranked(K, n) \in K /\ Place(K, Ranked(K, n)) = n
      /\ \A i \in K : Ranked(K, Place(K, i)) = i
    BY <1>1, RankedPlace
<1>3. \A i \in K : Place(K, i) \in 1 .. Cardinality(K)
    BY <1>1, PlacesGrow
<1>4. \A i \in K : i \in DOMAIN s /\ s[i] \in S \cap T
    BY DEF Places
<1>5. Picked(s, T) = [n \in 1 .. Cardinality(K) |-> s[Ranked(K, n)]]
    BY DEF Picked, Places
<1>6. \A i \in DOMAIN s : s[i] \in T => i \in K
    BY DEF Places
<1> HIDE DEF K
<1>7. \A n \in 1 .. Cardinality(K) : s[Ranked(K, n)] \in S \cap T
    BY <1>2, <1>4
<1>8. Picked(s, T) \in Seq(S \cap T) /\ Len(Picked(s, T)) = Cardinality(K)
    BY <1>1, <1>5, <1>7
<1>9. DOMAIN Picked(s, T) = 1 .. Cardinality(K)
    BY <1>5
<1>10. \A i \in K : Picked(s, T)[Place(K, i)] = s[i]
    BY <1>2, <1>3, <1>5
<1>11. QED
    BY <1>1, <1>2, <1>3, <1>4, <1>5, <1>6, <1>8, <1>9, <1>10 DEF K

\* Their order is kept: the first and the last of the list, if they are picked, are
\* the first and the last again; and what was there once is there once.
LEMMA PickedOrder ==
    ASSUME NEW S, NEW s \in Seq(S), NEW T, s # <<>>
    PROVE  /\ s[1] \in T => Picked(s, T) # <<>> /\ Picked(s, T)[1] = s[1]
           /\ s[Len(s)] \in T => Picked(s, T) # <<>> /\ Picked(s, T)[Len(Picked(s, T))] = s[Len(s)]
           /\ (\A i, j \in DOMAIN s : s[i] = s[j] => i = j) =>
                 \A n, m \in DOMAIN Picked(s, T) : Picked(s, T)[n] = Picked(s, T)[m] => n = m
<1> DEFINE K == Places(s, T)
<1>1. K \in SUBSET (1 .. Len(s)) /\ Cardinality(K) \in Nat /\ Len(s) \in Nat \ {0} /\ DOMAIN s = 1 .. Len(s)
    BY PlacesShape
<1>2. /\ \A n \in 1 .. Cardinality(K) : Ranked(K, n) \in K /\ Place(K, Ranked(K, n)) = n
      /\ \A i \in K : Ranked(K, Place(K, i)) = i
    BY <1>1, RankedPlace
<1>3. \A i \in K : /\ Place(K, i) \in 1 .. Cardinality(K)
                   /\ (\A j \in K : j <= i) => Place(K, i) = Cardinality(K)
                   /\ (\A j \in K : i <= j) => Place(K, i) = 1
    BY <1>1, PlacesGrow
<1>4. Picked(s, T) = [n \in 1 .. Cardinality(K) |-> s[Ranked(K, n)]]
    BY DEF Picked, Places
<1>5. Len(Picked(s, T)) = Cardinality(K)
    BY PickedMembers
<1>6. \A i \in 1 .. Len(s) : s[i] \in T <=> i \in K
    BY <1>1 DEF Places
<1> HIDE DEF K
<1>7. \A i \in K : Picked(s, T)[Place(K, i)] = s[i] /\ Picked(s, T) # <<>>
    BY <1>1, <1>2, <1>3, <1>4, <1>5
<1>8. ASSUME s[1] \in T PROVE Picked(s, T) # <<>> /\ Picked(s, T)[1] = s[1]
    <2>1. 1 \in K /\ \A j \in K : 1 <= j
        BY <1>1, <1>6, <1>8
    <2>2. QED
        BY <1>3, <1>7, <2>1
<1>9. ASSUME s[Len(s)] \in T PROVE Picked(s, T) # <<>> /\ Picked(s, T)[Len(Picked(s, T))] = s[Len(s)]
    <2>1. Len(s) \in K /\ \A j \in K : j <= Len(s)
        BY <1>1, <1>6, <1>9
    <2>2. QED
        BY <1>3, <1>5, <1>7, <2>1
<1>10. ASSUME \A i, j \in DOMAIN s : s[i] = s[j] => i = j
       PROVE  \A n, m \in DOMAIN Picked(s, T) : Picked(s, T)[n] = Picked(s, T)[m] => n = m
    <2> SUFFICES ASSUME NEW n \in 1 .. Cardinality(K), NEW m \in 1 .. Cardinality(K),
                        s[Ranked(K, n)] = s[Ranked(K, m)]
                 PROVE  n = m
        BY <1>4
    <2>1. Ranked(K, n) = Ranked(K, m)
        BY <1>1, <1>2, <1>10
    <2>2. QED
        BY <1>2, <2>1
<1>11. QED
    BY <1>8, <1>9, <1>10

\* Without one of its members.
LEMMA WithoutMember ==
    ASSUME NEW S, NEW s \in Seq(S), NEW x
    PROVE  /\ Without(s, x) \in Seq(S) /\ Len(Without(s, x)) <= Len(s)
           /\ Range(Without(s, x)) = Range(s) \ {x}
           /\ IsInjective(s) => IsInjective(Without(s, x))
           /\ s # <<>> /\ s[Len(s)] # x =>
                 Without(s, x) # <<>> /\ Without(s, x)[Len(Without(s, x))] = s[Len(s)]
<1> DEFINE T == {s[i] : i \in DOMAIN s} \ {x}
           w == Picked(s, T)
<1>1. Without(s, x) = w
    BY DEF Without
<1>2. T = Range(s) \ {x}
    BY DEF Range
<1>3. s # <<>> => s[Len(s)] \in Range(s)
    BY DEF Range
<1> HIDE DEF T
<1>4. /\ w \in Seq(S \cap T) /\ Len(w) <= Len(s)
      /\ \A i \in DOMAIN s : s[i] \in T => \E n \in DOMAIN w : w[n] = s[i]
      /\ \A n \in DOMAIN w : \E i \in DOMAIN s : s[i] = w[n]
    BY PickedMembers
<1>5. s # <<>> =>
      /\ s[Len(s)] \in T => w # <<>> /\ w[Len(w)] = s[Len(s)]
      /\ (\A i, j \in DOMAIN s : s[i] = s[j] => i = j) =>
            \A n, m \in DOMAIN w : w[n] = w[m] => n = m
    BY PickedOrder
<1> HIDE DEF w
<1>6. w \in Seq(S) /\ \A n \in DOMAIN w : w[n] \in T
    BY <1>4
<1>7. Range(w) = T
    <2>1. \A t \in T : \E i \in DOMAIN s : s[i] = t
        BY <1>2 DEF Range
    <2>2. \A t \in T : t \in Range(w)
        BY <1>4, <2>1 DEF Range
    <2>3. \A t \in Range(w) : t \in T
        BY <1>6 DEF Range
    <2>4. QED
        BY <2>2, <2>3
<1>8. s = <<>> => w = <<>>
    BY <1>4
<1>9. IsInjective(s) => IsInjective(w)
    BY <1>5, <1>8 DEF IsInjective
<1>10. QED
    BY <1>1, <1>2, <1>3, <1>4, <1>5, <1>6, <1>7, <1>9

\* A list that holds nothing twice is as long as what it holds is large.
LEMMA InjectiveLength ==
    ASSUME NEW S, NEW s \in Seq(S), IsInjective(s)
    PROVE  IsFiniteSet(Range(s)) /\ Cardinality(Range(s)) = Len(s)
<1>1. DOMAIN s = 1 .. Len(s) /\ Len(s) \in Nat
    OBVIOUS
<1>2. IsFiniteSet(1 .. Len(s)) /\ Cardinality(1 .. Len(s)) = Len(s)
    BY <1>1, FS_Interval
<1>3. s \in Surjection(1 .. Len(s), Range(s)) /\ s \in Injection(1 .. Len(s), Range(s))
    BY <1>1 DEF Surjection, Injection, IsInjective, Range
<1>4. QED
    BY <1>2, <1>3, FS_Surjection

-----------------------------------------------------------------------------
(* The directory.                                                          *)

\* A name stands for one file, and only a run that has written one has a
\* temporary file of its name.
Naming ==
    /\ DOMAIN listed = Runs
    /\ kills \in Nat /\ recent \in Seq(Keys \cup Runs \cup 1 .. kills) /\ IsInjective(recent)
    /\ \A r \in Runs : r \in Present => run[r].pc = "written"

\* A run that has the directory to itself: what is in it at each of its steps, and
\* what `_prune` has left to do.
Newest == recent[Len(recent)]
Alone(r) ==
    /\ Len(recent) <= Keep + kills + 1
    /\ run[r].pc \in {"idle", "asking", "read"} => Len(recent) <= Keep + kills
    /\ run[r].pc = "written" => recent # <<>> /\ Newest = r
    /\ run[r].pc \in {"saved", "listed", "pruning"} => recent # <<>> /\ Newest \in Keys
    /\ run[r].pc = "listed" => listed[r] = Present
    /\ run[r].pc = "pruning" =>
          Cardinality(Present \ listed[r]) <= Keep /\ Newest \notin listed[r]

Directory == Naming /\ \A r \in Runs : Runs = {r} => Alone(r)

LEMMA NamesShape ==
    ASSUME site \in Sites
    PROVE  /\ Keep \in Nat \ {0} /\ IsFiniteSet(Keys) /\ IsFiniteSet(Runs)
           /\ \A k \in Keys : k \notin Runs /\ k \notin Nat
           /\ \A r \in Runs : r \notin Nat
BY CacheAssumption, NamesAssumption DEF Keys, Runs, Keep

LEMMA DirectoryStarts == Init => Directory
<1> SUFFICES ASSUME Init PROVE Directory
    OBVIOUS
<1> DEFINE here == {k \in Keys : file[k] # Missing}
<1>1. site \in Sites /\ run = [r \in Runs |-> Idle] /\ Idle.pc = "idle" /\ kills = 0 /\ DOMAIN listed = Runs
    BY DEF Init, Idle
<1>2. Cardinality(here) <= Keep /\ recent \in SetToSeqs(here)
    BY DEF Init
<1>3. Cardinality(here) \in Nat
    <2>1. here \in SUBSET Keys /\ IsFiniteSet(Keys)
        BY <1>1, NamesShape
    <2> HIDE DEF here
    <2>2. QED
        BY <2>1, FS_Subset, FS_CardinalityType
<1> HIDE DEF here
<1>4. recent \in Seq(here) /\ Len(recent) <= Keep /\ IsInjective(recent)
    BY <1>2, <1>3 DEF SetToSeqs, IsInjective
<1>5. here \in SUBSET Keys
    BY DEF here
<1>6. Present \in SUBSET Keys
    BY <1>4, <1>5 DEF Present, Range
<1>7. Naming
    BY <1>1, <1>4, <1>5, <1>6, NamesShape DEF Naming
<1>8. \A r \in Runs : Alone(r)
    BY <1>1, <1>4, NamesShape DEF Alone
<1>9. QED
    BY <1>7, <1>8 DEF Directory

\* A step that leaves the directory as it is.
LEMMA QuietDirectory ==
    ASSUME Directory, NEW w \in Runs, UNCHANGED <<site, recent, kills>>,
           run[w].pc # "written", DOMAIN listed' = Runs,
           \A q \in Runs \ {w} : run'[q].pc = run[q].pc,
           Runs = {w} /\ Alone(w) => Alone(w)'
    PROVE  Directory'
<1>1. Keys' = Keys /\ Runs' = Runs /\ Present' = Present
    BY DEF Keys, Runs, Present
<1>2. Naming'
    BY <1>1 DEF Directory, Naming
<1>3. QED
    BY <1>1, <1>2 DEF Directory

LEMMA WriteDirectory ==
    ASSUME Shape, Directory, NEW w \in Runs, Write(w)
    PROVE  Directory'
<1>1. /\ recent' = Append(recent, w) /\ UNCHANGED <<site, kills, listed>> /\ run[w].pc = "read"
      /\ run'[w].pc = "written" /\ \A q \in Runs \ {w} : run'[q].pc = run[q].pc
    BY DEF Write, Shape
<1>2. Keys' = Keys /\ Runs' = Runs /\ Keep' = Keep /\ Keep \in Nat /\ kills \in Nat
    BY <1>1, NamesShape DEF Keys, Runs, Keep, Shape, Directory, Naming
<1>3. recent \in Seq(Keys \cup Runs \cup 1 .. kills) /\ IsInjective(recent) /\ w \notin Present
    BY <1>1 DEF Directory, Naming
<1>4. recent' \in Seq(Keys \cup Runs \cup 1 .. kills) /\ Len(recent') = Len(recent) + 1
      /\ recent'[Len(recent')] = w /\ recent' # <<>>
    BY <1>1, <1>3
<1>5. \A i \in 1 .. Len(recent) : recent[i] # w
    BY <1>3 DEF Present, Range
<1>6. IsInjective(recent')
    <2>1. \A i \in DOMAIN recent' : recent'[i] = IF i = Len(recent) + 1 THEN w ELSE recent[i]
        BY <1>1, <1>3
    <2>2. DOMAIN recent' = 1 .. Len(recent) + 1 /\ DOMAIN recent = 1 .. Len(recent) /\ Len(recent) \in Nat
        BY <1>3, <1>4
    <2>3. QED
        BY <1>3, <1>5, <2>1, <2>2 DEF IsInjective
<1>7. Present' \in SUBSET (Present \cup {w})
    BY <1>1, <1>3 DEF Present, Range
<1>8. Naming'
    BY <1>1, <1>2, <1>4, <1>6, <1>7 DEF Directory, Naming
<1>9. ASSUME Runs = {w} PROVE Alone(w)'
    <2>1. Len(recent) <= Keep + kills /\ Len(recent) \in Nat
        BY <1>1, <1>3, <1>9 DEF Directory, Alone
    <2>2. QED
        BY <1>1, <1>2, <1>4, <2>1 DEF Alone, Newest
<1>10. QED
    BY <1>2, <1>8, <1>9 DEF Directory

LEMMA ReplaceDirectory ==
    ASSUME Shape, Directory, NEW w \in Runs, Replace(w)
    PROVE  Directory'
<1> DEFINE k == run[w].key
           N == Keys \cup Runs \cup 1 .. kills
           others == Without(recent, k)
<1>1. /\ recent' = [i \in DOMAIN others |-> Renamed(others[i], w, k)]
      /\ UNCHANGED <<site, kills>> /\ run[w].pc = "written" /\ w \in Present
      /\ run'[w].pc = "saved" /\ \A q \in Runs \ {w} : run'[q].pc = run[q].pc
      /\ DOMAIN listed' = Runs
    BY DEF Replace, Shape, Vanish
<1>2. /\ Keys' = Keys /\ Runs' = Runs /\ Keep' = Keep /\ Keep \in Nat /\ kills \in Nat
      /\ k \in Keys /\ k # w
    BY <1>1, NamesShape DEF Keys, Runs, Keep, Shape, Directory, Naming
<1>3. recent \in Seq(N) /\ IsInjective(recent)
    BY DEF Directory, Naming
<1>4. /\ others \in Seq(N) /\ Len(others) <= Len(recent) /\ IsInjective(others)
      /\ Range(others) = Present \ {k}
      /\ recent # <<>> /\ recent[Len(recent)] # k =>
            others # <<>> /\ others[Len(others)] = recent[Len(recent)]
    <2> HIDE DEF k, N
    <2>1. QED
        BY <1>3, WithoutMember DEF Present
<1> HIDE DEF others, k
<1>5. recent' \in Seq(N \cup {k}) /\ recent' \in Seq(N) /\ DOMAIN recent' = DOMAIN others
    <2>1. \A i \in DOMAIN others : others[i] \in N /\ k \in N
        BY <1>2, <1>4
    <2>2. DOMAIN others = 1 .. Len(others) /\ Len(others) \in Nat
        BY <1>4
    <2>3. N \cup {k} = N
        BY <1>2
    <2> HIDE DEF N
    <2>4. recent' \in [1 .. Len(others) -> N]
        BY <1>1, <2>1, <2>2 DEF Renamed
    <2>5. QED
        BY <1>1, <2>2, <2>3, <2>4
<1>6. /\ IsInjective(recent') /\ Len(recent') = Len(others)
      /\ \A x \in Present' : x = k \/ (x # w /\ x \in Present)
      /\ others # <<>> => recent' # <<>> /\ recent'[Len(recent')] = Renamed(others[Len(others)], w, k)
    <2>1. others \in Seq(N) /\ IsInjective(others) /\ k \notin Range(others)
        BY <1>4
    <2> HIDE DEF N
    <2>2. /\ DOMAIN others = 1 .. Len(others) /\ DOMAIN recent' = 1 .. Len(recent')
          /\ Len(others) \in Nat /\ Len(recent') \in Nat
        BY <1>5, <2>1
    <2>3. Len(recent') = Len(others)
        BY <1>5, <2>2
    <2>4. \A i \in DOMAIN others : others[i] # k /\ recent'[i] = IF others[i] = w THEN k ELSE others[i]
        BY <1>1, <2>1 DEF Renamed, Range
    <2>5. IsInjective(recent')
        BY <1>5, <2>1, <2>4 DEF IsInjective
    <2>6. \A x \in Range(recent') : x = k \/ (x # w /\ x \in Range(others))
        BY <1>5, <2>4 DEF Range
    <2>7. others # <<>> => recent' # <<>> /\ recent'[Len(recent')] = Renamed(others[Len(others)], w, k)
        BY <1>1, <2>1, <2>2, <2>3
    <2>8. QED
        BY <1>4, <2>3, <2>5, <2>6, <2>7 DEF Present
<1>7. Naming'
    <2>1. \A r \in Runs : r # k
        BY <1>2, NamesShape DEF Shape
    <2>2. \A r \in Runs : r \in Present' => r # w /\ r \in Present
        BY <1>6, <2>1
    <2>3. QED
        BY <1>1, <1>2, <1>5, <1>6, <2>2 DEF Directory, Naming
<1>8. ASSUME Runs = {w} PROVE Alone(w)'
    <2>1. Len(recent) <= Keep + kills + 1 /\ recent # <<>> /\ recent[Len(recent)] = w
        BY <1>1, <1>8 DEF Directory, Alone, Newest
    <2>2. Renamed(w, w, k) = k
        BY DEF Renamed
    <2>3. recent' # <<>> /\ recent'[Len(recent')] = k
        BY <1>2, <1>4, <1>6, <2>1, <2>2
    <2>4. Len(recent') <= Keep + kills + 1
        BY <1>2, <1>3, <1>4, <1>6, <2>1
    <2>5. QED
        BY <1>1, <1>2, <2>3, <2>4 DEF Alone, Newest
<1>9. QED
    BY <1>2, <1>7, <1>8 DEF Directory

LEMMA FailDirectory ==
    ASSUME Shape, Directory, NEW w \in Runs, Fail(w)
    PROVE  Directory'
<1> DEFINE N == Keys \cup Runs \cup 1 .. kills
<1>1. /\ recent' = Without(recent, w)
      /\ UNCHANGED <<site, kills>> /\ run[w].pc \in {"read", "written"}
      /\ run'[w].pc = "idle" /\ \A q \in Runs \ {w} : run'[q].pc = run[q].pc
      /\ DOMAIN listed' = Runs
    BY DEF Fail, Shape, Idle, Vanish
<1>2. /\ Keys' = Keys /\ Runs' = Runs /\ Keep' = Keep /\ Keep \in Nat /\ kills \in Nat
    BY <1>1, NamesShape DEF Keys, Runs, Keep, Shape, Directory, Naming
<1>3. recent \in Seq(N) /\ IsInjective(recent)
    BY DEF Directory, Naming
<1>4. /\ recent' \in Seq(N) /\ Len(recent') <= Len(recent) /\ IsInjective(recent')
      /\ Present' = Present \ {w}
    <2> HIDE DEF N
    <2>1. QED
        BY <1>1, <1>3, WithoutMember DEF Present
<1>5. Naming'
    BY <1>1, <1>2, <1>4 DEF Directory, Naming
<1>6. ASSUME Runs = {w} PROVE Alone(w)'
    <2>1. CASE run[w].pc = "read"
        <3>1. Len(recent) <= Keep + kills
            BY <1>6, <2>1 DEF Directory, Alone
        <3>2. Len(recent') <= Keep + kills
            BY <1>2, <1>3, <1>4, <3>1
        <3>3. QED
            BY <1>1, <1>2, <1>4, <3>2 DEF Alone
    <2>2. CASE run[w].pc = "written"
        <3>1. Len(recent) <= Keep + kills + 1 /\ recent # <<>> /\ recent[Len(recent)] = w
            BY <1>6, <2>2 DEF Directory, Alone, Newest
        <3>2. Cardinality(Present) = Len(recent) /\ IsFiniteSet(Present) /\ Cardinality(Present') = Len(recent')
            <4> HIDE DEF N
            <4>1. QED
                BY <1>3, <1>4, InjectiveLength DEF Present
        <3>3. w \in Present
            BY <1>3, <3>1 DEF Present, Range
        <3>4. Len(recent') = Len(recent) - 1
            BY <1>4, <3>2, <3>3, FS_RemoveElement
        <3>5. Len(recent') <= Keep + kills
            BY <1>2, <1>3, <3>1, <3>4
        <3>6. QED
            BY <1>1, <1>2, <1>4, <3>5 DEF Alone
    <2>3. QED
        BY <1>1, <2>1, <2>2
<1>7. QED
    BY <1>2, <1>5, <1>6 DEF Directory

LEMMA ListDirectory ==
    ASSUME Shape, Directory, NEW w \in Runs, List(w)
    PROVE  Directory'
<1>1. /\ UNCHANGED <<site, recent, kills>> /\ run[w].pc = "saved" /\ DOMAIN listed' = Runs
      /\ \A q \in Runs \ {w} : run'[q].pc = run[q].pc
      /\ \/ run'[w].pc = "idle" /\ Len(recent) <= Keep
         \/ run'[w].pc = "listed" /\ listed'[w] = Present
    BY DEF List, Shape, Idle, Directory, Naming
<1>2. ASSUME Runs = {w}, Alone(w) PROVE Alone(w)'
    <2>1. /\ Keep' = Keep /\ Keys' = Keys /\ Present' = Present /\ Newest' = Newest
          /\ Keep \in Nat /\ kills \in Nat /\ Len(recent) \in Nat
        BY <1>1, NamesShape DEF Keep, Keys, Present, Newest, Shape, Directory, Naming
    <2>2. Len(recent) <= Keep + kills + 1 /\ recent # <<>> /\ Newest \in Keys
        BY <1>1, <1>2 DEF Alone
    <2>3. QED
        BY <1>1, <2>1, <2>2 DEF Alone
<1>3. QED
    BY <1>1, <1>2, QuietDirectory

\* What `_prune` is going to unlink leaves Keep files, and the newest among them.
LEMMA OldestAreOld ==
    ASSUME NEW S, recent \in Seq(S), IsInjective(recent), recent # <<>>, Keep \in Nat \ {0}
    PROVE  Cardinality(Present \ OldestOf(Present)) <= Keep /\ Newest \notin OldestOf(Present)
<1> DEFINE kept == Picked(recent, Present)
           I == Len(kept) - Keep + 1 .. Len(kept)
           D == Present \ OldestOf(Present)
           L == {i \in DOMAIN kept : kept[i] \in D}
<1>1. \A i \in DOMAIN recent : recent[i] \in Present
    BY DEF Present, Range
<1>2. DOMAIN recent = 1 .. Len(recent) /\ Len(recent) \in Nat \ {0}
    OBVIOUS
<1>3. /\ kept \in Seq(S \cap Present)
      /\ \A i \in DOMAIN recent : \E n \in DOMAIN kept : kept[n] = recent[i]
    <2>1. /\ kept \in Seq(S \cap Present)
          /\ \A i \in DOMAIN recent : recent[i] \in Present => \E n \in DOMAIN kept : kept[n] = recent[i]
        BY PickedMembers
    <2>2. QED
        BY <1>1, <2>1
<1>4. /\ kept # <<>> /\ kept[Len(kept)] = Newest
      /\ \A n, m \in DOMAIN kept : kept[n] = kept[m] => n = m
    BY <1>1, <1>2, PickedOrder DEF Newest, IsInjective
<1>5. OldestOf(Present) = {kept[i] : i \in 1 .. Len(kept) - Keep}
    BY DEF OldestOf
<1> HIDE DEF kept
<1>6. DOMAIN kept = 1 .. Len(kept) /\ Len(kept) \in Nat \ {0}
    BY <1>3, <1>4
<1>7. Newest \notin OldestOf(Present)
    BY <1>4, <1>5, <1>6
<1>8. IsFiniteSet(I) /\ Cardinality(I) = Keep
    <2> DEFINE a == Len(kept) - Keep + 1
               b == Len(kept)
    <2>1. a \in Int /\ b \in Int /\ a <= b /\ b - a + 1 = Keep
        BY <1>6
    <2> HIDE DEF a, b
    <2>2. IsFiniteSet(a .. b) /\ Cardinality(a .. b) = Keep
        BY <2>1, FS_Interval
    <2>3. QED
        BY <2>2 DEF a, b
<1>9. L \in SUBSET I
    BY <1>5, <1>6
<1>10. \A x \in D : \E i \in L : kept[i] = x
    BY <1>3 DEF Present, Range
<1> DEFINE f == [i \in L |-> kept[i]]
<1>11. f \in Surjection(L, D)
    BY <1>10 DEF Surjection
<1> HIDE DEF I, L, D, f
<1>12. IsFiniteSet(L) /\ Cardinality(L) <= Keep /\ Cardinality(L) \in Nat
    BY <1>8, <1>9, FS_Subset, FS_CardinalityType
<1>13. IsFiniteSet(D) /\ Cardinality(D) <= Cardinality(L)
    BY <1>11, <1>12, FS_Surjection
<1>14. Cardinality(D) \in Nat
    BY <1>13, FS_CardinalityType
<1>15. QED
    BY <1>7, <1>12, <1>13, <1>14 DEF D

LEMMA SortDirectory ==
    ASSUME Shape, Directory, NEW w \in Runs, Sort(w)
    PROVE  Directory'
<1>1. /\ UNCHANGED <<site, recent, kills>> /\ run[w].pc = "listed" /\ DOMAIN listed' = Runs
      /\ \A q \in Runs \ {w} : run'[q].pc = run[q].pc
      /\ \/ run'[w].pc = "idle" /\ ~(listed[w] \subseteq Present)
         \/ run'[w].pc = "pruning" /\ listed'[w] = OldestOf(listed[w])
    BY DEF Sort, Shape, Idle, Directory, Naming
<1>2. ASSUME Runs = {w}, Alone(w) PROVE Alone(w)'
    <2>1. /\ Keep' = Keep /\ Keys' = Keys /\ Present' = Present /\ Newest' = Newest
          /\ Keep \in Nat \ {0} /\ kills \in Nat /\ Len(recent) \in Nat
        BY <1>1, NamesShape DEF Keep, Keys, Present, Newest, Shape, Directory, Naming
    <2>2. Len(recent) <= Keep + kills + 1 /\ recent # <<>> /\ Newest \in Keys /\ listed[w] = Present
        BY <1>1, <1>2 DEF Alone
    <2>3. Cardinality(Present \ OldestOf(Present)) <= Keep /\ Newest \notin OldestOf(Present)
        <3>1. recent \in Seq(Keys \cup Runs \cup 1 .. kills) /\ IsInjective(recent)
            BY DEF Directory, Naming
        <3>2. QED
            BY <2>1, <2>2, <3>1, OldestAreOld
    <2>4. run'[w].pc = "pruning" /\ listed'[w] = OldestOf(Present)
        BY <1>1, <2>2
    <2>5. QED
        BY <1>1, <2>1, <2>2, <2>3, <2>4 DEF Alone
<1>3. QED
    BY <1>1, <1>2, QuietDirectory

LEMMA UnlinkDirectory ==
    ASSUME Shape, Directory, NEW w \in Runs, Unlink(w)
    PROVE  Directory'
<1> DEFINE N == Keys \cup Runs \cup 1 .. kills
<1>1. PICK old \in listed[w] : /\ listed' = [listed EXCEPT ![w] = @ \ {old}]
                               /\ recent' = Without(recent, old)
    BY DEF Unlink
<1>2. /\ UNCHANGED <<site, kills>> /\ run[w].pc = "pruning"
      /\ \A q \in Runs \ {w} : run'[q].pc = run[q].pc
      /\ \/ run'[w].pc = "idle" /\ listed'[w] = {}
         \/ run'[w].pc = "pruning"
    BY DEF Unlink, Shape, Idle
<1>3. listed'[w] = listed[w] \ {old} /\ DOMAIN listed' = Runs
    BY <1>1 DEF Directory, Naming
<1>4. /\ Keys' = Keys /\ Runs' = Runs /\ Keep' = Keep /\ Keep \in Nat /\ kills \in Nat
    BY <1>2, NamesShape DEF Keys, Runs, Keep, Shape, Directory, Naming
<1>5. recent \in Seq(N) /\ IsInjective(recent)
    BY DEF Directory, Naming
<1>6. /\ recent' \in Seq(N) /\ Len(recent') <= Len(recent) /\ IsInjective(recent')
      /\ Present' = Present \ {old}
      /\ recent # <<>> /\ Newest # old => recent' # <<>> /\ Newest' = Newest
    <2> HIDE DEF N
    <2>1. QED
        BY <1>1, <1>5, WithoutMember DEF Present, Newest
<1>7. Naming'
    BY <1>2, <1>3, <1>4, <1>6 DEF Directory, Naming
<1>8. ASSUME Runs = {w} PROVE Alone(w)'
    <2>1. /\ Len(recent) <= Keep + kills + 1 /\ recent # <<>> /\ Newest \in Keys
          /\ Cardinality(Present \ listed[w]) <= Keep /\ Newest \notin listed[w]
        BY <1>2, <1>8 DEF Directory, Alone
    <2>2. Present' \ listed'[w] = Present \ listed[w]
        BY <1>3, <1>6
    <2>3. recent' # <<>> /\ Newest' \in Keys /\ Newest' \notin listed'[w]
        BY <1>3, <1>6, <2>1
    <2>4. Len(recent') <= Keep + kills + 1
        BY <1>4, <1>5, <1>6, <2>1
    <2>5. ASSUME listed'[w] = {} PROVE Len(recent') <= Keep + kills
        <3>1. Cardinality(Present') <= Keep
            BY <2>1, <2>2, <2>5
        <3>2. Cardinality(Present') = Len(recent')
            <4> HIDE DEF N
            <4>1. QED
                BY <1>6, InjectiveLength DEF Present
        <3>3. Len(recent') \in Nat
            BY <1>6
        <3>4. QED
            BY <1>4, <3>1, <3>2, <3>3
    <2>6. QED
        BY <1>2, <1>4, <2>1, <2>2, <2>3, <2>4, <2>5 DEF Alone
<1>9. QED
    BY <1>4, <1>7, <1>8 DEF Directory

LEMMA KillDirectory ==
    ASSUME Shape, Directory, NEW w \in Runs, Kill(w)
    PROVE  Directory'
<1> DEFINE N == Keys \cup Runs \cup 1 .. kills
           M == Keys \cup Runs \cup 1 .. kills'
<1>1. /\ recent' = [i \in DOMAIN recent |-> Renamed(recent[i], w, kills')]
      /\ site' = site /\ kills' = kills + 1 /\ DOMAIN listed' = Runs
      /\ run'[w].pc = "idle" /\ \A q \in Runs \ {w} : run'[q].pc = run[q].pc
    BY DEF Kill, Shape, Idle
<1>2. Keys' = Keys /\ Runs' = Runs /\ Keep' = Keep /\ Keep \in Nat /\ kills \in Nat /\ kills' \in Nat
    BY <1>1, NamesShape DEF Keys, Runs, Keep, Shape, Directory, Naming
<1>3. recent \in Seq(N) /\ IsInjective(recent)
    BY DEF Directory, Naming
<1>4. DOMAIN recent = 1 .. Len(recent) /\ Len(recent) \in Nat
    BY <1>3
<1>5. \A i \in DOMAIN recent : recent[i] # kills' /\ recent[i] \in M /\ recent[i] \in Present
    <2>1. kills' \notin N
        <3>1. kills' \notin Keys /\ kills' \notin Runs
            BY <1>2, NamesShape DEF Shape
        <3>2. kills' \notin 1 .. kills
            BY <1>1, <1>2
        <3>3. QED
            BY <3>1, <3>2
    <2>2. N \in SUBSET M /\ kills' \in M
        BY <1>1, <1>2
    <2>3. \A i \in DOMAIN recent : recent[i] \in N
        BY <1>3
    <2>4. QED
        BY <2>1, <2>2, <2>3 DEF Present, Range
<1>6. kills' \in M
    BY <1>1, <1>2
<1> HIDE DEF N, M
<1>7. /\ DOMAIN recent' = DOMAIN recent
      /\ \A i \in DOMAIN recent : recent'[i] = IF recent[i] = w THEN kills' ELSE recent[i]
    BY <1>1 DEF Renamed
<1>8. recent' \in Seq(M) /\ Len(recent') = Len(recent)
    <2>1. recent' \in [1 .. Len(recent) -> M]
        BY <1>1, <1>4, <1>5, <1>6, <1>7
    <2>2. QED
        BY <1>4, <2>1
<1>9. IsInjective(recent')
    BY <1>3, <1>5, <1>7 DEF IsInjective
<1>10. \A q \in Runs : q \in Present' => q # w /\ q \in Present
    <2>1. \A q \in Runs : q # kills'
        BY <1>2, NamesShape DEF Shape
    <2>2. QED
        BY <1>5, <1>7, <2>1 DEF Present, Range
<1>11. Naming'
    BY <1>1, <1>2, <1>8, <1>9, <1>10 DEF Directory, Naming, M
<1>12. ASSUME Runs = {w} PROVE Alone(w)'
    <2>1. Len(recent) <= Keep + kills + 1
        BY <1>12 DEF Directory, Alone
    <2>2. Len(recent') <= Keep + kills'
        BY <1>1, <1>2, <1>4, <1>8, <2>1
    <2>3. QED
        BY <1>1, <1>2, <1>4, <1>8, <2>2 DEF Alone
<1>13. QED
    BY <1>2, <1>11, <1>12 DEF Directory

LEMMA DirectorySteps == IInv /\ Directory /\ [Next]_vars => Directory'
<1> SUFFICES ASSUME IInv, Directory, [Next]_vars PROVE Directory'
    OBVIOUS
<1>0. Shape
    BY DEF IInv
<1>1. ASSUME UNCHANGED <<site, recent, kills, run, listed>> PROVE Directory'
    <2>1. Keys' = Keys /\ Runs' = Runs /\ Keep' = Keep /\ Present' = Present /\ Newest' = Newest
        BY <1>1 DEF Keys, Runs, Keep, Present, Newest
    <2>2. Naming'
        BY <1>1, <2>1 DEF Directory, Naming
    <2>3. \A r \in Runs : Alone(r) => Alone(r)'
        BY <1>1, <2>1 DEF Alone
    <2>4. QED
        BY <2>1, <2>2, <2>3 DEF Directory
<1>2. CASE UNCHANGED vars \/ Tick
    BY <1>1, <1>2 DEF vars, Tick
<1>3. ASSUME NEW w \in Runs, Step(w) PROVE Directory'
    <2>1. ASSUME \/ \E k \in Keys : Begin(w, k)
                 \/ \E p \in Partitions : Ask(w, p)
                 \/ Read(w)
          PROVE  Directory'
        <3> DEFINE Quiet == /\ UNCHANGED <<site, recent, kills, listed>> /\ run[w].pc \in {"idle", "asking"}
                            /\ run'[w].pc \in {"asking", "read"}
                            /\ \A q \in Runs \ {w} : run'[q].pc = run[q].pc
        <3>a. ASSUME NEW k \in Keys, Begin(w, k) PROVE Quiet
            BY <1>0, <3>a DEF Begin, Shape
        <3>b. ASSUME NEW p \in Partitions, Ask(w, p) PROVE Quiet
            <4>1. PICK v \in Answers : run' = [run EXCEPT ![w].got[p] = v, ![w].when[p] = now]
                BY <3>b DEF Ask
            <4>2. run'[w].pc = run[w].pc /\ \A q \in Runs \ {w} : run'[q].pc = run[q].pc
                BY <1>0, <4>1 DEF Shape
            <4>3. QED
                BY <3>b, <4>2 DEF Ask
        <3>c. ASSUME Read(w) PROVE Quiet
            BY <1>0, <3>c DEF Read, Shape
        <3>1. Quiet
            BY <2>1, <3>a, <3>b, <3>c
        <3>2. Alone(w) => Alone(w)'
            <4>1. Keep' = Keep
                BY <3>1 DEF Keep
            <4>2. QED
                BY <3>1, <4>1 DEF Alone
        <3>3. DOMAIN listed' = Runs
            BY <3>1 DEF Directory, Naming
        <3>4. QED
            BY <3>1, <3>2, <3>3, QuietDirectory
    <2>2. QED
        BY <1>0, <1>3, <2>1, WriteDirectory, ReplaceDirectory, FailDirectory, ListDirectory,
           SortDirectory, UnlinkDirectory, KillDirectory DEF Step
<1>4. QED
    BY <1>2, <1>3 DEF Next

LEMMA DirectoryStands == Spec => [](IInv /\ Directory)
<1>1. Init => IInv /\ Directory
    BY Starts, DirectoryStarts
<1>2. IInv /\ Directory /\ [Next]_vars => (IInv /\ Directory)'
    BY Steps, DirectorySteps
<1>3. QED
    BY <1>1, <1>2, PTL DEF Spec

\* Between the saves of a run that has the directory to itself, the directory holds
\* Keep files and one for each kill at most, however the saves and the kills of the
\* run have followed on one another.
THEOREM DirectoryStaysBounded == Spec => []DirectoryBounded
<1>1. IInv /\ Directory => DirectoryBounded
    <2> SUFFICES ASSUME IInv, Directory, Cardinality(Runs) = 1,
                        \A r \in Runs : run[r].pc \in {"idle", "asking"}
                 PROVE  Len(recent) <= Keep + kills
        BY DEF DirectoryBounded
    <2>1. IsFiniteSet(Runs)
        BY NamesShape DEF IInv, Shape
    <2>2. PICK r : Runs = {r}
        BY <2>1, FS_Singleton
    <2>3. QED
        BY <2>2 DEF Directory, Alone
<1>2. QED
    BY <1>1, DirectoryStands, PTL

\* The answer that was written last is never the one `_prune` unlinks.
THEOREM NewestAnswerSurvives == Spec => NewestSurvives
<1> DEFINE Spared == Cardinality(Runs) = 1 =>
        \A k \in Keys \cap (Present \ Range(recent')) : Last(Picked(recent, Keys)) # k
<1>1. IInv /\ Directory /\ [Next]_vars => [Spared]_vars
    <2> SUFFICES ASSUME IInv, Directory, Next, Cardinality(Runs) = 1,
                        NEW k \in Keys, k \in Present, k \notin Range(recent')
                 PROVE  Last(Picked(recent, Keys)) # k
        BY DEF vars
    <2>1. PICK r : Runs = {r}
        <3>1. IsFiniteSet(Runs)
            BY NamesShape DEF IInv, Shape
        <3>2. QED
            BY <3>1, FS_Singleton
    <2>2. k \notin Runs /\ k \notin Nat /\ k # r
        BY <2>1, NamesShape DEF IInv, Shape
    <2>3. PICK i \in DOMAIN recent : recent[i] = k
        BY DEF Present, Range
    <2>4. Unlink(r)
        <3>1. Step(r)
            <4>1. recent' # recent
                BY DEF Present
            <4>2. QED
                BY <2>1, <4>1 DEF Next, Tick
        <3>2. recent \in Seq(Keys \cup Runs \cup 1 .. kills) /\ kills \in Nat
            BY DEF Directory, Naming
        <3>3. ASSUME NEW j \in DOMAIN recent', recent'[j] = k PROVE FALSE
            BY <3>3 DEF Range
        <3>4. ~Write(r)
            <4>1. i \in DOMAIN Append(recent, r) /\ Append(recent, r)[i] = k
                BY <2>3, <3>2
            <4>2. QED
                BY <3>3, <4>1 DEF Write
        <3>5. ~Kill(r)
            <4>1. ASSUME Kill(r) PROVE i \in DOMAIN recent' /\ recent'[i] = k
                BY <2>2, <2>3, <4>1 DEF Kill, Renamed
            <4>2. QED
                BY <3>3, <4>1
        <3>6. ~Fail(r)
            <4>1. Range(Without(recent, r)) = Present \ {r}
                BY <3>2, WithoutMember DEF Present
            <4>2. QED
                BY <2>2, <4>1 DEF Fail
        <3>7. ~Replace(r)
            <4>1. SUFFICES ASSUME Replace(r) PROVE FALSE
                OBVIOUS
            <4> DEFINE q == run[r].key
                       others == Without(recent, q)
            <4>2. /\ recent' = [j \in DOMAIN others |-> Renamed(others[j], r, q)]
                  /\ r \in Present
                BY <4>1 DEF Replace
            <4>3. Range(others) = Present \ {q}
                BY <3>2, WithoutMember DEF Present
            <4> HIDE DEF others, q
            <4>4. \A x \in Present \ {q} : \E j \in DOMAIN others : others[j] = x
                BY <4>3 DEF Range
            <4>5. CASE k = q
                <5>1. r \in Present \ {q}
                    BY <2>2, <4>2, <4>5
                <5>2. PICK j \in DOMAIN others : others[j] = r
                    BY <4>4, <5>1
                <5>3. QED
                    BY <3>3, <4>2, <4>5, <5>2 DEF Renamed
            <4>6. CASE k # q
                <5>1. PICK j \in DOMAIN others : others[j] = k
                    BY <4>4, <4>6
                <5>2. QED
                    BY <2>2, <3>3, <4>2, <5>1 DEF Renamed
            <4>7. QED
                BY <4>5, <4>6
        <3>8. recent' # recent
            BY DEF Present
        <3>9. QED
            BY <3>1, <3>4, <3>5, <3>6, <3>7, <3>8 DEF Step, Begin, Ask, Read, List, Sort
    <2>5. PICK old \in listed[r] : recent' = Without(recent, old)
        BY <2>4 DEF Unlink
    <2>6. recent \in Seq(Keys \cup Runs \cup 1 .. kills)
        BY DEF Directory, Naming
    <2>7. old = k
        <3>1. Range(Without(recent, old)) = Present \ {old}
            BY <2>6, WithoutMember DEF Present
        <3>2. QED
            BY <2>5, <3>1
    <2>8. recent # <<>> /\ Newest \in Keys /\ Newest # k
        BY <2>1, <2>4, <2>5, <2>7 DEF Directory, Alone, Unlink
    <2>9. Picked(recent, Keys) # <<>> /\ Picked(recent, Keys)[Len(Picked(recent, Keys))] = Newest
        BY <2>6, <2>8, PickedOrder DEF Newest
    <2>10. QED
        BY <2>8, <2>9 DEF Last
<1>2. QED
    BY <1>1, DirectoryStands, PTL DEF Spec, NewestSurvives

-----------------------------------------------------------------------------
(* Types.                                                                  *)

\* Clocks are of the wall clock's range, and what a run is about to rename is a document.
Clocked ==
    /\ now \in Time /\ file \in [Keys -> Document]
    /\ \A r \in Runs :
          /\ run[r].when \in [Partitions -> Clock] /\ run[r].draft \in Document
          /\ run[r].pc = "written" => run[r].draft # Missing

\* A run has found files by their names; 0 stands for a name that is no file's any more.
FoundNames == Names \cup {0}
Found == kills \in 0 .. MaxKills /\ listed \in [Runs -> SUBSET FoundNames]

\* The directory lists exactly the questions that have a document.
Filed == \A k \in Keys : k \in Present <=> file[k] # Missing

Typed == Clocked /\ Found /\ Filed

LEMMA BoundsShape ==
    ASSUME site \in Sites
    PROVE  MaxTime \in Nat /\ MaxSpan \in Nat /\ MaxKills \in Nat
BY CacheAssumption DEF MaxTime, MaxSpan, MaxKills

LEMMA MissingIsDocument == Never \in Clock /\ Missing \in Document
BY DEF Missing, Document, Clock

\* A list in which one name has taken another's place.
LEMMA RenamedMembers ==
    ASSUME NEW s, NEW a, NEW b, NEW t, t = [i \in DOMAIN s |-> Renamed(s[i], a, b)]
    PROVE  \A x : x \in Range(t) <=> (x \in Range(s) /\ x # a) \/ (x = b /\ a \in Range(s))
BY DEF Renamed, Range

LEMMA StartsTyped == Init => Typed
<1> SUFFICES ASSUME Init PROVE Typed
    OBVIOUS
<1> DEFINE here == {k \in Keys : file[k] # Missing}
<1>1. /\ site \in Sites /\ now = 0 /\ kills = 0 /\ run = [r \in Runs |-> Idle]
      /\ listed = [r \in Runs |-> {}] /\ recent \in SetToSeqs(here)
      /\ file \in [Keys -> {Missing} \cup {Legacy(v, 0) : v \in [Partitions -> Stored]}]
    BY DEF Init
<1>2. MaxTime \in Nat /\ MaxKills \in Nat /\ 0 \in Clock
    BY <1>1, BoundsShape DEF Clock, Time
<1>3. ASSUME NEW v \in [Partitions -> Stored] PROVE Legacy(v, 0) \in Document
    <2>1. v \in [Partitions -> Verdict \cup {"none"}]
        BY <1>1, SiteShape
    <2>2. QED
        BY <1>2, <2>1, MissingIsDocument DEF Legacy, Document
<1>4. file \in [Keys -> Document]
    BY <1>1, <1>3, MissingIsDocument
<1>5. Clocked
    BY <1>1, <1>2, <1>4, MissingIsDocument DEF Clocked, Idle, NoTimes, Time
<1>6. Found
    BY <1>1, <1>2 DEF Found
<1>7. here \in SUBSET Keys /\ IsFiniteSet(here) /\ Cardinality(here) \in Nat
    <2>1. here \in SUBSET Keys /\ IsFiniteSet(Keys)
        BY <1>1, NamesShape
    <2> HIDE DEF here
    <2>2. QED
        BY <2>1, FS_Subset, FS_CardinalityType
<1>8. Present = here
    <2> HIDE DEF here
    <2>1. recent \in Seq(here) /\ IsInjective(recent) /\ Len(recent) = Cardinality(here)
        BY <1>1, <1>7 DEF SetToSeqs, IsInjective
    <2>2. Cardinality(Present) = Cardinality(here)
        BY <2>1, InjectiveLength DEF Present
    <2>3. Present \in SUBSET here
        BY <2>1 DEF Present, Range
    <2>4. QED
        BY <1>7, <2>2, <2>3, FS_Subset
<1>9. QED
    BY <1>5, <1>6, <1>8 DEF Typed, Filed

\* What `save` writes is a document.
LEMMA MergeIsDocument ==
    ASSUME NEW before \in Document, NEW v \in [Partitions -> Verdict \cup {"none"}],
           NEW t \in [Partitions -> Clock], NEW stamp \in Time, MaxTime \in Nat
    PROVE  Merge(before, v, t, stamp) \in Document /\ Merge(before, v, t, stamp) # Missing
<1> DEFINE m == Merge(before, v, t, stamp)
<1>1. stamp \in Clock /\ Never \in Clock /\ stamp # Never
    BY DEF Clock, Time, Never
<1>2. /\ before.at \in Clock /\ before.verdicts \in [Partitions -> Verdict \cup {"none"}]
      /\ before.seen \in [Partitions -> Clock] /\ before.asked \in [Partitions -> Clock]
    BY DEF Document
<1>3. m \in Document
    BY <1>1, <1>2 DEF Merge, Document
<1>4. m.at = stamp /\ Missing.at = Never
    BY DEF Merge, Missing
<1>5. QED
    BY <1>1, <1>3, <1>4

LEMMA StepClocked ==
    ASSUME IInv, Clocked, [Next]_vars
    PROVE  Clocked'
<1>1. Shape /\ site \in Sites
    BY DEF IInv, Shape
<1>2. MaxTime \in Nat /\ now \in Time /\ now \in Clock
    BY <1>1, BoundsShape DEF Clocked, Clock
<1>3. CASE UNCHANGED vars
    BY <1>3 DEF vars, Clocked, Time, Clock, Document, Keys, Runs, MaxTime
<1>4. CASE Tick
    <2>1. now' \in Time /\ UNCHANGED <<site, file, run>>
        BY <1>2, <1>4 DEF Tick, Time
    <2>2. Keys' = Keys /\ Runs' = Runs /\ Time' = Time /\ Clock' = Clock /\ Document' = Document
        BY <2>1 DEF Keys, Runs, Time, Clock, Document, MaxTime
    <2>3. QED
        BY <2>1, <2>2 DEF Clocked
<1>5. ASSUME NEW w \in Runs, Step(w) PROVE Clocked'
    <2>1. UNCHANGED <<site, now>>
        BY <1>5 DEF Step, Begin, Ask, Read, Write, Replace, Fail, List, Sort, Unlink, Kill
    <2>2. /\ Keys' = Keys /\ Runs' = Runs /\ Time' = Time /\ Clock' = Clock /\ Document' = Document
        BY <2>1 DEF Keys, Runs, Time, Clock, Document, MaxTime
    <2>3. /\ run[w].when \in [Partitions -> Clock] /\ run[w].draft \in Document
          /\ run[w].got \in [Partitions -> Verdict \cup {"none"}]
        BY <1>1 DEF Clocked, Shape
    <2> DEFINE Well(x) == /\ x.when \in [Partitions -> Clock] /\ x.draft \in Document
                          /\ x.pc = "written" => x.draft # Missing
    <2>4. Well(Idle) /\ \A r \in Runs : Well(run[r])
        BY MissingIsDocument DEF Clocked, Idle, NoTimes
    <2>5. CASE \E k \in Keys : Begin(w, k)
        <3>1. UNCHANGED file /\ \A r \in Runs \ {w} : run'[r] = run[r]
            BY <1>1, <2>5 DEF Begin, Shape
        <3>2. Well(run'[w])
            BY <1>1, <2>3, <2>5 DEF Begin, Shape
        <3>3. QED
            BY <2>1, <2>2, <2>4, <3>1, <3>2 DEF Clocked
    <2>6. CASE \E p \in Partitions : Ask(w, p)
        <3>1. PICK p \in Partitions, v \in Answers :
                  run' = [run EXCEPT ![w].got[p] = v, ![w].when[p] = now]
            BY <2>6 DEF Ask
        <3>2. UNCHANGED file /\ run[w].pc = "asking"
            BY <2>6 DEF Ask
        <3>3. \A r \in Runs \ {w} : run'[r] = run[r]
            BY <1>1, <3>1 DEF Shape
        <3>4. run'[w].when = [run[w].when EXCEPT ![p] = now] /\ run'[w].draft = run[w].draft
              /\ run'[w].pc = "asking"
            BY <1>1, <3>1, <3>2 DEF Shape
        <3>5. Well(run'[w])
            BY <1>2, <2>3, <3>4
        <3>6. QED
            BY <2>1, <2>2, <2>4, <3>2, <3>3, <3>5 DEF Clocked
    <2>7. CASE Read(w)
        <3>1. UNCHANGED file /\ \A r \in Runs \ {w} : run'[r] = run[r]
            BY <1>1, <2>7 DEF Read, Shape
        <3>2. file[run[w].key] \in Document
            BY <1>1, <2>7 DEF Read, Shape, Clocked
        <3>3. /\ run'[w].pc = "read" /\ run'[w].draft = file[run[w].key]
              /\ run'[w].when = run[w].when
            BY <1>1, <2>7 DEF Read, Shape
        <3>4. QED
            BY <2>1, <2>2, <2>3, <2>4, <3>1, <3>2, <3>3 DEF Clocked
    <2>8. CASE Write(w)
        <3>1. UNCHANGED file /\ \A r \in Runs \ {w} : run'[r] = run[r]
            BY <1>1, <2>8 DEF Write, Shape
        <3>2. run'[w].draft = Merge(run[w].draft, run[w].got, run[w].when, now) /\ run'[w].when = run[w].when
            BY <1>1, <2>8 DEF Write, Shape
        <3>3. Well(run'[w])
            BY <1>2, <2>3, <3>2, MergeIsDocument
        <3>4. QED
            BY <2>1, <2>2, <2>4, <3>1, <3>3 DEF Clocked
    <2>9. CASE Replace(w)
        <3>1. file' \in [Keys -> Document]
            BY <2>3, <2>9 DEF Replace, Clocked
        <3>2. /\ run'[w].pc = "saved" /\ run'[w].when = run[w].when /\ run'[w].draft = run[w].draft
              /\ \A r \in Runs \ {w} : run'[r] = run[r]
            BY <1>1, <2>9 DEF Replace, Shape
        <3>3. QED
            BY <2>1, <2>2, <2>3, <2>4, <3>1, <3>2 DEF Clocked
    <2>10. CASE Fail(w) \/ Kill(w)
        <3>1. UNCHANGED file /\ \A r \in Runs : run'[r] \in {run[r], Idle}
            BY <1>1, <2>10 DEF Fail, Kill, Shape
        <3>2. QED
            BY <2>1, <2>2, <2>4, <3>1 DEF Clocked
    <2>11. CASE List(w) \/ Sort(w)
        <3>1. UNCHANGED file /\ \A r \in Runs \ {w} : run'[r] = run[r]
            BY <1>1, <2>11 DEF List, Sort, Shape
        <3>2. /\ run'[w].pc # "written"
              /\ run'[w].when \in {Idle.when, run[w].when} /\ run'[w].draft \in {Idle.draft, run[w].draft}
            BY <1>1, <2>11 DEF List, Sort, Shape, Idle
        <3>3. QED
            BY <2>1, <2>2, <2>3, <2>4, <3>1, <3>2 DEF Clocked
    <2>12. CASE Unlink(w)
        <3>1. file' \in [Keys -> Document]
            BY <2>12, MissingIsDocument DEF Unlink, Clocked
        <3>2. \A r \in Runs : run'[r] \in {run[r], Idle}
            BY <1>1, <2>12 DEF Unlink, Shape
        <3>3. QED
            BY <2>1, <2>2, <2>4, <3>1, <3>2 DEF Clocked
    <2>13. QED
        BY <1>5, <2>5, <2>6, <2>7, <2>8, <2>9, <2>10, <2>11, <2>12 DEF Step
<1>6. QED
    BY <1>3, <1>4, <1>5 DEF Next

LEMMA StepFound ==
    ASSUME IInv, Directory, Found, [Next]_vars
    PROVE  Found'
<1>1. site \in Sites /\ recent \in Seq(Keys \cup Runs \cup 1 .. kills) /\ kills \in Nat
    BY DEF IInv, Shape, Directory, Naming
<1>2. MaxKills \in Nat /\ Present \in SUBSET Names
    <2>1. MaxKills \in Nat
        BY <1>1, BoundsShape
    <2>2. 1 .. kills \in SUBSET (1 .. MaxKills)
        BY <1>1, <2>1 DEF Found
    <2>3. QED
        BY <1>1, <2>1, <2>2 DEF Present, Range, Names
<1>3. UNCHANGED site => MaxKills' = MaxKills /\ Runs' = Runs /\ FoundNames' = FoundNames
    BY DEF MaxKills, Runs, FoundNames, Names, Keys
<1>4. ASSUME UNCHANGED <<site, kills, listed>> PROVE Found'
    BY <1>3, <1>4 DEF Found
<1>5. CASE UNCHANGED vars \/ Tick
    BY <1>4, <1>5 DEF vars, Tick
<1>6. ASSUME NEW w \in Runs, Step(w) PROVE Found'
    <2>1. CASE \/ \E k \in Keys : Begin(w, k)
               \/ \E p \in Partitions : Ask(w, p)
               \/ Read(w) \/ Write(w)
        BY <1>4, <2>1 DEF Begin, Ask, Read, Write
    <2>2. ASSUME NEW new \in FoundNames, NEW r \in Runs
          PROVE  RenamedIn(listed[r], w, new) \in SUBSET FoundNames
        <3>1. listed[r] \in SUBSET FoundNames
            BY DEF Found
        <3>2. QED
            BY <3>1 DEF RenamedIn, Renamed
    <2>3. CASE Replace(w) \/ Fail(w)
        <3>1. Vanish(w, 0) /\ UNCHANGED <<site, kills>> /\ 0 \in FoundNames
            BY <2>3 DEF Replace, Fail, FoundNames
        <3>2. listed' \in [Runs -> SUBSET FoundNames]
            BY <2>2, <3>1 DEF Vanish
        <3>3. QED
            BY <1>3, <3>1, <3>2 DEF Found
    <2>4. CASE List(w)
        <3>1. UNCHANGED <<site, kills>> /\ listed' \in {listed, [listed EXCEPT ![w] = Present]}
            BY <2>4 DEF List
        <3>2. Present \in SUBSET FoundNames
            BY <1>2 DEF FoundNames
        <3>3. QED
            BY <1>3, <3>1, <3>2 DEF Found
    <2>5. CASE Sort(w)
        <3>1. UNCHANGED <<site, kills>> /\ listed' \in {[listed EXCEPT ![w] = OldestOf(listed[w])],
                                                       [listed EXCEPT ![w] = {}]}
            BY <2>5 DEF Sort
        <3>2. OldestOf(listed[w]) \in SUBSET FoundNames
            <4> DEFINE kept == Picked(recent, listed[w])
            <4>1. kept \in Seq((Keys \cup Runs \cup 1 .. kills) \cap listed[w])
                BY <1>1, PickedMembers
            <4>2. listed[w] \in SUBSET FoundNames
                BY DEF Found
            <4>3. \A i \in DOMAIN kept : kept[i] \in FoundNames
                BY <4>1, <4>2
            <4>4. Keep \in Nat /\ DOMAIN kept = 1 .. Len(kept) /\ Len(kept) \in Nat
                BY <1>1, <4>1, NamesShape
            <4>5. OldestOf(listed[w]) = {kept[i] : i \in 1 .. Len(kept) - Keep}
                BY DEF OldestOf
            <4> HIDE DEF kept
            <4>6. QED
                BY <4>3, <4>4, <4>5
        <3>3. QED
            BY <1>3, <3>1, <3>2 DEF Found
    <2>6. CASE Unlink(w)
        <3>1. PICK old : listed' = [listed EXCEPT ![w] = listed[w] \ {old}]
            BY <2>6 DEF Unlink
        <3>2. UNCHANGED <<site, kills>>
            BY <2>6 DEF Unlink
        <3>3. QED
            BY <1>3, <3>1, <3>2 DEF Found
    <2>7. CASE Kill(w)
        <3>1. /\ kills' = kills + 1 /\ kills < MaxKills /\ UNCHANGED site
              /\ listed' = [r \in Runs |-> IF r = w THEN {} ELSE RenamedIn(listed[r], w, kills')]
            BY <2>7 DEF Kill
        <3>2. kills' \in 0 .. MaxKills /\ kills' \in FoundNames
            BY <1>1, <1>2, <3>1 DEF FoundNames, Names
        <3>3. listed' \in [Runs -> SUBSET FoundNames]
            BY <2>2, <3>1, <3>2
        <3>4. QED
            BY <1>3, <3>1, <3>2, <3>3 DEF Found
    <2>8. QED
        BY <1>6, <2>1, <2>3, <2>4, <2>5, <2>6, <2>7 DEF Step
<1>7. QED
    BY <1>5, <1>6 DEF Next

LEMMA StepFiled ==
    ASSUME IInv, Directory, Clocked, Filed, [Next]_vars
    PROVE  Filed'
<1> DEFINE N == Keys \cup Runs \cup 1 .. kills
<1>1. Shape /\ site \in Sites /\ recent \in Seq(N) /\ kills \in Nat
    BY DEF IInv, Shape, Directory, Naming
<1>2. \A k \in Keys : k \notin Runs /\ k \notin Nat
    BY <1>1, NamesShape
<1> HIDE DEF N
<1>3. ASSUME UNCHANGED <<site, recent, file>> PROVE Filed'
    BY <1>3 DEF Filed, Keys, Present
<1>4. CASE UNCHANGED vars \/ Tick
    BY <1>3, <1>4 DEF vars, Tick
<1>5. ASSUME NEW w \in Runs, Step(w) PROVE Filed'
    <2>1. CASE \/ \E k \in Keys : Begin(w, k)
               \/ \E p \in Partitions : Ask(w, p)
               \/ Read(w) \/ List(w) \/ Sort(w)
        BY <1>3, <2>1 DEF Begin, Ask, Read, List, Sort
    <2>2. CASE Write(w)
        <3>1. recent' = Append(recent, w) /\ UNCHANGED <<site, file>>
            BY <2>2 DEF Write
        <3>2. \A k \in Keys : k \in Present' <=> k \in Present
            <4>1. /\ Len(recent) \in Nat /\ DOMAIN recent = 1 .. Len(recent)
                  /\ DOMAIN recent' = 1 .. Len(recent) + 1
                  /\ \A i \in DOMAIN recent' : recent'[i] = IF i = Len(recent) + 1 THEN w ELSE recent[i]
                BY <1>1, <3>1
            <4>2. ASSUME NEW k \in Keys, k \in Present' PROVE k \in Present
                BY <1>2, <4>1, <4>2 DEF Present, Range
            <4>3. ASSUME NEW k \in Keys, k \in Present PROVE k \in Present'
                <5>1. PICK i \in DOMAIN recent : recent[i] = k
                    BY <4>3 DEF Present, Range
                <5>2. i \in DOMAIN recent' /\ recent'[i] = k
                    BY <4>1, <5>1
                <5>3. QED
                    BY <5>2 DEF Present, Range
            <4>4. QED
                BY <4>2, <4>3
        <3>3. QED
            BY <3>1, <3>2 DEF Filed, Keys
    <2>3. CASE Replace(w)
        <3> DEFINE q == run[w].key
                   others == Without(recent, q)
        <3>1. /\ recent' = [i \in DOMAIN others |-> Renamed(others[i], w, q)]
              /\ file' = [file EXCEPT ![q] = run[w].draft] /\ w \in Present
              /\ run[w].pc = "written" /\ UNCHANGED site
            BY <2>3 DEF Replace
        <3>2. q \in Keys /\ run[w].draft # Missing /\ q # w
            BY <1>1, <1>2, <3>1 DEF Shape, Clocked
        <3>3. Range(others) = Present \ {q}
            BY <1>1, WithoutMember DEF Present
        <3> HIDE DEF others, q
        <3>4. \A x : x \in Present' <=> (x \in Range(others) /\ x # w) \/ (x = q /\ w \in Range(others))
            BY <3>1, RenamedMembers DEF Present
        <3>5. \A k \in Keys : k \in Present' <=> k = q \/ k \in Present
            BY <1>2, <3>1, <3>2, <3>3, <3>4
        <3>6. \A k \in Keys : file'[k] = IF k = q THEN run[w].draft ELSE file[k]
            BY <1>1, <3>1 DEF Shape
        <3>7. QED
            BY <3>1, <3>2, <3>5, <3>6 DEF Filed, Keys
    <2>4. CASE Fail(w)
        <3>1. recent' = Without(recent, w) /\ UNCHANGED <<site, file>>
            BY <2>4 DEF Fail
        <3>2. Present' = Present \ {w}
            BY <1>1, <3>1, WithoutMember DEF Present
        <3>3. QED
            BY <1>2, <3>1, <3>2 DEF Filed, Keys
    <2>5. CASE Unlink(w)
        <3>1. PICK old : /\ recent' = Without(recent, old)
                         /\ file' = IF old \in Keys THEN [file EXCEPT ![old] = Missing] ELSE file
            BY <2>5 DEF Unlink
        <3>2. Present' = Present \ {old}
            BY <1>1, <3>1, WithoutMember DEF Present
        <3>3. \A k \in Keys : file'[k] = IF k = old THEN Missing ELSE file[k]
            BY <1>1, <3>1 DEF Shape
        <3>4. UNCHANGED site
            BY <2>5 DEF Unlink
        <3>5. QED
            BY <3>2, <3>3, <3>4 DEF Filed, Keys
    <2>6. CASE Kill(w)
        <3>1. /\ recent' = [i \in DOMAIN recent |-> Renamed(recent[i], w, kills')]
              /\ kills' = kills + 1 /\ UNCHANGED <<site, file>>
            BY <2>6 DEF Kill
        <3>2. kills' \in Nat
            BY <1>1, <3>1
        <3> DEFINE q == kills'
        <3>3. recent' = [i \in DOMAIN recent |-> Renamed(recent[i], w, q)]
            BY <3>1
        <3> HIDE DEF q
        <3>4. \A x : x \in Present' <=> (x \in Present /\ x # w) \/ (x = q /\ w \in Present)
            BY <3>3, RenamedMembers DEF Present
        <3>5. q = kills'
            BY DEF q
        <3>6. QED
            BY <1>2, <3>1, <3>2, <3>4, <3>5 DEF Filed, Keys
    <2>7. QED
        BY <1>5, <2>1, <2>2, <2>3, <2>4, <2>5, <2>6 DEF Step
<1>6. QED
    BY <1>4, <1>5 DEF Next

\* Every variable keeps its type; the directory lists exactly the questions that have a
\* document, and no file twice, whatever the runs and the kills do to it between them.
THEOREM TypeCorrect == Spec => []TypeOK
<1>1. IInv /\ Abreast /\ Directory /\ Typed => TypeOK
    <2> SUFFICES ASSUME IInv, Abreast, Directory, Typed PROVE TypeOK
        OBVIOUS
    <2>1. recent \in Seq(Names)
        <3>1. MaxKills \in Nat /\ kills \in 0 .. MaxKills
            BY BoundsShape DEF IInv, Shape, Typed, Found
        <3>2. Keys \cup Runs \cup 1 .. kills \in SUBSET Names
            BY <3>1 DEF Names
        <3>3. recent \in Seq(Keys \cup Runs \cup 1 .. kills)
            BY DEF Directory, Naming
        <3>4. QED
            BY <3>2, <3>3
    <2>2. run \in [Runs -> [pc : {"idle", "asking", "read", "written", "saved", "listed", "pruning"},
                            key : Keys \cup {0}, got : [Partitions -> Verdict \cup {"none"}],
                            when : [Partitions -> Clock], draft : Document]]
        BY DEF IInv, Shape, Typed, Clocked
    <2>3. Present \cap Keys = {k \in Keys : file[k] # Missing}
        BY DEF Typed, Filed
    <2>4. QED
        BY <2>1, <2>2, <2>3 DEF TypeOK, IInv, Shape, Abreast, Directory, Naming, Typed, Clocked, Found, FoundNames
<1>2. IInv /\ Directory /\ Typed /\ [Next]_vars => Typed'
    BY StepClocked, StepFound, StepFiled DEF Typed
<1>3. QED
    BY <1>1, <1>2, StartsTyped, DirectoryStands, AbreastStands, PTL DEF Spec
=============================================================================
