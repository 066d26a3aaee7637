--------------------------- MODULE JobView_proofs ---------------------------
(***************************************************************************)
(* "At most one extra query in flight": for any number of daemon threads,  *)
(* snapshots and jobs, however the reader steps in and out, the two lists  *)
(* of a snapshot are asked for one after the other.                        *)
(***************************************************************************)
EXTENDS JobView, FiniteSetTheorems, TLAPS

Outcomes == {"read", "lost"}

Shape ==
    /\ current \in Snapshots
    /\ list \in [Snapshots -> [Lists -> {"unread"} \cup Outcomes]]
    /\ lock \in [Snapshots -> [Lists -> Threads \cup {Free}]]
    /\ wants \in [Threads -> SUBSET Lists] /\ of \in [Threads -> Snapshots]

\* Whoever holds a lock is after that list, which has not been read.
Holding ==
    \A t \in Threads, s \in Snapshots, l \in Lists :
        lock[s][l] = t =>
            of[t] = s /\ l \in wants[t] /\ NextList(t) = l /\ list[s][l] = "unread"

\* Whoever is after the second list alone has had the first.
Ordered ==
    \A t \in Threads :
        wants[t] = {"allocations"} => list[of[t]]["jobs"] # "unread"

IInv == Shape /\ Holding /\ Ordered

-----------------------------------------------------------------------------
\* What is wanted next is wanted.
LEMMA NextIsWanted ==
    ASSUME Shape, NEW t \in Threads, ~Idle(t)
    PROVE  NextList(t) \in wants[t] /\ NextList(t) \in Lists /\ of[t] \in Snapshots
BY DEF Shape, Idle, NextList, Lists

\* Once a thread has the list it was after, it is after the other one or none.
LEMMA WithoutShape ==
    ASSUME Shape, NEW t \in Threads, ~Idle(t), NEW outcome, NEW instant
    PROVE  Without(t, NextList(t), outcome, instant) \in {{}, wants[t] \ {NextList(t)}}
BY Zenon DEF Without

\* A thread that is idle holds no lock.
LEMMA IdleHoldsNone ==
    ASSUME IInv, NEW t \in Threads, Idle(t), NEW s \in Snapshots, NEW l \in Lists
    PROVE  lock[s][l] # t
BY DEF IInv, Holding, Idle

LEMMA InitInvariant == Init => IInv
<1> SUFFICES ASSUME Init PROVE IInv
    OBVIOUS
<1>1. 1 \in Snapshots /\ Free \notin Threads
    BY JobViewAssumption DEF Snapshots, Threads
<1>2. Shape
    BY <1>1 DEF Init, Shape
<1>3. Holding /\ Ordered
    BY <1>1 DEF Init, Holding, Ordered
<1>4. QED
    BY <1>2, <1>3 DEF IInv

\* Locks and lists as they were, and nobody after anything new.
LEMMA SameInvariant ==
    ASSUME IInv, UNCHANGED <<list, lock, wants, of>>, current' \in Snapshots
    PROVE  IInv'
BY DEF IInv, Shape, Holding, Ordered, NextList

\* A thread that is idle is given both lists to get, or the first, or none.
LEMMA StartInvariant ==
    ASSUME IInv, NEW s \in Snapshots, NEW lists, Start(s, lists),
           \A t \in Threads \cap DOMAIN lists : Idle(t) /\ lists[t] \in {{}, {"jobs"}, Lists},
           UNCHANGED <<list, lock>>, current' \in Snapshots
    PROVE  IInv'
<1>1. /\ wants' = [t \in Threads |-> IF t \in DOMAIN lists THEN lists[t] ELSE wants[t]]
      /\ of' = [t \in Threads |-> IF t \in DOMAIN lists THEN s ELSE of[t]]
    BY DEF Start
<1>2. Shape'
    <2>1. \A t \in Threads : wants'[t] \in SUBSET Lists /\ of'[t] \in Snapshots
        BY <1>1 DEF IInv, Shape, Lists
    <2>2. QED
        BY <1>1, <2>1 DEF IInv, Shape
<1>3. Holding'
    <2> SUFFICES ASSUME NEW t \in Threads, NEW r \in Snapshots, NEW l \in Lists, lock[r][l] = t
                 PROVE  of'[t] = r /\ l \in wants'[t] /\ NextList(t)' = l /\ list[r][l] = "unread"
        BY DEF Holding
    <2>1. t \notin DOMAIN lists
        BY IdleHoldsNone
    <2>2. wants'[t] = wants[t] /\ of'[t] = of[t] /\ NextList(t)' = NextList(t)
        BY <1>1, <2>1 DEF NextList
    <2>3. QED
        BY <2>2 DEF IInv, Holding
<1>4. Ordered'
    BY <1>1 DEF IInv, Ordered, Lists
<1>5. QED
    BY <1>2, <1>3, <1>4 DEF IInv

\* Into a listing.
LEMMA ListInvariant ==
    ASSUME IInv, NEW s \in Snapshots, List(s), Idle(Reader),
           UNCHANGED <<list, lock>>, current' \in Snapshots
    PROVE  IInv'
<1>1. PICK listed \in SUBSET {"jobs"} :
          \/ Start(s, [t \in {Reader} |-> listed])
          \/ \E w \in Warmers :
                Idle(w) /\ Start(s, [t \in {w, Reader} |-> IF t = w THEN Lists ELSE listed])
    BY DEF List
<1>2. listed \in {{}, {"jobs"}}
    OBVIOUS
<1>3. CASE Start(s, [t \in {Reader} |-> listed])
    BY <1>2, <1>3, StartInvariant
<1>4. ASSUME NEW w \in Warmers, Idle(w),
             Start(s, [t \in {w, Reader} |-> IF t = w THEN Lists ELSE listed])
      PROVE  IInv'
    BY <1>2, <1>4, StartInvariant
<1>5. QED
    BY <1>1, <1>3, <1>4

-----------------------------------------------------------------------------
\* A lock that is free is taken, of a list that has not been read.
LEMMA EnterInvariant ==
    ASSUME IInv, NEW t \in Threads, Enter(t)
    PROVE  IInv'
<1> DEFINE s == of[t]
           l == NextList(t)
<1>1. l \in wants[t] /\ l \in Lists /\ s \in Snapshots
    BY NextIsWanted DEF IInv, Enter
<1>2. /\ list[s][l] = "unread" /\ lock' = [lock EXCEPT ![s][l] = t]
      /\ UNCHANGED <<current, list, wants, of>>
    BY DEF Enter
<1>3. Shape' /\ Ordered'
    BY <1>1, <1>2 DEF IInv, Shape, Ordered
<1>4. Holding'
    <2> SUFFICES ASSUME NEW u \in Threads, NEW r \in Snapshots, NEW k \in Lists, lock'[r][k] = u
                 PROVE  of[u] = r /\ k \in wants[u] /\ NextList(u) = k /\ list[r][k] = "unread"
        BY <1>2 DEF Holding, NextList
    <2>1. CASE r = s /\ k = l
        BY <1>1, <1>2, <2>1 DEF IInv, Shape
    <2>2. CASE ~(r = s /\ k = l)
        <3>1. lock[r][k] = u
            BY <1>1, <1>2, <2>2 DEF IInv, Shape
        <3>2. QED
            BY <3>1 DEF IInv, Holding
    <2>3. QED
        BY <2>1, <2>2
<1>5. QED
    BY <1>3, <1>4 DEF IInv

\* A thread goes on to the next list, or gives up, when the one it was after has
\* been read and it holds no lock.
LEMMA WantsInvariant ==
    ASSUME IInv, NEW t \in Threads, ~Idle(t), NEW rest \in {{}, wants[t] \ {NextList(t)}},
           wants' = [wants EXCEPT ![t] = rest],
           \A s \in Snapshots, l \in Lists : lock'[s][l] # Free => lock'[s][l] = lock[s][l] /\ lock[s][l] # t,
           \A s \in Snapshots, l \in Lists :
              list'[s][l] # list[s][l] => list'[s][l] # "unread" /\ lock'[s][l] = Free,
           list'[of[t]][NextList(t)] # "unread", Shape', UNCHANGED of,
           Free \notin Threads
    PROVE  IInv'
<1>1. Holding'
    <2> SUFFICES ASSUME NEW u \in Threads, NEW r \in Snapshots, NEW k \in Lists, lock'[r][k] = u
                 PROVE  of'[u] = r /\ k \in wants'[u] /\ NextList(u)' = k /\ list'[r][k] = "unread"
        BY DEF Holding
    <2>1. lock[r][k] = u /\ u # t
        OBVIOUS
    <2>2. wants'[u] = wants[u] /\ NextList(u)' = NextList(u)
        BY <2>1 DEF IInv, Shape, NextList
    <2>3. list'[r][k] = list[r][k]
        OBVIOUS
    <2>4. QED
        BY <2>1, <2>2, <2>3 DEF IInv, Holding
<1>2. Ordered'
    <2> SUFFICES ASSUME NEW u \in Threads, wants'[u] = {"allocations"}
                 PROVE  list'[of[u]]["jobs"] # "unread"
        BY DEF Ordered
    <2>1. CASE u = t
        <3>1. NextList(t) = "jobs"
            BY <2>1 DEF IInv, Shape, NextList, Lists
        <3>2. QED
            BY <2>1, <3>1
    <2>2. CASE u # t
        <3>1. list[of[u]]["jobs"] # "unread" /\ of[u] \in Snapshots
            BY <2>2 DEF IInv, Shape, Ordered
        <3>2. QED
            BY <3>1 DEF Lists
    <2>3. QED
        BY <2>1, <2>2
<1>3. QED
    BY <1>1, <1>2 DEF IInv

LEMMA TakeInvariant ==
    ASSUME IInv, NEW t \in Threads, Take(t)
    PROVE  IInv'
<1> DEFINE rest == Without(t, NextList(t), list[of[t]][NextList(t)], asOf[of[t]][NextList(t)])
<1>1. /\ ~Idle(t) /\ lock[of[t]][NextList(t)] = Free /\ list[of[t]][NextList(t)] # "unread"
      /\ wants' = [wants EXCEPT ![t] = rest] /\ UNCHANGED <<current, list, lock, of>>
    BY DEF Take
<1>2. rest \in {{}, wants[t] \ {NextList(t)}} /\ Free \notin Threads
    BY <1>1, WithoutShape, JobViewAssumption DEF IInv, Threads
<1>3. Shape'
    <2>1. rest \in SUBSET Lists
        BY <1>2 DEF IInv, Shape
    <2>2. QED
        BY <1>1, <2>1 DEF IInv, Shape
<1>4. \A s \in Snapshots, l \in Lists : lock[s][l] # t
    BY <1>1 DEF IInv, Holding
<1>5. QED
    BY <1>1, <1>2, <1>3, <1>4, WantsInvariant

LEMMA AnswerInvariant ==
    ASSUME IInv, NEW t \in Threads, Answer(t)
    PROVE  IInv'
<1> DEFINE s == of[t]
           l == NextList(t)
<1>1. PICK outcome \in Outcomes :
          /\ list' = [list EXCEPT ![s][l] = outcome] /\ lock' = [lock EXCEPT ![s][l] = Free]
          /\ wants' = [wants EXCEPT ![t] = Without(t, l, outcome, now)]
    BY DEF Answer, Keeps, Unlock, Outcomes
<1>2. ~Idle(t) /\ lock[s][l] = t /\ UNCHANGED <<current, of>>
    BY DEF Answer, Asking, Idle
<1>3. Without(t, l, outcome, now) \in {{}, wants[t] \ {l}} /\ Free \notin Threads
    BY <1>2, WithoutShape, JobViewAssumption DEF IInv, Threads
<1>4. l \in Lists /\ s \in Snapshots
    BY <1>2, NextIsWanted DEF IInv
<1>5. Shape'
    <2>1. Without(t, l, outcome, now) \in SUBSET Lists
        BY <1>3 DEF IInv, Shape
    <2>2. QED
        BY <1>1, <1>2, <1>4, <2>1 DEF IInv, Shape
<1>6. ASSUME NEW r \in Snapshots, NEW k \in Lists
      PROVE  /\ lock'[r][k] # Free => lock'[r][k] = lock[r][k] /\ lock[r][k] # t
             /\ list'[r][k] # list[r][k] => list'[r][k] # "unread" /\ lock'[r][k] = Free
    <2>1. CASE r = s /\ k = l
        BY <1>1, <1>4, <2>1 DEF IInv, Shape, Outcomes
    <2>2. CASE ~(r = s /\ k = l)
        BY <1>1, <1>4, <2>2 DEF IInv, Shape, Holding
    <2>3. QED
        BY <2>1, <2>2
<1>7. list'[s][l] # "unread"
    BY <1>1, <1>4 DEF IInv, Shape, Outcomes
<1>8. PICK rest \in {{}, wants[t] \ {NextList(t)}} : wants' = [wants EXCEPT ![t] = rest]
    BY <1>1, <1>3
<1>9. list'[of[t]][NextList(t)] # "unread"
    BY <1>7
<1>10. \A r \in Snapshots, k \in Lists : lock'[r][k] # Free => lock'[r][k] = lock[r][k] /\ lock[r][k] # t
    BY <1>6
<1>11. \A r \in Snapshots, k \in Lists :
          list'[r][k] # list[r][k] => list'[r][k] # "unread" /\ lock'[r][k] = Free
    BY <1>6
<1>12. ~Idle(t) /\ UNCHANGED of /\ Free \notin Threads
    BY <1>2, <1>3
<1> HIDE DEF s, l
<1>13. QED
    BY <1>5, <1>8, <1>9, <1>10, <1>11, <1>12, WantsInvariant

-----------------------------------------------------------------------------
LEMMA StepInvariant ==
    ASSUME IInv, [Next]_vars
    PROVE  IInv'
<1>1. CASE OpenNodes
    BY <1>1, ListInvariant DEF OpenNodes, Reading, IInv, Shape
<1>2. CASE OpenJobs
    <2>1. /\ Start(current, [t \in {Reader} |-> Lists]) /\ Idle(Reader)
          /\ current \in Snapshots /\ UNCHANGED <<current, list, lock>>
        BY <1>2 DEF OpenJobs, Reading, IInv, Shape
    <2>2. QED
        BY <2>1, StartInvariant
<1>3. CASE LeaveNodes \/ Move \/ Gone \/ UNCHANGED vars
    <2>1. UNCHANGED <<current, list, lock, wants, of>>
        BY <1>3 DEF LeaveNodes, Move, Gone, vars
    <2>2. QED
        BY <2>1, SameInvariant DEF IInv, Shape
<1>4. CASE Reload
    <2>1. /\ current + 1 \in Snapshots /\ current' \in Snapshots
          /\ Idle(Reader) /\ UNCHANGED <<list, lock>>
        BY <1>4, JobViewAssumption DEF Reload, Reading, IInv, Shape, Snapshots
    <2>2. CASE UNCHANGED <<wants, of>>
        BY <2>1, <2>2, SameInvariant
    <2>3. CASE List(current + 1)
        BY <2>1, <2>3, ListInvariant
    <2>4. CASE Start(current + 1, [t \in {Reader} |-> Lists])
        BY <2>1, <2>4, StartInvariant
    <2>5. QED
        BY <1>4, <2>2, <2>3, <2>4 DEF Reload
<1>5. CASE Quit
    <2>1. /\ wants' = [t \in Threads |-> {}] /\ lock' = [s \in Snapshots |-> [l \in Lists |-> Free]]
          /\ UNCHANGED <<current, list, of>>
        BY <1>5 DEF Quit
    <2>2. Free \notin Threads
        BY JobViewAssumption DEF Threads
    <2>3. Shape'
        BY <2>1 DEF IInv, Shape
    <2>4. Holding' /\ Ordered'
        BY <2>1, <2>2 DEF Holding, Ordered
    <2>5. QED
        BY <2>3, <2>4 DEF IInv
<1>6. ASSUME NEW t \in Threads, Gets(t) PROVE IInv'
    BY <1>6, EnterInvariant, TakeInvariant, AnswerInvariant DEF Gets
<1>7. QED
    BY <1>1, <1>2, <1>3, <1>4, <1>5, <1>6 DEF Next

\* The two lists of a snapshot are asked for one after the other: whoever asks for
\* the second knows the first.
THEOREM OneQueryInFlight == Spec => []OneInFlightEach
<1>1. IInv => OneInFlightEach
    <2> SUFFICES ASSUME IInv, NEW s \in Snapshots
                 PROVE  Cardinality({q \in InFlight : q[1] = s}) <= 1
        BY DEF OneInFlightEach
    <2>1. ~(lock[s]["jobs"] # Free /\ lock[s]["allocations"] # Free)
        <3> SUFFICES ASSUME lock[s]["jobs"] # Free, lock[s]["allocations"] # Free PROVE FALSE
            OBVIOUS
        <3> DEFINE t == lock[s]["jobs"]
                   u == lock[s]["allocations"]
        <3>1. t \in Threads /\ u \in Threads
            BY DEF IInv, Shape, Lists
        <3>2. list[s]["jobs"] = "unread"
            BY <3>1 DEF IInv, Holding, Lists
        <3>3. of[u] = s /\ "allocations" \in wants[u] /\ NextList(u) = "allocations"
            BY <3>1 DEF IInv, Holding, Lists
        <3>4. wants[u] = {"allocations"}
            BY <3>1, <3>3 DEF IInv, Shape, NextList, Lists
        <3>5. QED
            BY <3>1, <3>2, <3>3, <3>4 DEF IInv, Ordered
    <2>2. PICK l \in Lists : {q \in InFlight : q[1] = s} \subseteq {<<s, l>>}
        BY <2>1 DEF InFlight, Lists
    <2>3. IsFiniteSet({<<s, l>>}) /\ Cardinality({<<s, l>>}) = 1
        BY FS_Singleton
    <2>4. Cardinality({q \in InFlight : q[1] = s}) <= Cardinality({<<s, l>>})
        BY <2>2, <2>3, FS_Subset
    <2>5. QED
        BY <2>3, <2>4
<1>2. IInv /\ [Next]_vars => IInv'
    BY StepInvariant
<1>3. QED
    BY <1>1, <1>2, InitInvariant, PTL DEF Spec

-----------------------------------------------------------------------------
(* What a frame shows.                                                     *)

\* The shares of a snapshot are never of an earlier instant than its jobs.
Stamped ==
    /\ view \in {"queues", "nodes", "jobs", "gone"}
    /\ node \in Nodes /\ now \in DOMAIN History /\ asOf \in [Snapshots -> [Lists -> 1 .. now]]
    /\ \A s \in Snapshots :
          list[s]["allocations"] # "unread" =>
              list[s]["jobs"] # "unread" /\ asOf[s]["jobs"] <= asOf[s]["allocations"]

NoneThere == JobsOn(JobsRead(list[current]["jobs"], asOf[current]["jobs"]), node) = {}

\* The reader of a job frame is after the lists of the snapshot they look at, and is
\* after neither when both were had, or when there is no job to have a share.
Framed ==
    view = "jobs" =>
        /\ of[Reader] = current /\ wants[Reader] \in {Lists, {"allocations"}, {}}
        /\ wants[Reader] # Lists => list[current]["jobs"] # "unread"
        /\ wants[Reader] = {} => list[current]["allocations"] # "unread" \/ NoneThere

FInv == IInv /\ Stamped /\ Framed

\* Instants are counted from one.
LEMMA Instants == DOMAIN History = 1 .. Len(History) /\ Len(History) \in Nat \ {0}
<1>1. History \in Seq(Range(History)) /\ Len(History) > 0
    BY JobViewAssumption
<1>2. QED
    BY <1>1

LEMMA InitFrames == Init => Stamped /\ Framed
<1> SUFFICES ASSUME Init PROVE Stamped /\ Framed
    OBVIOUS
<1>1. /\ view = "queues" /\ node \in Nodes /\ now = 1
      /\ asOf = [s \in Snapshots |-> [l \in Lists |-> 1]]
      /\ list = [s \in Snapshots |-> [l \in Lists |-> "unread"]]
    BY DEF Init
<1>2. Stamped
    BY <1>1, Instants DEF Stamped, Lists
<1>3. QED
    BY <1>1, <1>2 DEF Framed

\* What has been read stays as it was.
LEMMA AnswerStamps ==
    ASSUME IInv, Stamped, NEW t \in Threads, Answer(t)
    PROVE  Stamped' /\ \A s \in Snapshots, l \in Lists :
                          list[s][l] # "unread" => list'[s][l] = list[s][l] /\ asOf'[s][l] = asOf[s][l]
<1> DEFINE s == of[t]
           l == NextList(t)
<1>1. PICK outcome \in Outcomes :
          /\ list' = [list EXCEPT ![s][l] = outcome] /\ asOf' = [asOf EXCEPT ![s][l] = now]
    BY DEF Answer, Keeps, Outcomes
<1>2. ~Idle(t) /\ lock[s][l] = t /\ UNCHANGED <<view, node, now>>
    BY DEF Answer, Asking, Idle
<1>3. l \in Lists /\ s \in Snapshots
    BY <1>2, NextIsWanted DEF IInv
<1>4. list[s][l] = "unread"
    BY <1>2, <1>3 DEF IInv, Holding
<1>5. now \in 1 .. now /\ now \in Nat
    BY Instants DEF Stamped
<1>6. asOf' \in [Snapshots -> [Lists -> 1 .. now]]
    BY <1>1, <1>3, <1>5 DEF Stamped
<1>7. ASSUME NEW r \in Snapshots, list'[r]["allocations"] # "unread"
      PROVE  list'[r]["jobs"] # "unread" /\ asOf'[r]["jobs"] <= asOf'[r]["allocations"]
    <2>1. "jobs" \in Lists /\ "allocations" \in Lists
        BY DEF Lists
    <2>2. CASE r # s
        BY <1>1, <1>3, <1>7, <2>1, <2>2 DEF IInv, Shape, Stamped
    <2>3. CASE r = s /\ l = "allocations"
        <3>1. wants[t] = {"allocations"}
            BY <1>2, <2>3 DEF IInv, Shape, NextList, Idle, Lists
        <3>2. list[s]["jobs"] # "unread"
            BY <3>1 DEF IInv, Ordered
        <3>3. list'[s]["jobs"] = list[s]["jobs"] /\ asOf'[s]["jobs"] = asOf[s]["jobs"]
            BY <1>1, <1>3, <2>1, <2>3 DEF IInv, Shape, Stamped
        <3>4. asOf'[s]["allocations"] = now
            BY <1>1, <1>3, <2>1, <2>3 DEF Stamped
        <3>5. asOf[s]["jobs"] <= now
            BY <1>3, <1>5, <2>1 DEF Stamped
        <3>6. QED
            BY <2>3, <3>2, <3>3, <3>4, <3>5
    <2>4. CASE r = s /\ l = "jobs"
        <3>1. list[s]["allocations"] = "unread"
            BY <1>3, <1>4, <2>4 DEF Stamped
        <3>2. list'[s]["allocations"] = "unread"
            BY <1>1, <1>3, <2>1, <2>4, <3>1 DEF IInv, Shape
        <3>3. QED
            BY <1>7, <2>4, <3>2
    <2>5. QED
        BY <1>3, <2>2, <2>3, <2>4 DEF Lists
<1>8. Stamped'
    BY <1>2, <1>6, <1>7 DEF Stamped
<1>9. ASSUME NEW r \in Snapshots, NEW k \in Lists, list[r][k] # "unread"
      PROVE  list'[r][k] = list[r][k] /\ asOf'[r][k] = asOf[r][k]
    BY <1>1, <1>3, <1>4, <1>9 DEF IInv, Shape, Stamped
<1>10. QED
    BY <1>8, <1>9

\* The reader goes on from the jobs to the shares, and not where there are no jobs.
LEMMA ReaderGoesOn ==
    ASSUME FInv, view = "jobs", UNCHANGED <<current, view, node, of>>, ~Idle(Reader),
           NEW outcome, NEW instant,
           wants' = [wants EXCEPT ![Reader] = Without(Reader, NextList(Reader), outcome, instant)],
           list'[current][NextList(Reader)] = outcome, asOf'[current][NextList(Reader)] = instant,
           \A l \in Lists : list[current][l] # "unread" => list'[current][l] = list[current][l],
           outcome # "unread"
    PROVE  Framed'
<1>1. /\ of[Reader] = current /\ wants[Reader] \in {Lists, {"allocations"}}
      /\ wants[Reader] # Lists => list[current]["jobs"] # "unread"
    BY DEF FInv, Framed, Idle
<1>2. wants'[Reader] = Without(Reader, NextList(Reader), outcome, instant)
    BY DEF FInv, IInv, Shape, Threads
<1>3. CASE wants[Reader] = Lists
    <2>1. NextList(Reader) = "jobs"
        BY <1>3 DEF NextList, Lists
    <2>2. list'[current]["jobs"] = outcome /\ asOf'[current]["jobs"] = instant
        BY <2>1
    <2>3. CASE JobsOn(JobsRead(outcome, instant), node) = {}
        <3>1. wants'[Reader] = {}
            BY <1>2, <2>1, <2>3 DEF Without
        <3>2. NoneThere'
            BY <2>2, <2>3 DEF NoneThere
        <3>3. QED
            BY <1>1, <2>2, <3>1, <3>2 DEF Framed
    <2>4. CASE JobsOn(JobsRead(outcome, instant), node) # {}
        <3>1. wants'[Reader] = {"allocations"}
            BY <1>2, <1>3, <2>1, <2>4 DEF Without, Lists
        <3>2. QED
            BY <1>1, <2>2, <3>1 DEF Framed
    <2>5. QED
        BY <2>3, <2>4
<1>4. CASE wants[Reader] = {"allocations"}
    <2>1. NextList(Reader) = "allocations"
        BY <1>4 DEF NextList
    <2>2. wants'[Reader] = {}
        BY <1>2, <1>4, <2>1 DEF Without
    <2>3. list'[current]["jobs"] # "unread" /\ list'[current]["allocations"] # "unread"
        BY <1>1, <1>4, <2>1 DEF Lists
    <2>4. QED
        BY <1>1, <2>2, <2>3 DEF Framed
<1>5. QED
    BY <1>1, <1>3, <1>4

\* A frame as it was, while others read.
LEMMA FrameStays ==
    ASSUME FInv, UNCHANGED <<current, view, node>>,
           view = "jobs" => wants'[Reader] = wants[Reader] /\ of'[Reader] = of[Reader],
           \A l \in Lists :
              list[current][l] # "unread" => list'[current][l] = list[current][l] /\ asOf'[current][l] = asOf[current][l]
    PROVE  Framed'
<1> SUFFICES ASSUME view = "jobs"
             PROVE  /\ of[Reader] = current /\ wants[Reader] \in {Lists, {"allocations"}, {}}
                    /\ wants[Reader] # Lists => list'[current]["jobs"] # "unread"
                    /\ wants[Reader] = {} => list'[current]["allocations"] # "unread" \/ NoneThere'
    BY DEF Framed
<1>1. /\ of[Reader] = current /\ wants[Reader] \in {Lists, {"allocations"}, {}}
      /\ wants[Reader] # Lists => list[current]["jobs"] # "unread"
      /\ wants[Reader] = {} => list[current]["allocations"] # "unread" \/ NoneThere
    BY DEF FInv, Framed
<1>2. list[current]["jobs"] # "unread" =>
          list'[current]["jobs"] = list[current]["jobs"] /\ asOf'[current]["jobs"] = asOf[current]["jobs"]
    BY DEF Lists
<1>3. list[current]["allocations"] # "unread" => list'[current]["allocations"] # "unread"
    BY DEF Lists
<1>4. wants[Reader] = {} => Lists # {} /\ wants[Reader] # Lists
    BY DEF Lists
<1>5. wants[Reader] = {} /\ NoneThere => NoneThere'
    BY <1>1, <1>2, <1>4 DEF NoneThere
<1>6. QED
    BY <1>1, <1>2, <1>3, <1>5

LEMMA GetsFrames ==
    ASSUME FInv, NEW t \in Threads, Gets(t)
    PROVE  Stamped' /\ Framed'
<1>1. UNCHANGED <<current, view, node, now, of>> /\ current \in Snapshots
    BY DEF Gets, Enter, Take, Answer, FInv, IInv, Shape
<1>2. CASE Enter(t)
    <2>1. UNCHANGED <<list, asOf, wants>>
        BY <1>2 DEF Enter
    <2>2. Stamped'
        BY <1>1, <2>1 DEF FInv, Stamped
    <2>3. QED
        BY <1>1, <2>1, <2>2, FrameStays
<1>3. CASE Take(t)
    <2>1. /\ ~Idle(t) /\ UNCHANGED <<list, asOf>> /\ list[of[t]][NextList(t)] # "unread"
          /\ wants' = [wants EXCEPT ![t] = Without(t, NextList(t), list[of[t]][NextList(t)], asOf[of[t]][NextList(t)])]
        BY <1>3 DEF Take
    <2>2. Stamped'
        BY <1>1, <2>1 DEF FInv, Stamped
    <2>3. CASE t = Reader /\ view = "jobs"
        <3>1. of[Reader] = current
            BY <2>3 DEF FInv, Framed
        <3>2. QED
            BY <1>1, <2>1, <2>2, <2>3, <3>1, ReaderGoesOn
    <2>4. CASE ~(t = Reader /\ view = "jobs")
        <3>1. view = "jobs" => wants'[Reader] = wants[Reader]
            BY <2>1, <2>4 DEF FInv, IInv, Shape, Threads
        <3>2. QED
            BY <1>1, <2>1, <2>2, <3>1, FrameStays
    <2>5. QED
        BY <2>3, <2>4
<1>4. CASE Answer(t)
    <2>1. PICK outcome \in Outcomes :
              /\ list' = [list EXCEPT ![of[t]][NextList(t)] = outcome]
              /\ asOf' = [asOf EXCEPT ![of[t]][NextList(t)] = now]
              /\ wants' = [wants EXCEPT ![t] = Without(t, NextList(t), outcome, now)]
        BY <1>4 DEF Answer, Keeps, Outcomes
    <2>2. ~Idle(t)
        BY <1>4 DEF Answer, Asking, Idle
    <2>3. /\ Stamped'
          /\ \A s \in Snapshots, l \in Lists :
                list[s][l] # "unread" => list'[s][l] = list[s][l] /\ asOf'[s][l] = asOf[s][l]
        BY <1>4, AnswerStamps DEF FInv
    <2>4. CASE t = Reader /\ view = "jobs"
        <3>1. of[Reader] = current
            BY <2>4 DEF FInv, Framed
        <3>2. NextList(Reader) \in Lists
            BY <2>2, <2>4, NextIsWanted DEF FInv, IInv
        <3>3. list'[current][NextList(Reader)] = outcome /\ asOf'[current][NextList(Reader)] = now
            BY <1>1, <2>1, <2>4, <3>1, <3>2 DEF FInv, IInv, Shape, Stamped
        <3>4. outcome # "unread"
            BY DEF Outcomes
        <3>5. \A l \in Lists : list[current][l] # "unread" => list'[current][l] = list[current][l]
            BY <1>1, <2>3
        <3>6. Framed'
            BY <1>1, <2>1, <2>2, <2>4, <3>3, <3>4, <3>5, ReaderGoesOn
        <3>7. QED
            BY <2>3, <3>6
    <2>5. CASE ~(t = Reader /\ view = "jobs")
        <3>1. view = "jobs" => wants'[Reader] = wants[Reader]
            BY <2>1, <2>5 DEF FInv, IInv, Shape, Threads
        <3>2. Framed'
            BY <1>1, <2>3, <3>1, FrameStays
        <3>3. QED
            BY <2>3, <3>2
    <2>6. QED
        BY <2>4, <2>5
<1>5. QED
    BY <1>2, <1>3, <1>4 DEF Gets

\* A frame that is opened wants both lists.
LEMMA FrameOpens ==
    ASSUME FInv, current' \in Snapshots, Start(current', [t \in {Reader} |-> Lists])
    PROVE  Framed'
<1>1. Reader \in Threads /\ Lists # {}
    BY DEF Threads, Lists
<1>2. wants'[Reader] = Lists /\ of'[Reader] = current'
    BY <1>1 DEF Start
<1>3. QED
    BY <1>1, <1>2 DEF Framed

LEMMA StepFrames ==
    ASSUME FInv, [Next]_vars
    PROVE  Stamped' /\ Framed'
<1>1. CASE OpenNodes
    <2>1. view' = "nodes" /\ UNCHANGED <<current, node, now, list, asOf>>
        BY <1>1 DEF OpenNodes
    <2>2. QED
        BY <2>1 DEF FInv, Stamped, Framed
<1>2. CASE OpenJobs
    <2>1. /\ view' = "jobs" /\ node' \in Nodes /\ UNCHANGED <<current, now, list, asOf>>
          /\ Start(current', [t \in {Reader} |-> Lists]) /\ current' \in Snapshots
        BY <1>2 DEF OpenJobs, FInv, IInv, Shape
    <2>2. Stamped'
        BY <2>1 DEF FInv, Stamped
    <2>3. QED
        BY <2>1, <2>2, FrameOpens
<1>3. CASE LeaveNodes
    <2>1. view' = "queues" /\ UNCHANGED <<current, node, now, list, asOf>>
        BY <1>3 DEF LeaveNodes
    <2>2. QED
        BY <2>1 DEF FInv, Stamped, Framed
<1>4. CASE Reload
    <2>1. /\ UNCHANGED <<view, node, now, list, asOf>> /\ current' = current + 1
          /\ current' \in Snapshots
        BY <1>4, JobViewAssumption DEF Reload, FInv, IInv, Shape, Snapshots
    <2>2. Stamped'
        BY <2>1 DEF FInv, Stamped
    <2>3. CASE view = "jobs"
        <3>1. Start(current', [t \in {Reader} |-> Lists])
            BY <1>4, <2>1, <2>3 DEF Reload
        <3>2. QED
            BY <2>1, <2>2, <3>1, FrameOpens
    <2>4. CASE view # "jobs"
        BY <2>1, <2>2, <2>4 DEF Framed
    <2>5. QED
        BY <2>3, <2>4
<1>5. CASE Move
    <2>1. now < Len(History) /\ now' = now + 1 /\ UNCHANGED <<current, view, node, list, asOf, wants, of>>
        BY <1>5 DEF Move
    <2>2. now' \in DOMAIN History /\ 1 .. now \subseteq 1 .. now'
        BY <2>1, Instants DEF FInv, Stamped
    <2>3. asOf' \in [Snapshots -> [Lists -> 1 .. now']]
        BY <2>1, <2>2 DEF FInv, Stamped
    <2>4. Stamped'
        BY <2>1, <2>2, <2>3 DEF FInv, Stamped
    <2>5. QED
        BY <2>1, <2>4, FrameStays
<1>6. CASE Quit
    <2>1. view' = "gone" /\ UNCHANGED <<current, node, now, list, asOf>>
        BY <1>6 DEF Quit
    <2>2. QED
        BY <2>1 DEF FInv, Stamped, Framed
<1>7. CASE Gone \/ UNCHANGED vars
    <2>1. UNCHANGED vars
        BY <1>7 DEF Gone
    <2>2. Stamped'
        BY <2>1 DEF vars, FInv, Stamped
    <2>3. QED
        BY <2>1, <2>2, FrameStays DEF vars
<1>8. ASSUME NEW t \in Threads, Gets(t) PROVE Stamped' /\ Framed'
    BY <1>8, GetsFrames
<1>9. QED
    BY <1>1, <1>2, <1>3, <1>4, <1>5, <1>6, <1>7, <1>8 DEF Next

LEMMA FramesInvariant == Spec => []FInv
<1>1. Init => FInv
    BY InitInvariant, InitFrames DEF FInv
<1>2. FInv /\ [Next]_vars => FInv'
    BY StepInvariant, StepFrames DEF FInv
<1>3. QED
    BY <1>1, <1>2, PTL DEF Spec

\* Every variable keeps its type, a list is of an instant that has been, and the lock of
\* a list is held by a thread that is after it.
THEOREM TypeCorrect == Spec => []TypeOK
<1>1. FInv => TypeOK
    <2> SUFFICES ASSUME FInv PROVE TypeOK
        OBVIOUS
    <2>1. ASSUME NEW s \in Snapshots, NEW l \in Lists, lock[s][l] # Free
          PROVE  l \in wants[lock[s][l]] /\ of[lock[s][l]] = s
        <3>1. lock[s][l] \in Threads
            BY <2>1 DEF FInv, IInv, Shape
        <3>2. QED
            BY <3>1 DEF FInv, IInv, Holding
    <2>2. QED
        BY <2>1 DEF TypeOK, FInv, IInv, Shape, Stamped, Outcomes
<1>2. QED
    BY <1>1, FramesInvariant, PTL

\* A frame on the screen tells the truth, whoever read its lists, in whatever order the
\* threads ran, across reloads and failures, if the lists do when put side by side.
THEOREM FramesTellTheTruth == ASSUME ListsAreTrue PROVE Spec => []SharesAreTrue
<1>1. FInv => SharesAreTrue
    <2> DEFINE jobs == list[current]["jobs"]
               shares == list[current]["allocations"]
               i == asOf[current]["jobs"]
               k == asOf[current]["allocations"]
    <2> SUFFICES ASSUME FInv, view = "jobs", Idle(Reader) PROVE FrameIsTrue(node, jobs, i, shares, k)
        BY DEF SharesAreTrue
    <2>1. /\ current \in Snapshots /\ node \in Nodes /\ jobs \in Outcomes
          /\ shares \in {"unread"} \cup Outcomes /\ (shares # "unread" \/ NoneThere)
        BY DEF FInv, IInv, Shape, Stamped, Framed, Idle, Lists
    <2>2. i \in 1 .. now /\ k \in 1 .. now /\ now \in 1 .. Len(History) /\ Len(History) \in Nat
        BY <2>1, Instants DEF FInv, Stamped, Lists
    <2>3. CASE shares # "unread"
        <3>1. i \in 1 .. k /\ k \in DOMAIN History
            BY <2>1, <2>2, <2>3, Instants DEF FInv, Stamped
        <3>2. jobs \in {"read", "lost"} /\ shares \in {"read", "lost"}
            BY <2>1, <2>3 DEF Outcomes
        <3> HIDE DEF jobs, shares, i, k
        <3>3. QED
            BY Zenon, <2>1, <3>1, <3>2 DEF ListsAreTrue
    <2>4. CASE NoneThere
        <3>1. i \in 1 .. i /\ i \in DOMAIN History
            BY <2>2, Instants
        <3>2. FrameIsTrue(node, jobs, i, "lost", i)
            BY <2>1, <3>1 DEF ListsAreTrue, Outcomes
        <3>3. JobsOn(JobsRead(jobs, i), node) = {}
            BY <2>4 DEF NoneThere
        <3>4. QED
            BY <3>2, <3>3 DEF FrameIsTrue
    <2>5. QED
        BY <2>1, <2>3, <2>4
<1>2. QED
    BY <1>1, FramesInvariant, PTL
=============================================================================
