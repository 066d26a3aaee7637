------------------------------- MODULE Browse -------------------------------
(***************************************************************************)
(* The browse (cli._browse) and the list it shows (interactive.select): a  *)
(* stack of levels, a cursor in the top one, one block of lines on the     *)
(* screen that each level overwrites, and the reload that leaves `_browse` *)
(* with its stack and cursors saved, and comes back over a new snapshot.   *)
(*                                                                         *)
(* A level is a tuple of its kind and what it is about.  The screen is the *)
(* lines below the shell's prompt, each named for what it shows.  A burst  *)
(* of keys that is drawn once is modelled key by key.                      *)
(***************************************************************************)
EXTENDS Integers, Sequences, FiniteSets, SequencesExt, Selection

CONSTANTS
    Snapshots, \* the readings of the cluster, one after the other
    MaxKeys    \* bound: how many keys are pressed

Root == <<"partitions">>
Every == <<"all">>
Excluded == <<"excluded">>
First == <<"open">> \* the funnel's entry that only moves the cursor

ASSUME BrowseAssumption ==
    /\ Snapshots \in Seq(Range(Snapshots)) /\ Len(Snapshots) > 0 /\ MaxKeys \in Nat
    /\ \A v \in DOMAIN Snapshots :
          LET s == Snapshots[v] IN
          /\ s.height \in Nat \ {0}
          /\ s.queues \in Seq(Range(s.queues)) /\ s.excluded \in Seq(Range(s.excluded))
          /\ \A q \in DOMAIN s.nodes : s.nodes[q] \in Seq(Range(s.nodes[q]))
          /\ \A n \in DOMAIN s.jobs : s.jobs[n] \in Seq(Range(s.jobs[n]))
          /\ \A q \in Range(s.queues) \cup Range(s.excluded) : q \in DOMAIN s.nodes
          /\ \A q \in DOMAIN s.nodes : Range(s.nodes[q]) \subseteq s.machines

VARIABLES
    snap,     \* the snapshot that is shown
    stack,    \* the levels, the shown one last
    index,    \* the cursor in it
    cursors,  \* level -> the row it was left at
    painted,  \* select: the lines of its block that are on the screen
    standing, \* _STANDING: the lines a reload left there
    screen,   \* the lines themselves
    pc,       \* "browsing", "reloading" or "ended"
    saved,    \* _RESUME_STACK and _RESUME_CURSORS
    keyed     \* the keys pressed so far

shown == <<snap, stack, index, cursors>>
lines == <<painted, standing, screen>>
vars == <<shown, lines, pc, saved, keyed>>

-----------------------------------------------------------------------------
(* What a snapshot lists.                                                  *)

Top == Last(stack)

\* Every node of the cluster, also one that no queue has.
Nodes(v) == Snapshots[v].machines

\* The jobs of a node, in the order they are listed; a node that is gone may still
\* be named by some.
JobsOn(v, node) == IF node \in DOMAIN Snapshots[v].jobs THEN Snapshots[v].jobs[node] ELSE <<>>

Listing(queues) == [i \in DOMAIN queues |-> <<"nodes", queues[i]>>]

\* The rows of a level, each the level that it opens.
Rows(v, level) ==
    LET s == Snapshots[v] IN
    CASE level = Root -> <<Every, First, Excluded>> \o Listing(s.queues)
      [] level = Every -> Listing(s.queues \o s.excluded)
      [] level = Excluded -> Listing(s.excluded)
      [] level[1] = "nodes" ->
            LET nodes == IF level[2] \in DOMAIN s.nodes THEN s.nodes[level[2]] ELSE <<>> IN
            [i \in DOMAIN nodes |-> <<"jobs", nodes[i]>>]
      [] level[1] = "jobs" ->
            LET jobs == JobsOn(v, level[2]) IN
            [i \in DOMAIN jobs |-> <<"job", level[2], jobs[i]>>]
      [] level[1] = "job" -> <<>>

\* A level that has nothing to open still has a line to stand on.
Count(v, level) ==
    IF level[1] \in {"jobs", "job"} /\ Rows(v, level) = <<>> THEN 1 ELSE Len(Rows(v, level))

Openable(v, level) == level[1] \in {"jobs", "job"} => Rows(v, level) # <<>>

\* Whether a level stays once it is reached: an empty list steps back at once,
\* and so does a job that is not there.
Stays(v, level) ==
    /\ Count(v, level) > 0
    /\ level[1] = "job" => level[3] \in Range(JobsOn(v, level[2]))

\* The levels that are left when those that do not stay have been popped.
Settled(v, levels) ==
    LET depth == CHOOSE d \in DOMAIN levels :
                    Stays(v, levels[d]) /\ \A e \in d + 1 .. Len(levels) : ~Stays(v, levels[e])
    IN SubSeq(levels, 1, depth)

\* What a stack is made of.
Queues == UNION {DOMAIN Snapshots[v].nodes : v \in DOMAIN Snapshots}
Machines == UNION {Nodes(v) : v \in DOMAIN Snapshots}
Jobs == UNION {Range(JobsOn(v, n)) : v \in DOMAIN Snapshots, n \in Machines}
Levels ==
    {Root, Every, Excluded} \cup {<<"nodes", q>> : q \in Queues}
    \cup {<<"jobs", n>> : n \in Machines} \cup {<<"job", n, j>> : n \in Machines, j \in Jobs}

-----------------------------------------------------------------------------
(* One select: rows, moves and paint.                                      *)

\* The funnel's entries share the first row of the overview.
RowOf(level, i) == IF level # Root THEN i ELSE IF i <= 3 THEN 1 ELSE i - 2

Siblings(v, level, row) == {i \in 1 .. Count(v, level) : RowOf(level, i) = row}
Least(S) == CHOOSE i \in S : \A j \in S : i <= j
Greatest(S) == CHOOSE i \in S : \A j \in S : j <= i

\* Where a step of one row leads: around the ends, and into the same column of
\* the row if it has one.
StepRow(v, level, i, delta) ==
    LET rows == RowOf(level, Count(v, level))
        row == ((RowOf(level, i) + delta - 1 + rows) % rows) + 1
        column == i - Least(Siblings(v, level, RowOf(level, i)))
        there == Siblings(v, level, row)
    IN Least({Least(there) + column, Greatest(there)})

\* Where the cursor of a level starts.
At(v, level, where) ==
    IF level \in DOMAIN where THEN Least({where[level], Count(v, level)}) ELSE 1

\* `n` lines at the end of the screen are overwritten, and wiped if more.
Over(old, n, new) == SubSeq(old, 1, Len(old) - n) \o new

Block(v, level) == [i \in 1 .. Snapshots[v].height |-> <<v, level>>]

\* Seeded bug: the rows a reload left are not taken over.
AdoptNone == 0

\* What a new select starts from.
Adopt == standing

\* A select starts over `levels`, with `n` lines of a block standing on `old`.
Show(v, levels, where, old, n) ==
    LET kept == Settled(v, levels) IN
    /\ stack' = kept /\ snap' = v /\ cursors' = where
    /\ index' = At(v, Last(kept), where)
    /\ painted' = Len(Block(v, Last(kept)))
    /\ screen' = Over(old, n, Block(v, Last(kept)))
    /\ standing' = 0 /\ pc' = "browsing"

Erased == Over(screen, painted, <<>>)

Init ==
    /\ snap = 1 /\ stack = <<Root>> /\ index = 1 /\ cursors = <<>>
    /\ painted = Snapshots[1].height /\ standing = 0 /\ screen = Block(1, Root)
    /\ pc = "browsing" /\ saved = <<<<>>, <<>>>> /\ keyed = 0

\* The reader presses a key that `select` waits for.
Key == pc = "browsing" /\ keyed < MaxKeys /\ keyed' = keyed + 1

\* The cursor moves within the level, and its block is painted again.
MoveTo(i) ==
    /\ index' = i
    /\ painted' = Len(Block(snap, Top))
    /\ screen' = Over(screen, painted, Block(snap, Top))
    /\ UNCHANGED <<snap, stack, cursors, standing, pc, saved>>

Up == Key /\ MoveTo(StepRow(snap, Top, index, -1))
Down == Key /\ MoveTo(StepRow(snap, Top, index, 1))
ToTop == Key /\ MoveTo(1)
Bottom == Key /\ MoveTo(Least(Siblings(snap, Top, RowOf(Top, Count(snap, Top)))))

Here == Siblings(snap, Top, RowOf(Top, index))

\* Stepping out of a level.
Back ==
    /\ Show(snap, Front(stack), cursors, Erased, 0)
    /\ UNCHANGED saved

\* Seeded bug: the row is not kept where the level is a listing of nodes.
OpenForgets ==
    LET target == Rows(snap, Top)[index]
        row == IF target = First /\ Count(snap, Top) > 3 THEN 4 ELSE index
        left == [level \in DOMAIN cursors \cup ({Top} \cap {Root}) |->
                    IF level = Top THEN row ELSE cursors[level]] IN
    /\ Show(snap, IF target = First THEN stack ELSE Append(stack, target), left, Erased, 0)
    /\ UNCHANGED saved

\* Opening the row under the cursor: a level, or the first queue's row.
Open ==
    LET target == Rows(snap, Top)[index]
        row == IF target = First /\ Count(snap, Top) > 3 THEN 4 ELSE index
        left == [level \in DOMAIN cursors \cup {Top} |->
                    IF level = Top THEN row ELSE cursors[level]] IN
    /\ Show(snap, IF target = First THEN stack ELSE Append(stack, target), left, Erased, 0)
    /\ UNCHANGED saved

Left ==
    /\ Key
    /\ \/ index > Least(Here) /\ MoveTo(index - 1)
       \/ index = Least(Here) /\ Top # Root /\ Back
       \/ index = Least(Here) /\ Top = Root /\ MoveTo(index)

Right ==
    /\ Key
    /\ \/ index < Greatest(Here) /\ MoveTo(index + 1)
       \/ index = Greatest(Here) /\ Openable(snap, Top) /\ Open
       \/ index = Greatest(Here) /\ ~Openable(snap, Top) /\ MoveTo(index)

Enter ==
    /\ Key
    /\ \/ Openable(snap, Top) /\ Open
       \/ ~Openable(snap, Top) /\ MoveTo(index)

\* The browse ends with `rest` on the screen.
Ended(rest) ==
    /\ pc' = "ended" /\ screen' = rest
    /\ UNCHANGED <<shown, painted, standing, saved>>

\* Escape steps out, and leaves the program where there is nothing to step to.
Escape ==
    /\ Key
    /\ \/ Top # Root /\ Back
       \/ Top = Root /\ Ended(Erased)

\* `q` and Ctrl-C.
Quit == Key /\ Ended(screen)

\* The block is left standing for the view that comes back.
LeaveStanding == standing' = painted /\ UNCHANGED screen

\* `r`, or the clock.
Reload ==
    /\ Key /\ snap < Len(Snapshots)
    /\ pc' = "reloading" /\ saved' = <<stack, cursors>>
    /\ LeaveStanding
    /\ UNCHANGED <<shown, painted>>

\* A saved level whose queue or node is there.
Known(v, level) ==
    /\ level[1] = "nodes" => level[2] \in DOMAIN Snapshots[v].nodes
    /\ level[1] = "jobs" => level[2] \in Nodes(v)

\* Seeded bug: the stack is resumed as it was saved.
ResumedAll(v, levels) == levels

\* What is left of a saved stack over a new snapshot.
Resumed(v, levels) == Picked(levels, {level \in Range(levels) : Known(v, level)})

\* The new reading is in, and the browse opens where it was.
Resume ==
    /\ pc = "reloading"
    /\ Show(snap + 1, Resumed(snap + 1, saved[1]), saved[2], screen, Adopt)
    /\ saved' = <<<<>>, <<>>>> /\ UNCHANGED keyed

Rest == (pc = "ended" \/ (pc = "browsing" /\ keyed = MaxKeys)) /\ UNCHANGED vars

Next ==
    \/ Up \/ Down \/ ToTop \/ Bottom \/ Left \/ Right \/ Enter \/ Escape \/ Quit
    \/ Reload \/ Resume \/ Rest

Spec == Init /\ [][Next]_vars

-----------------------------------------------------------------------------
(* Correctness.                                                            *)

\* Every variable has its type, and the cursor is on a row of the level.
TypeOK ==
    /\ snap \in DOMAIN Snapshots /\ pc \in {"browsing", "reloading", "ended"}
    /\ stack # <<>> /\ stack[1] = Root /\ Len(stack) <= 5
    /\ index \in 1 .. Count(snap, Top)
    /\ painted \in Nat /\ standing \in Nat /\ keyed \in 0 .. MaxKeys

\* "There is one screen and not a transcript of screens": while the reader looks
\* on, the screen is the block of the level on top and nothing else.
OneBlock == pc = "browsing" => screen = Block(snap, Top)

\* "A stack entry naming a partition or node that has since vanished is dropped
\* rather than followed": whatever is stepped out to is there.
NothingVanished == pc = "browsing" => \A d \in DOMAIN stack : Known(snap, stack[d])

\* What is listed comes and goes behind it: a row that opens is in its place
\* wherever it is listed.
KeepTheirPlaces ==
    \A v, w \in DOMAIN Snapshots, level, row \in Levels :
        Stays(v, row) =>
            \A i \in DOMAIN Rows(v, level), j \in DOMAIN Rows(w, level) :
                Rows(v, level)[i] = row /\ Rows(w, level)[j] = row => i = j

\* "Stepping out lands on the row you came from", whatever was reloaded since and
\* whichever levels a reload has dropped in between, as long as that row is listed
\* where one comes out and rows keep their places.
StepsOutToItsRow ==
    [][pc = "browsing" /\ pc' = "browsing" /\ Len(stack') < Len(stack) =>
          LET left == stack[Len(stack') + 1]
              rows == Rows(snap, Last(stack'))
          IN  left \in Range(rows) => rows[index'] = left]_vars
=============================================================================
