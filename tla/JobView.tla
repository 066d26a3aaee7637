------------------------------- MODULE JobView -------------------------------
(***************************************************************************)
(* The two lists of a node's job view (core/cluster.py: jobs, allocations, *)
(* prefetch_job_view), which are not read with the snapshot but on first   *)
(* use: by the reader's own thread, or by a daemon thread that was started *)
(* when the reader stepped into a node listing.  Each list of a snapshot   *)
(* has a lock and is read once.                                            *)
(*                                                                         *)
(* A reload replaces the snapshot under the reader; the threads of the old *)
(* one are not told.  Jobs begin, end and move all the while, so that the  *)
(* two lists are of two instants (JobReading).                             *)
(***************************************************************************)
EXTENDS JobReading

CONSTANTS
    History,     \* the jobs that run, at one instant after another
    Nodes,       \* the nodes of the listing
    Warmers,     \* the daemon threads; bounds how many are started
    Reader,      \* the reader's own thread
    MaxSnapshots \* bound: how many snapshots are taken

Free == "free" \* a lock that nobody holds

ASSUME JobViewAssumption ==
    /\ Free \notin Warmers \cup {Reader} /\ Reader \notin Warmers /\ MaxSnapshots \in Nat \ {0} /\ MaxExpansion \in Nat \ {0}
    /\ History \in Seq(Range(History)) /\ Len(History) > 0
    /\ \A i \in DOMAIN History : \A j, k \in History[i] :
          /\ NodesOf(j) \subseteq Nodes /\ j # k => SqueueName(j) # SqueueName(k) /\ j.id # k.id

Threads == Warmers \cup {Reader}
Lists == {"jobs", "allocations"}
Snapshots == 1 .. MaxSnapshots

VARIABLES
    current,  \* the snapshot the reader looks at
    view,     \* "queues", "nodes", "jobs", or "gone"
    node,     \* whose jobs are looked at
    now,      \* the instant
    list,     \* snapshot -> list -> "unread", "read", or "lost" to an error
    asOf,     \* snapshot -> list -> the instant that it describes
    lock,     \* snapshot -> list -> the thread that holds its lock, or none
    wants,    \* thread -> the lists it has yet to get
    of        \* thread -> the snapshot they are of

vars == <<current, view, node, now, list, asOf, lock, wants, of>>

-----------------------------------------------------------------------------
Init ==
    /\ current = 1 /\ view = "queues" /\ now = 1 /\ node \in Nodes
    /\ asOf = [s \in Snapshots |-> [l \in Lists |-> now]]
    /\ list = [s \in Snapshots |-> [l \in Lists |-> "unread"]]
    /\ lock = [s \in Snapshots |-> [l \in Lists |-> Free]]
    /\ wants = [t \in Threads |-> {}] /\ of = [t \in Threads |-> 1]

\* Seeded bug: the worker reads the longer list first.
NextListShares(t) ==
    IF "jobs" \in wants[t] /\ (t = Reader \/ "allocations" \notin wants[t])
    THEN "jobs" ELSE "allocations"

\* Jobs first, allocations second.
NextList(t) == IF "jobs" \in wants[t] THEN "jobs" ELSE "allocations"

Asking(t) == wants[t] # {} /\ lock[of[t]][NextList(t)] = t
Idle(t) == wants[t] = {}

-----------------------------------------------------------------------------
(* A thread that wants a list.                                             *)

\* It gets the lock, nobody has read the list, and the control plane is asked.
Enter(t) ==
    /\ ~Idle(t)
    /\ lock[of[t]][NextList(t)] = Free /\ list[of[t]][NextList(t)] = "unread"
    /\ lock' = [lock EXCEPT ![of[t]][NextList(t)] = t]
    /\ UNCHANGED <<current, view, node, now, list, asOf, wants, of>>

\* What the lists of a snapshot say; one that was lost, or was not asked for, says nothing.
JobsAt == FoldLeft(LAMBDA lists, jobs : Append(lists, ParseJobs(jobs)), <<>>, History)
SharesAt == FoldLeft(LAMBDA lists, jobs : Append(lists, ParseAllocations(jobs)), <<>>, History)
JobsRead(outcome, instant) == IF outcome = "read" THEN JobsAt[instant] ELSE {}
SharesRead(outcome, instant) == IF outcome = "read" THEN SharesAt[instant] ELSE <<>>

\* What a thread still wants: with no jobs on the node, there are no shares for
\* the reader to look at.
Without(t, l, outcome, instant) ==
    IF t = Reader /\ l = "jobs" /\ JobsOn(JobsRead(outcome, instant), node) = {} THEN {}
    ELSE wants[t] \ {l}

\* It gets the lock, and the list has been read, or has failed to be.
Take(t) ==
    LET l == NextList(t) IN
    /\ ~Idle(t) /\ lock[of[t]][l] = Free /\ list[of[t]][l] # "unread"
    /\ wants' = [wants EXCEPT ![t] = Without(t, l, list[of[t]][l], asOf[of[t]][l])]
    /\ UNCHANGED <<current, view, node, now, list, asOf, lock, of>>

\* Seeded bug: a query that fails leaves the lock behind.
UnlockRead(s, l, outcome) ==
    lock' = IF outcome = "read" THEN [lock EXCEPT ![s][l] = Free] ELSE lock

\* The lock is left, whatever came of the query.
Unlock(s, l, outcome) == lock' = [lock EXCEPT ![s][l] = Free]

\* What the list is from then on: a failure reads as no jobs, with the error.
Keeps(s, l, outcome) ==
    list' = [list EXCEPT ![s][l] = outcome] /\ asOf' = [asOf EXCEPT ![s][l] = now]

\* Its query ends.
Answer(t) ==
    LET l == NextList(t) IN
    /\ Asking(t)
    /\ \E outcome \in {"read", "lost"} :
          /\ Keeps(of[t], l, outcome) /\ Unlock(of[t], l, outcome)
          /\ wants' = [wants EXCEPT ![t] = Without(t, l, outcome, now)]
    /\ UNCHANGED <<current, view, node, now, of>>

-----------------------------------------------------------------------------
(* The reader, who waits while a list of theirs is being read.             *)

Reading == view # "gone" /\ Idle(Reader)

\* Seeded bug: after a reload, the lists are still asked of the snapshot before.
StartStale(s, lists) ==
    /\ wants' = [t \in Threads |-> IF t \in DOMAIN lists THEN lists[t] ELSE wants[t]]
    /\ UNCHANGED of

\* Threads are to get lists of snapshot s.
Start(s, lists) ==
    /\ wants' = [t \in Threads |-> IF t \in DOMAIN lists THEN lists[t] ELSE wants[t]]
    /\ of' = [t \in Threads |-> IF t \in DOMAIN lists THEN s ELSE of[t]]

\* Into a listing of nodes of snapshot s.  prefetch_job_view: a thread for both
\* lists, unless both are there.  The listing itself, if there is a node in it,
\* says how many jobs are on each.
List(s) ==
    \E listed \in SUBSET {"jobs"} :
        IF \A l \in Lists : list[s][l] # "unread" THEN Start(s, [t \in {Reader} |-> listed])
        ELSE \E w \in Warmers :
                Idle(w) /\ Start(s, [t \in {w, Reader} |-> IF t = w THEN Lists ELSE listed])

\* Into a node listing, from either side.
OpenNodes ==
    /\ Reading /\ view \in {"queues", "jobs"}
    /\ view' = "nodes" /\ List(current)
    /\ UNCHANGED <<current, node, now, list, asOf, lock>>

\* Into a node's jobs: the frame needs the jobs, and the share of each.
OpenJobs ==
    /\ Reading /\ view = "nodes"
    /\ view' = "jobs" /\ node' \in Nodes /\ Start(current, [t \in {Reader} |-> Lists])
    /\ UNCHANGED <<current, now, list, asOf, lock>>

LeaveNodes ==
    /\ Reading /\ view = "nodes" /\ view' = "queues"
    /\ UNCHANGED <<current, node, now, list, asOf, lock, wants, of>>

\* The view is rebuilt over a new snapshot, where it was: a node listing
\* prefetches again, and a job frame reads its lists itself.
Reload ==
    /\ Reading /\ current < MaxSnapshots
    /\ current' = current + 1
    /\ \/ view = "queues" /\ UNCHANGED <<wants, of>>
       \/ view = "nodes" /\ List(current + 1)
       \/ view = "jobs" /\ Start(current + 1, [t \in {Reader} |-> Lists])
    /\ UNCHANGED <<view, node, now, list, asOf, lock>>

\* Jobs begin, end and move.
Move ==
    /\ now < Len(History) /\ view # "gone"
    /\ now' = now + 1
    /\ UNCHANGED <<current, view, node, list, asOf, lock, wants, of>>

\* The daemons do not outlive the program.
Quit ==
    /\ Reading /\ view' = "gone" /\ wants' = [t \in Threads |-> {}]
    /\ lock' = [s \in Snapshots |-> [l \in Lists |-> Free]]
    /\ UNCHANGED <<current, node, now, list, asOf, of>>

Gone == view = "gone" /\ UNCHANGED vars

Gets(t) == Enter(t) \/ Take(t) \/ Answer(t)

Next ==
    \/ OpenNodes \/ OpenJobs \/ LeaveNodes \/ Reload \/ Move \/ Quit \/ Gone
    \/ \E t \in Threads : Gets(t)

\* Threads run, and queries end: they have timeouts.
Spec == Init /\ [][Next]_vars /\ \A t \in Threads : WF_vars(Gets(t))

-----------------------------------------------------------------------------
(* Correctness.                                                            *)

InFlight == {q \in Snapshots \X Lists : lock[q[1]][q[2]] # Free}

\* Every variable has its type, and a lock is held by a thread that needs it.
TypeOK ==
    /\ current \in Snapshots /\ view \in {"queues", "nodes", "jobs", "gone"}
    /\ node \in Nodes /\ now \in DOMAIN History /\ asOf \in [Snapshots -> [Lists -> 1 .. now]]
    /\ list \in [Snapshots -> [Lists -> {"unread", "read", "lost"}]]
    /\ wants \in [Threads -> SUBSET Lists] /\ of \in [Threads -> Snapshots]
    /\ \A s \in Snapshots, l \in Lists :
          lock[s][l] # Free => l \in wants[lock[s][l]] /\ of[lock[s][l]] = s

\* "At most one extra query in flight", for any one snapshot: however often the
\* reader steps in and out, the two lists are asked for one after the other.
OneInFlightEach ==
    \A s \in Snapshots : Cardinality({q \in InFlight : q[1] = s}) <= 1

\* What there is on a node: the jobs by name, with what they hold.
There ==
    [i \in DOMAIN History |-> [n \in Nodes |->
        {<<SqueueName(j), Holds(j, n)>> : j \in {k \in History[i] : n \in NodesOf(k)}}]]

\* A frame of node n over jobs of instant i and shares of instant k lists the jobs that
\* were there when the list was read, and no other; and of each it shows what the job
\* held there, at either instant, or that nothing can say.  Lists of one instant leave
\* nothing unsaid, and a job is not shown before its shares were asked for.
FrameIsTrue(n, jobs, i, shares, k) ==
    LET shown == JobsOn(JobsRead(jobs, i), n)
        held(at, id) == {h[2] : h \in {g \in There[at][n] : g[1] = id}} IN
    /\ {j.id : j \in shown} = IF jobs = "lost" THEN {} ELSE {h[1] : h \in There[i][n]}
    /\ \A j \in shown :
          LET share == ShareOf(j, n, SharesRead(shares, k)) IN
          /\ shares # "unread" /\ share \subseteq held(i, j.id) \cup held(k, j.id)
          /\ shares = "read" /\ i = k => share # {}

\* The frame of a node tells the truth, of the instants that its lists are of: never
\* another job's share, never a device's number, and never the total of a job on many
\* nodes ("a total in a column that means a share").
SharesAreTrue ==
    view = "jobs" /\ Idle(Reader) =>
        FrameIsTrue(node, list[current]["jobs"], asOf[current]["jobs"],
                    list[current]["allocations"], asOf[current]["allocations"])

\* What the two lists say is true when they are put side by side: jobs of one instant,
\* shares of the same or a later one, read or lost.
ListsAreTrue ==
    \A n \in Nodes, k \in DOMAIN History : \A i \in 1 .. k, jobs, shares \in {"read", "lost"} :
        FrameIsTrue(n, jobs, i, shares, k)

\* A reader who opens a listing, or a node's jobs, gets to see them.
FrameComes == view \in {"nodes", "jobs"} ~> Idle(Reader)
=============================================================================
