----------------------------- MODULE Placement -----------------------------
(***************************************************************************)
(* One queue judged for one job (core/fit.py evaluate, Placement; the      *)
(* label in cli.py), while the cluster goes on: other jobs start and end,  *)
(* nodes leave service and return.  Nodes and free times are read by two   *)
(* commands, in either order, and only then is the queue judged and, where *)
(* that is not pointless, a dry-run asked.                                 *)
(*                                                                         *)
(* Beside what was judged stands the scheduler itself: CanStart is its     *)
(* rule for starting the job, over the machines as they are and not as     *)
(* they were read.                                                         *)
(***************************************************************************)
EXTENDS Capacity, Limits, DryRun, FiniteSetsExt

CONSTANTS
    Nodes,      \* the nodes of the queue
    Cases,      \* what does not change: see Case below
    Work,       \* what other jobs may run: [on, cpus, mem, gpus, end]
    MaxClock,   \* bound: the last instant
    MaxJobs,    \* bound: other jobs running at once
    Spelling,   \* node -> its name, as Hostlist has names
    MaxExpansion, \* the most names that a list of nodes may come to
    Variants, Uncertain, Features, AliasOrder, GluedKnown, \* the vocabulary of Accelerators
    Unread      \* what was not read or answered yet

(* A case: machine, from nodes to [cpus, mem, gpus, tainted, card] as they *)
(* are, the card with what is said of it, in the type of the resource and  *)
(* in the labels; silent and lost: the nodes whose memory nobody reports,  *)
(* and whose record does not resolve;                                      *)
(* floor and accounted: the least memory handed out per core of a job that *)
(* names none, and whether memory counts at all; shape, whose exclude is   *)
(* the list that the caller means (Hostlist: Names); entitled: whether     *)
(* the queue takes the caller; identified: whether the caller's accounts   *)
(* could be read; account and qos: what the caller named; declared:        *)
(* whether the queue's own lists take them; state of the queue; caps: its  *)
(* own ceilings; published: from the names of limit sets to what is said   *)
(* of them; unlisted: that could not be read; limitSet: the one the queue  *)
(* declares; rows: the associations; by: the scheduler; probing: whether a *)
(* dry-run is wanted.                                                      *)
Hosts == INSTANCE Hostlist
Cards == INSTANCE Accelerators

\* What is read of the accelerator of a machine.
ReadCard(m) ==
    LET said == Cards!Identify(m.card.resource, m.card.labels)
    IN  IF m.gpus = 0 \/ said.part = Cards!Nothing THEN Unidentified
        ELSE [able |-> Cards!Supports(said.part, "bf16"), size |-> said.size, certain |-> said.certain]

\* The nodes whose names are read in a list as it is typed.
ExcludedBy(list) ==
    IF list = <<>> THEN {}
    ELSE LET names == Range(Hosts!Expand(Hosts!Written(list)))
         IN {n \in Nodes : Spelling[n] \in names}

\* What is said of a machine, and whether it is handed out in parts.
TokensOf(m) == Range(m.card.resource) \cup Range(m.card.labels)
Whole(m) == \A t \in TokensOf(m) : ~Cards!Slice(t)

MachineOK(m) ==
    /\ m.cpus \in Nat /\ m.mem \in Nat \ {0} /\ m.gpus \in Nat /\ m.tainted \in BOOLEAN
    /\ m.card.size \in Nat /\ m.card.able \in BOOLEAN
ShapeOK(s) ==
    s \in [nodes : Nat \ {0}, cpus : Nat \ {0}, mem : Nat, gpus : Nat, size : Nat, wall : Nat,
          able : BOOLEAN, tolerates : BOOLEAN, exclude : {s.exclude}]

\* One association of an account with a queue.
RowsOK(rows) ==
    /\ \A r \in rows : /\ r.account # NoName /\ r.default \in r.qos \cup {NoName}
                       /\ IsFiniteSet(r.qos) /\ r.qos # {} /\ NoName \notin r.qos
    /\ \A r, s \in rows : r.account = s.account /\ r.queue = s.queue => r = s

ASSUME PlacementAssumption ==
    /\ MaxClock \in Nat /\ MaxJobs \in Nat /\ MaxExpansion \in Nat \ {0}
    /\ DOMAIN Spelling = Nodes /\ IsFiniteSet(Nodes) /\ IsFiniteSet(Work) /\ Unnamed = NoName
    /\ \A w \in Work : /\ w.on \in Nodes /\ w.end \in Nat
                       /\ w.cpus \in Nat /\ w.mem \in Nat /\ w.gpus \in Nat
    /\ \A c \in Cases :
         /\ c.silent \cup c.lost \subseteq Nodes
         /\ \A n \in Nodes : MachineOK(c.machine[n]) /\ c.floor <= c.machine[n].mem
         /\ c.floor \in Nat /\ ShapeOK(c.shape) /\ RowsOK(c.rows)
         /\ {c.accounted, c.entitled, c.identified, c.declared, c.unlisted, c.probing} \subseteq BOOLEAN
         /\ c.by \in {"slurm", "sge", "kubernetes"}
         /\ CapsOK(c.caps)
         /\ NoName \notin DOMAIN c.published
         /\ \A name \in DOMAIN c.published : PublishedOK(c.published[name])

\* The labels and the resource of a machine with accelerators say what it has:
\* of a model that is recognised its capability, and never too large a size
\* unless parts of it are handed out; and a model is recognised in any words.
ASSUME CardsAreRead ==
    \A c \in Cases : \A n \in Nodes :
        LET m == c.machine[n] read == ReadCard(m) IN
        /\ read \in [able : BOOLEAN, size : Nat, certain : BOOLEAN]
        /\ read # Unidentified =>
             /\ read.able = m.card.able /\ (read.certain => read.size >= m.card.size)
             /\ Whole(m) => read.size <= m.card.size
        /\ m.gpus > 0 /\ (\E t \in TokensOf(m) : t.parts # {} /\ t.form # "embedded") => read # Unidentified

\* The lists of nodes to keep away from are read as they are meant.
ASSUME ExclusionsAreRead ==
    \A c \in Cases : c.shape.exclude # <<>> =>
        ExcludedBy(c.shape.exclude) = {n \in Nodes : Spelling[n] \in Hosts!Names(c.shape.exclude)}

VARIABLES
    case,       \* the case, chosen once
    clock,
    up,         \* the nodes in service
    jobs,       \* the other jobs that run
    nodesRead,  \* the nodes as they were read, or Unread
    freeRead,   \* when each busy node is free, as it was read, or Unread
    disturbed,  \* a job began or a node left after the first reading
    answer,     \* what the reader was told, or Unread
    started     \* the job started

vars == <<case, clock, up, jobs, nodesRead, freeRead, disturbed, answer, started>>

shape == case.shape

-----------------------------------------------------------------------------
(* The cluster.                                                            *)

\* The jobs J on a node, and what is handed out to them there.
On(J, n) == {j \in J : j.on = n}
CpusHeld(J, n) == SumFunctionOnSet([j \in Work |-> j.cpus], On(J, n))
MemHeld(J, n) == SumFunctionOnSet([j \in Work |-> j.mem], On(J, n))
GpusHeld(J, n) == SumFunctionOnSet([j \in Work |-> j.gpus], On(J, n))

\* A scheduler that reports no memory of a node counts none there.
Counted(n) == case.accounted /\ n \notin case.silent

Fits(J, n, cpus, mem, gpus) ==
    /\ CpusHeld(J, n) + cpus <= case.machine[n].cpus
    /\ GpusHeld(J, n) + gpus <= case.machine[n].gpus
    /\ Counted(n) => MemHeld(J, n) + mem <= case.machine[n].mem

HasRoom(n, cpus, mem, gpus) == n \in up /\ Fits(jobs, n, cpus, mem, gpus)

\* A job that names no memory is given the floor for each of its cores.
MemGiven ==
    IF shape.mem > 0 THEN shape.mem
    ELSE IF case.floor > 0 THEN case.floor * shape.cpus ELSE 1

CardDoes(n) ==
    NeedsGpu(shape) => /\ case.machine[n].card.size >= shape.size
                       /\ shape.able => case.machine[n].card.able

\* What the job asks of a node, whatever else runs there.
Suits(n) ==
    /\ shape.exclude # <<>> => Spelling[n] \notin Hosts!Names(shape.exclude)
    /\ case.machine[n].tainted => shape.tolerates
    /\ shape.mem > 0 => n \in case.silent \/ shape.mem <= case.machine[n].mem
    /\ CardDoes(n)

Takes(n) == Suits(n) /\ HasRoom(n, shape.cpus, MemGiven, shape.gpus)

RoomNow == Cardinality({n \in Nodes : Takes(n)}) >= shape.nodes

\* The caller's accounts, as far as they are named.
Candidates ==
    IF case.account # NoName THEN {case.account}
    ELSE IF case.identified /\ case.rows # {} THEN Accounts(case.rows) ELSE {NoName}

\* The association a job of this account falls under; of a job that names no
\* account, any of them: one is the default.
Grants(account) ==
    LET own(a) == {r \in case.rows : r.account = a /\ r.queue = Here}
        blanket(a) == {r \in case.rows : r.account = a /\ r.queue = NoName}
        of(a) == IF own(a) # {} THEN own(a) ELSE blanket(a)
    IN  UNION {of(a) : a \in IF account = NoName THEN Accounts(case.rows) ELSE {account}}

\* A job that names no QOS gets the default, and is refused where there is none.
GrantTakes(r, qos) == IF qos = NoName THEN r.default # NoName ELSE qos \in r.qos
QosTaken(account, qos) == case.rows = {} \/ \E r \in Grants(account) : GrantTakes(r, qos)

\* What the job may run under, and the limit sets that then bind.
JobQos ==
    IF case.qos # NoName \/ case.rows = {} THEN {case.qos}
    ELSE UNION {{Decides(r) : r \in Grants(a)} : a \in Candidates}
BoundBy(qos) == {case.limitSet, qos} \cap DOMAIN case.published
OverCeiling(qos) ==
    Exceeded(case.caps, shape) # {} \/ \E name \in BoundBy(qos) : Over(case.published[name], shape)

CanStart == RoomNow /\ case.entitled /\ case.state = "up" /\ \E qos \in JobQos : ~OverCeiling(qos)

-----------------------------------------------------------------------------
(* What is read of it.                                                     *)

CardRead(n) == ReadCard(case.machine[n])

\* The nodes as they are read while those of U are in service and the jobs J run.
ReadingOf(U, J) == [n \in Nodes \ case.lost |->
    [cpus |-> case.machine[n].cpus, cpusHeld |-> CpusHeld(J, n),
     mem |-> IF n \in case.silent THEN 0 ELSE case.machine[n].mem, memHeld |-> MemHeld(J, n),
     gpus |-> case.machine[n].gpus, gpusHeld |-> GpusHeld(J, n),
     up |-> n \in U, tainted |-> case.machine[n].tainted,
     consumable |-> case.accounted, floor |-> IF case.accounted THEN case.floor ELSE 0,
     card |-> CardRead(n)]]

\* load_node_free_times: a node is free when the last job on it ends.
FreeTimesOf(J) == [n \in {j.on : j \in J} |-> Max({j.end : j \in On(J, n)})]

Reading == ReadingOf(up, jobs)
FreeTimes == FreeTimesOf(jobs)

Init ==
    /\ case \in Cases /\ clock = 0
    /\ up \in SUBSET Nodes
    /\ jobs \in {s \in SUBSET Work : Cardinality(s) <= MaxJobs}
    /\ \A j \in jobs : j.end > 0
    /\ \A n \in Nodes : Fits(jobs, n, 0, 0, 0)
    /\ nodesRead = Unread /\ freeRead = Unread /\ answer = Unread
    /\ disturbed = FALSE /\ started = FALSE

Underway == nodesRead # Unread \/ freeRead # Unread

-----------------------------------------------------------------------------
(* The cluster's own steps.                                                *)

\* No job runs past its limit.
Tick ==
    /\ clock < MaxClock /\ \A j \in jobs : j.end > clock
    /\ clock' = clock + 1
    /\ UNCHANGED <<case, up, jobs, nodesRead, freeRead, disturbed, answer, started>>

\* At its limit or before it.
JobEnds == \E j \in jobs :
    /\ jobs' = jobs \ {j}
    /\ UNCHANGED <<case, clock, up, nodesRead, freeRead, disturbed, answer, started>>

JobStarts == \E j \in Work \ jobs :
    /\ Cardinality(jobs) < MaxJobs /\ j.end > clock
    /\ HasRoom(j.on, j.cpus, j.mem, j.gpus)
    /\ jobs' = jobs \cup {j} /\ disturbed' = (disturbed \/ Underway)
    /\ UNCHANGED <<case, clock, up, nodesRead, freeRead, answer, started>>

LeavesService == \E n \in up :
    /\ up' = up \ {n} /\ disturbed' = (disturbed \/ Underway)
    /\ UNCHANGED <<case, clock, jobs, nodesRead, freeRead, answer, started>>

Returns == \E n \in Nodes \ up :
    /\ up' = up \cup {n}
    /\ UNCHANGED <<case, clock, jobs, nodesRead, freeRead, disturbed, answer, started>>

Start ==
    /\ answer # Unread /\ ~started /\ CanStart
    /\ started' = TRUE
    /\ UNCHANGED <<case, clock, up, jobs, nodesRead, freeRead, disturbed, answer>>

-----------------------------------------------------------------------------
(* Reading and judging.                                                    *)

ReadNodes ==
    /\ nodesRead = Unread /\ nodesRead' = Reading
    /\ UNCHANGED <<case, clock, up, jobs, freeRead, disturbed, answer, started>>

ReadFreeTimes ==
    /\ freeRead = Unread /\ freeRead' = FreeTimes
    /\ UNCHANGED <<case, clock, up, jobs, nodesRead, disturbed, answer, started>>

\* The shape, as it is read from the command line.
Request == [shape EXCEPT !.exclude = ExcludedBy(shape.exclude)]

\* Queue.structural_blockers that are fatal; access_blockers.
Operational(N) ==
    {b \in {"QUEUE_DISABLED", "QUEUE_NOT_STARTED", "NO_ACCOUNTS", "ALL_NODES_UNSCHEDULABLE"} :
        \/ b = "QUEUE_DISABLED" /\ case.state = "disabled"
        \/ b = "QUEUE_NOT_STARTED" /\ case.state = "stopped"
        \/ b = "NO_ACCOUNTS" /\ case.state = "nobody"
        \/ b = "ALL_NODES_UNSCHEDULABLE" /\ DOMAIN N # {} /\ \A n \in DOMAIN N : ~N[n].up}
Access == {b \in {"ACCOUNT_NOT_ALLOWED"} : ~case.declared /\ case.identified}

\* Seeded bug: hardware that is not known is taken for hardware that is wrong.
ImpossibleUnknown(cap) == ~EverPossible(cap)

\* Known not to fit, however empty.
Impossible(cap) == ~EverPossible(cap) /\ cap.unverified = {} /\ case.lost = {}

Known == case.identified \/ case.account # NoName

\* What is named with an account, the accounts that are taken with it, and what
\* the control plane may choose for them: a site may print which QOS it chose.
Named(a) == WithQos(case.rows, case.identified, case.qos, a)
Taken == {a \in Candidates : QosTaken(a, Named(a))}
Chosen == {NoName} \cup {Named(a) : a \in Taken}
          \cup UNION {{r.default : r \in {g \in Grants(a) : Named(a) = NoName}} : a \in Taken}

\* What the control plane may say to the accounts that were tried.  Without an
\* account it answers for a default one; short of all of them, for some.
Consents == UNION {Tells(case.by, "accepts", q, s) : s \in {"unsaid", "soon", "later"}, q \in Chosen}
Answers(truth) == Tells(case.by, truth, NoName, "unsaid")
ControlPlane(all) ==
    LET noQos == case.entitled /\ (Taken = {} \/ (~all /\ Taken # Candidates))
    IN  Answers("down") \cup Answers("full")
        \cup (IF case.entitled /\ Taken # {} THEN Consents ELSE {})
        \cup (IF noQos THEN Answers("no qos") ELSE {})
        \cup (IF case.entitled /\ Known /\ all THEN {} ELSE Answers("denied"))

\* Seeded bug: the hint at a flag comes before the question whose refusal it is.
SettledHintFirst(v, all) ==
    IF Durable(v) /\ ~v.allowed /\ v.category # "ACCOUNT_MISMATCH" /\ (~all \/ ~Known)
    THEN [v EXCEPT !.category = "ACCOUNTS_UNTRIED"] ELSE v

\* A refusal that did not ask every account, or that was obtained without one
\* because the identity query failed, says nothing of the caller.
Settled(v, all) ==
    IF Durable(v) /\ ~v.allowed /\ (~all \/ ~Known)
    THEN [v EXCEPT !.category = "ACCOUNTS_UNTRIED"] ELSE v

\* What was read of the limit sets: nothing if the query for them failed.
LimitsRead ==
    [name \in IF case.unlisted THEN {} ELSE DOMAIN case.published |-> ReadLimits(case.published[name])]

\* What the capacity comes to, what the dry-run says if one is sent, and all of it.
Assessed == Assess(nodesRead, Request, freeRead, case.lost = {})
Verdicts(cap, all) ==
    IF case.probing /\ Operational(nodesRead) = {} /\ ~Impossible(cap) THEN ControlPlane(all) ELSE {NoVerdict}
Judgement(cap, all, v) ==
    LET limits == LimitsFor(LimitsRead, case.rows, case.identified, case.limitSet, case.qos, v.effective)
    IN  [fatal |-> Operational(nodesRead) \cup Access, cap |-> cap,
         soft |-> Exceeded(case.caps, shape) \cup Blockers(limits, shape) # {},
         unchecked |-> limits.unreadable # {},
         withheld |-> case.probing /\ Impossible(cap), verdict |-> Settled(v, all)]

Evaluate ==
    /\ nodesRead # Unread /\ freeRead # Unread /\ answer = Unread
    /\ LET cap == Assessed
       IN  \E all \in BOOLEAN : \E v \in Verdicts(cap, all) : answer' = Judgement(cap, all, v)
    /\ UNCHANGED <<case, clock, up, jobs, nodesRead, freeRead, disturbed, started>>

Next == Tick \/ JobEnds \/ JobStarts \/ LeavesService \/ Returns \/ Start
        \/ ReadNodes \/ ReadFreeTimes \/ Evaluate

Spec == Init /\ [][Next]_vars

-----------------------------------------------------------------------------
(* Placement, and its label.                                               *)

Reachable(a) == a.fatal = {} /\ ~a.soft /\ (Durable(a.verdict) => a.verdict.allowed)
Confirmed(a) == Reachable(a) /\ a.verdict.allowed /\ a.verdict.category = "OK"
RunnableNow(a) == Reachable(a) /\ Satisfies(a.cap, shape)
StartsNow(a) == RunnableNow(a) /\ a.verdict.start # "later"

Label(a) ==
    IF StartsNow(a) THEN "RUN NOW"
    ELSE IF a.fatal # {} THEN "BLOCKED"
    ELSE IF a.verdict # NoVerdict /\ ~a.verdict.allowed
         THEN IF Durable(a.verdict) THEN "BLOCKED" ELSE "NO ANSWER"
    ELSE IF ~EverPossible(a.cap) THEN IF TooFewNodes(a.cap) THEN "TOO FEW" ELSE "WRONG HW"
    ELSE IF a.soft THEN "LIMIT" ELSE "QUEUE"

\* What `where` lists of the queue, and its exit status when asked of no other.
Listed(a) == a.fatal = {} /\ (Durable(a.verdict) => a.verdict.allowed)
WhereStatus(a) == IF Listed(a) /\ Reachable(a) /\ EverPossible(a.cap) THEN 0 ELSE 1

-----------------------------------------------------------------------------
\* The scheduler never hands out more than there is, and what was judged is of
\* the nodes that were read.
TypeOK ==
    /\ case \in Cases /\ clock \in 0 .. MaxClock /\ up \subseteq Nodes
    /\ jobs \subseteq Work /\ disturbed \in BOOLEAN /\ started \in BOOLEAN
    /\ \A n \in Nodes : Fits(jobs, n, 0, 0, 0)
    /\ answer # Unread =>
         /\ answer.cap.fitting \subseteq answer.cap.hardware
         /\ answer.cap.capable \subseteq answer.cap.hardware \ answer.cap.fitting
         /\ answer.verdict # NoVerdict => answer.verdict.category \in Categories
         /\ answer.cap.earliest # Never => answer.cap.earliest \in {w.end : w \in Work}

\* The limit set that was checked is one that binds: the control plane or the
\* caller named the QOS, or every association says the same; a single set binds;
\* and what is published of it is legible.
CeilingKnown(a) ==
    /\ \A name \in DOMAIN case.published : Legible(case.published[name])
    /\ \/ a.verdict.effective # NoName \/ case.qos # NoName \/ case.rows = {}
       \/ case.identified /\ \A r, s \in case.rows : Decides(r) = Decides(s)
    /\ Here \in DOMAIN case.published => case.limitSet = Here
    /\ \A qos \in JobQos : Cardinality(BoundBy(qos)) <= 1

RunsUnder(a) == IF a.verdict.effective # NoName THEN {a.verdict.effective} ELSE JobQos

\* Every accelerator is named in one word or another, and the size of those whose
\* model is known is too, where that matters; no node hands out a part of one; and
\* the least memory that is handed out does not depend on the number of cores.
SizesSaid ==
    shape.size > 0 => \A n \in Nodes : CardRead(n) = Unidentified \/ CardRead(n).certain
CardsSaid ==
    /\ SizesSaid
    /\ \A n \in Nodes : case.machine[n].gpus > 0 =>
           \E t \in TokensOf(case.machine[n]) : t.parts # {} /\ t.form # "embedded"
NoSlices == \A n \in Nodes : Whole(case.machine[n])
FloorCovers == shape.mem > 0 \/ shape.cpus = 1 \/ case.floor = 0 \/ ~case.accounted
RoomIsTold == (NoSlices \/ shape.size = 0) /\ FloorCovers

\* While the cluster is as it was read, RUN NOW says that there are enough nodes
\* on which the scheduler would start the job ("Fits now is a fact", capacity.py),
\* and that it is under every ceiling that binds it (fit.py: "Pick the limit set
\* that will actually apply"), unless the reader is told one could not be read.
FitsNowIsAFact ==
    answer # Unread /\ Label(answer) = "RUN NOW" /\ nodesRead = Reading =>
        /\ (RoomIsTold => RoomNow)
        /\ CeilingKnown(answer) /\ ~case.unlisted /\ ~answer.unchecked =>
            \A qos \in RunsUnder(answer) : ~OverCeiling(qos)

\* A job whose queue was told to have the wrong hardware, or too few nodes of
\* the right kind, is never started there, where every accelerator has a name
\* and the nodes resolve, all or none: jobs end and nodes return, and it still
\* does not fit (fit.py: "No node here could *ever* host this shape").
WrongHardwareIsForever ==
    started /\ CardsSaid /\ case.lost \in {{}, Nodes}
    => Label(answer) \notin {"WRONG HW", "TOO FEW"}

\* The dry-run is withheld on account of the hardware only where the job is
\* never started, whoever it is from (fit.py: "only where the hardware is KNOWN
\* not to fit").  A size that was only inferred is taken for known.
WithheldOnlyWhereHopeless == started /\ SizesSaid => ~answer.withheld

\* If nobody else comes and no node leaves, the job fits when the estimate said
\* it would at the earliest: every job is done by its limit.
EarliestIsReached ==
    /\ answer # Unread /\ answer.cap.earliest # Never /\ ~disturbed /\ RoomIsTold
    /\ clock >= answer.cap.earliest /\ \A j \in jobs : j.end > clock
    => RoomNow

\* The associations leave no choice of QOS, or the caller made it.
QosDecided ==
    case.rows = {} \/ \E a \in Candidates : \E r \in Grants(a) :
        IF case.qos # NoName THEN case.qos \in r.qos
        ELSE r.default # NoName \/ (case.identified /\ Cardinality(r.qos) = 1)

\* Whether the caller may create pods, as it is read when nobody answers: as no.
ReadAsDenied(v) == case.by = "kubernetes" /\ v.category = "NOT_ENTITLED"

\* Something is published of the QOS that the control plane chose; or else the one
\* whose ceilings are taken in its place is no other's.
ChosenIsPublished(a) ==
    \/ a.verdict.effective \in {NoName} \cup DOMAIN case.published
    \/ case.qos # NoName \/ case.limitSet \in DOMAIN case.published
    \/ \A r, s \in case.rows : Decides(r) = Decides(s)

Welcome ==
    /\ case.entitled /\ (case.declared \/ ~case.identified) /\ Operational(nodesRead) = {}
    /\ QosDecided /\ CeilingKnown(answer) /\ ChosenIsPublished(answer) /\ \A qos \in JobQos : ~OverCeiling(qos)

\* A caller whom the queue takes, with a request under every ceiling, is not told
\* otherwise because the control plane was out, the budget ran out, the accounts
\* could not be read, a QOS had to be named, or a ceiling is somebody else's; a
\* script that goes by the exit status of `where` does not give up a job that the
\* scheduler then starts; and
\* a confirmed caller is one whom the queue takes, whatever a site's filter said
\* (model.py: only "you are not permitted here" is a lasting fact).  Kubernetes
\* falls short of it where its server cannot be reached.
TakersAreReachable ==
    answer # Unread =>
        /\ (Welcome => Reachable(answer) \/ ReadAsDenied(answer.verdict))
        /\ (Welcome /\ started /\ CardsSaid /\ case.lost \in {{}, Nodes}
            => WhereStatus(answer) = 0 \/ ReadAsDenied(answer.verdict))
        /\ (Confirmed(answer) => case.entitled)
=============================================================================
