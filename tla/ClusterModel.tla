---------------------------- MODULE ClusterModel ----------------------------
(***************************************************************************)
(* The node and the queue of core/model.py, which every backend fills in,  *)
(* and the wiring of the one to the other by Cluster.load                  *)
(* (core/cluster.py).                                                      *)
(*                                                                         *)
(* A node is what Capacity takes for one, with the conditions it is in and *)
(* the queues it names.  A queue is enabled and started or not; its lists  *)
(* of users, groups, accounts and QOS name "all", "some" or "none"; it may *)
(* need a reservation, or forward to other queues; names are the hosts the *)
(* backend resolved it to, and declared is how many it claims.             *)
(*                                                                         *)
(* An amount of cores is counted in Units: a scheduler of whole cores has  *)
(* one to a core.                                                          *)
(***************************************************************************)
EXTENDS Capacity, Sequences, FiniteSetsExt, Functions

BlockingConditions == {"DOWN", "DRAIN", "MAINT", "FAIL", "UNKNOWN", "RESERVED", "POWERSAVE"}

\* Acceptance, not emptiness: a full node is schedulable.
Schedulable(n) == n.conditions \cap BlockingConditions = {}
Idle(n) == Schedulable(n) /\ n.cpusHeld = 0 /\ n.gpusHeld = 0

\* What is free with memory behind it.
EffectiveFreeCpus(n) == IF MemoryExhausted(n) THEN 0 ELSE CpusFree(n)
EffectiveFreeGpus(n) == IF MemoryExhausted(n) THEN 0 ELSE GpusFree(n)
RoomOn(n) == Schedulable(n) /\ EffectiveFreeCpus(n) + EffectiveFreeGpus(n) > 0

\* A record that says nothing of the machine: where it is read as out of
\* service, nothing is concluded from its zeros.
Blank(condition) ==
    [conditions |-> {condition}, cpus |-> 0, cpusHeld |-> 0, mem |-> 0, memHeld |-> 0,
     gpus |-> 0, gpusHeld |-> 0, consumable |-> TRUE, floor |-> 0, queues |-> {}]

\* A queue that says nothing of itself is open to everybody.
PlainQueue ==
    [enabled |-> TRUE, started |-> TRUE, accounts |-> "all", qos |-> "all",
     users |-> "all", groups |-> "all", reserved |-> FALSE, routes |-> FALSE,
     names |-> {}, declared |-> 0]

-----------------------------------------------------------------------------
(* Cluster.load: q.nodes.  N is what was read of the nodes, by name.       *)

\* Each host once, however often it was named.
Wired(q, N) == q.names \cap DOMAIN N

Unresolved(q, N) == AtLeastZero(q.declared - Cardinality(Wired(q, N)))

StructuralBlockers(q, N) ==
    {b \in {"QUEUE_DISABLED", "QUEUE_NOT_STARTED", "NO_ACCOUNTS", "NO_QOS", "NO_USERS",
            "ALL_NODES_UNSCHEDULABLE", "REQUIRES_RESERVATION"} :
        \/ b = "QUEUE_DISABLED" /\ ~q.enabled
        \/ b = "QUEUE_NOT_STARTED" /\ q.enabled /\ ~q.started
        \/ b = "NO_ACCOUNTS" /\ q.accounts = "none"
        \/ b = "NO_QOS" /\ q.qos = "none"
        \/ b = "NO_USERS" /\ q.users = "none"
        \/ b = "ALL_NODES_UNSCHEDULABLE" /\ ~q.routes /\ Wired(q, N) # {}
             /\ \A h \in Wired(q, N) : ~Schedulable(N[h])
        \/ b = "REQUIRES_RESERVATION" /\ q.reserved}

Usable(q, N) == StructuralBlockers(q, N) \subseteq {"REQUIRES_RESERVATION"}

\* Room of a queue: nothing where no job could start at all.
FreeCpus(q, N) ==
    IF ~Usable(q, N) THEN 0
    ELSE SumFunction([h \in Wired(q, N) |-> IF Schedulable(N[h]) THEN EffectiveFreeCpus(N[h]) ELSE 0])
FreeGpus(q, N) ==
    IF ~Usable(q, N) THEN 0
    ELSE SumFunction([h \in Wired(q, N) |-> IF Schedulable(N[h]) THEN EffectiveFreeGpus(N[h]) ELSE 0])
FreeNodes(q, N) ==
    IF ~Usable(q, N) THEN 0 ELSE Cardinality({h \in Wired(q, N) : Idle(N[h]) /\ RoomOn(N[h])})

-----------------------------------------------------------------------------
(* A host and a queue as they are, which is what the scheduler knows: what *)
(* its commands print of them is each backend's.  A host has cores, mem    *)
(* and cards, holds so much of each for jobs, is held whole by one of them *)
(* or not, and is in service or is not for one reason or another.          *)

Held(cpus, mem, cards) == [cpus |-> cpus, mem |-> mem, cards |-> cards]

InService(h) == h.service \in {"up", "planned", "powering up", "busy"}

\* What no job has.
SpareCores(h) == IF h.whole THEN 0 ELSE h.cores - h.holds.cpus
SpareCards(h) == IF h.whole THEN 0 ELSE h.cards - h.holds.cards
Untouched(h) == ~h.whole /\ h.holds.cpus = 0 /\ h.holds.cards = 0

\* A queue starts jobs of somebody or it does not.
StartsJobs(q) == q.service = "open" /\ q.who # "nobody"

\* There are hosts, and nobody holds more of one than it has.
ClusterOK(t) ==
    /\ IsFiniteSet(DOMAIN t.hosts) /\ DOMAIN t.hosts # {}
    /\ \A name \in DOMAIN t.hosts :
          LET h == t.hosts[name] IN
          /\ h.cores \in Nat /\ h.mem \in Nat /\ h.cards \in Nat /\ h.whole \in BOOLEAN
          /\ h.holds.cpus \in 0 .. h.cores /\ h.holds.mem \in Nat /\ h.holds.cards \in 0 .. h.cards
    /\ \A q \in DOMAIN t.queues : IsFiniteSet(t.queues[q].members)

\* No job has a host to itself but by holding all of it.
Shared(t) == \A name \in DOMAIN t.hosts : ~t.hosts[name].whole

\* Whoever holds cards holds cores as well.
CardsNeedCores(t) ==
    \A name \in DOMAIN t.hosts :
        t.hosts[name].holds.cards > 0 => t.hosts[name].holds.cpus > 0
=============================================================================
