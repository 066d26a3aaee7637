----------------------------- MODULE LsfReading -----------------------------
(* What backends/lsf.py makes of `bhosts -w`, `lshosts -w`, `bhosts -gpu`, *)
(* `bqueues -l` and `bmgroup -w`.                                          *)
EXTENDS ClusterModel

\* STATUS, as `bhosts -w` writes it.
Status(h) ==
    CASE h.service = "up" -> IF h.holds.cpus = h.cores THEN "closed_full" ELSE "ok"
      [] h.service = "busy" -> "closed_busy"
      [] h.service = "drained" -> "closed_adm"
      [] h.service = "reserved" -> "closed_excl"
      [] h.service = "window" -> "closed_wind"
      [] h.service = "lost" -> "closed_lim"
      [] h.service = "down" -> "unavail"
      [] h.service = "unheard of" -> "closed_ego"

\* Seeded bug: a status that the table does not have is no condition.
ConditionsListed(status) ==
    CASE status \in {"unavail", "unreach", "unlicensed", "closed_lim"} -> {"DOWN"}
      [] status \in {"closed_adm", "closed_lock", "closed_wind"} -> {"DRAIN"}
      [] status \in {"closed_excl", "closed_cu_excl"} -> {"RESERVED"}
      [] OTHER -> {}

\* _condition_for: busy is not broken, and what is not in the table is not known.
Conditions(status) ==
    CASE status \in {"unavail", "unreach", "unlicensed", "closed_lim"} -> {"DOWN"}
      [] status \in {"closed_adm", "closed_lock", "closed_wind"} -> {"DRAIN"}
      [] status \in {"closed_excl", "closed_cu_excl"} -> {"RESERVED"}
      [] status \in {"closed_full", "closed_busy", "ok"} -> {}
      [] OTHER -> {"UNKNOWN"}

\* NJOBS counts what is held, RUN what of it executes; NJOBS may be a dash.
Running(h) == h.holds.cpus - h.suspended
Njobs(h) == IF h.dashed THEN 0 ELSE h.holds.cpus

\* Seeded bug: a suspended job has given its slots back.
DispatchedRuns(h) == Running(h)

Dispatched(h) == Max({Njobs(h), Running(h)})

\* Without `lshosts` the slots stand for the cores, and there is no memory;
\* without `bhosts -gpu` there are no cards.
Node(t, h) ==
    [conditions |-> Conditions(Status(h)),
     cpus |-> IF "lshosts" \in t.lost THEN h.slots ELSE h.cores,
     cpusHeld |-> Dispatched(h),
     mem |-> IF "lshosts" \in t.lost THEN 0 ELSE h.mem, memHeld |-> 0,
     gpus |-> IF "bhosts -gpu" \in t.lost THEN 0 ELSE h.cards,
     gpusHeld |-> IF "bhosts -gpu" \in t.lost THEN 0 ELSE h.holds.cards,
     consumable |-> TRUE, floor |-> 0, queues |-> {}]

Nodes(t) == [h \in DOMAIN t.hosts |-> Node(t, t.hosts[h])]

\* HOSTS of a queue: hosts by name, a group, or "all".
Tokens(t, p) ==
    IF p.spelled = "by name" THEN p.members ELSE {p.spelled}

\* Seeded bug: what does not resolve is left out.
ResolveQuietly(t, p, known, groups) ==
    [members |-> {h \in known : h \in Tokens(t, p)}, unresolved |-> 0]

\* resolve_hosts.  Whatever begins with "all" is every host.
Resolve(t, p, known, groups) ==
    IF p.spelled \in {"all", "allgpu"} THEN [members |-> known, unresolved |-> 0]
    ELSE LET here == {x \in Tokens(t, p) : x \in known}
             grouped == {x \in Tokens(t, p) : x \notin known /\ x \in DOMAIN groups}
         IN [members |-> here \cup UNION {groups[x] \cap known : x \in grouped},
             unresolved |-> Cardinality(Tokens(t, p) \ (here \cup grouped))]

\* load_queues.  t is of `bqueues`, N what this loader read of the nodes, and g
\* is of `bmgroup`, which it does without.
Queues(t, N, known, g) ==
    LET groups == IF known THEN g.groups ELSE <<>> IN
    [q \in DOMAIN t.queues |->
        LET p == t.queues[q]
            r == Resolve(t, p, DOMAIN N, groups)
        IN [PlainQueue EXCEPT
               !.enabled = p.service # "closed", !.started = p.service # "stopped",
               !.users = IF p.who = "all" THEN "all" ELSE "some",
               !.names = r.members, !.declared = Cardinality(r.members) + r.unresolved]]

-----------------------------------------------------------------------------
\* A cluster of LSF.  MAX is no more than the cores, NJOBS is a dash only where
\* nothing is suspended, and a queue's HOSTS that begins with "all" is "all".
Possible(t) ==
    /\ ClusterOK(t) /\ Shared(t) /\ CardsNeedCores(t) /\ t.unrestricted = {}
    /\ \A name \in DOMAIN t.hosts :
          LET h == t.hosts[name] IN
          /\ h.service \in {"up", "busy", "drained", "reserved", "window", "lost", "down", "unheard of"}
          /\ h.slots \in 0 .. h.cores /\ h.suspended \in 0 .. h.holds.cpus
          /\ h.dashed \in BOOLEAN /\ (h.dashed => h.suspended = 0)
    /\ \A q \in DOMAIN t.queues :
          LET p == t.queues[q] IN
          /\ p.service \in {"open", "stopped", "closed"} /\ p.who # "nobody"
          /\ p.spelled \in {"by name", "all"} \cup DOMAIN t.groups
    /\ DOMAIN t.groups \cap {"by name", "all", "allgpu"} = {}

\* Of two moments of one cluster: the host groups are the same, and are what the
\* queues they stand for have; no group has the name of a host; and a queue of all
\* hosts is one of those that come.
Steady(t, u) ==
    /\ t.groups = u.groups
    /\ \A q \in DOMAIN t.queues :
          LET p == t.queues[q] IN
          /\ DOMAIN u.groups \cap (p.members \cup DOMAIN u.hosts) = {}
          /\ p.spelled = "all" => DOMAIN u.hosts \subseteq p.members
          /\ p.spelled \in DOMAIN u.groups => p.members = u.groups[p.spelled]
=============================================================================
