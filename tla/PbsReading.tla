----------------------------- MODULE PbsReading -----------------------------
(* What backends/pbs.py makes of `pbsnodes -a` and `qstat -Qf`, in either  *)
(* of their forms, which are read by the same rules.                       *)
EXTENDS ClusterModel

\* How a server writes the state of a host, whatever else it is doing.
States(h) ==
    (IF h.whole THEN {"job-exclusive"} ELSE {})
    \cup CASE h.service = "up" -> {s \in {"free"} : ~h.whole}
           [] h.service = "drained" -> {"offline"}
           [] h.service = "down" -> {"down"}
           [] h.service = "lost" -> {"state-unknown", "down"}
           [] h.service = "stale" -> {"stale"}
           [] h.service = "maintenance" -> {"maintenance"}
           [] h.service = "reserved" -> {"resv-exclusive"}
           [] h.service = "powered down" -> {"sleep"}

\* _STATE_TO_CONDITION.
Conditions(states) ==
    {c \in {"DOWN", "DRAIN", "UNKNOWN", "MAINT", "POWERSAVE", "RESERVED"} :
        \/ c = "DOWN" /\ states \cap {"down", "unresolvable"} # {}
        \/ c = "DRAIN" /\ "offline" \in states
        \/ c = "UNKNOWN" /\ states \cap {"state-unknown", "stale"} # {}
        \/ c = "MAINT" /\ states \cap {"maintenance", "provisioning", "wait-provisioning", "initializing"} # {}
        \/ c = "POWERSAVE" /\ "sleep" \in states
        \/ c = "RESERVED" /\ "resv-exclusive" \in states}

\* What resources_assigned says.  A host that was placed whole has its cores
\* assigned, and nothing else accounted for.
Assigned(h) == IF h.whole THEN Held(h.cores, 0, 0) ELSE h.holds

\* _WHOLLY_ALLOCATED.
Whole(h) == States(h) \cap {"job-exclusive", "resv-exclusive"} # {}

\* The Qlist of a host: none, if it is not restricted.
Qlist(t, h) ==
    IF h \in t.unrestricted THEN {} ELSE {q \in DOMAIN t.queues : h \in t.queues[q].members}

Node(t, name) ==
    LET h == t.hosts[name] IN
    [conditions |-> Conditions(States(h)),
     cpus |-> h.cores, cpusHeld |-> IF Whole(h) THEN h.cores ELSE Assigned(h).cpus,
     mem |-> h.mem, memHeld |-> IF Whole(h) THEN h.mem ELSE Assigned(h).mem,
     gpus |-> h.cards, gpusHeld |-> IF Whole(h) THEN h.cards ELSE Assigned(h).cards,
     consumable |-> TRUE, floor |-> 0, queues |-> Qlist(t, name)]

Nodes(t) == [h \in DOMAIN t.hosts |-> Node(t, h)]

\* _queue_from_fields: two switches, and two lists that are on or off; one that
\* is on and empty names nobody.
QueueOf(p) ==
    [PlainQueue EXCEPT
        !.enabled = p.service \in {"open", "stopped", "routes"},
        !.started = p.service \in {"open", "disabled", "routes"},
        !.routes = p.service = "routes",
        !.users = IF p.who = "nobody" THEN "none" ELSE p.who]

\* load_queues: Qlist restricts, and a host without one is every queue's.
Members(q, N) == {h \in DOMAIN N : q \in N[h].queues \/ N[h].queues = {}}

\* N is what this loader read of the nodes, or found read.
Queues(t, N) ==
    [q \in DOMAIN t.queues |->
        LET p == QueueOf(t.queues[q]) IN
        IF p.routes THEN p
        ELSE [p EXCEPT !.names = Members(q, N), !.declared = Cardinality(Members(q, N))]]

-----------------------------------------------------------------------------
\* A cluster of PBS: a host is restricted to some queue or to none.
Possible(t) ==
    /\ ClusterOK(t)
    /\ \A name \in DOMAIN t.hosts :
          /\ t.hosts[name].service \in
                 {"up", "drained", "down", "lost", "stale", "maintenance", "reserved", "powered down"}
          /\ name \in t.unrestricted \/ \E q \in DOMAIN t.queues : name \in t.queues[q].members
    /\ \A q \in DOMAIN t.queues : t.queues[q].service \in {"open", "stopped", "disabled", "routes"}
=============================================================================
