----------------------------- MODULE SgeReading -----------------------------
(* What backends/sge.py makes of `qhost -q -F`, `qstat -f`, `qconf -se` and *)
(* `qconf -sql`.  A host has an instance of every queue it serves, in the   *)
(* order they are listed: [queue, used], used of its slots being taken.     *)
EXTENDS ClusterModel

\* The letters `qstat -f` prints of an instance, which is in no state but the
\* host's, or, where the host is out of service in part, is disabled or not.
Letters(h, i) ==
    CASE h.service = "up" -> {}
      [] h.service = "busy" -> {"a"}
      [] h.service = "lost" -> {"a", "u"}
      [] h.service = "drained" -> {"d"}
      [] h.service = "calendar" -> {"D"}
      [] h.service = "suspended" -> {"s"}
      [] h.service = "failed" -> {"E"}
      [] h.service = "orphaned" -> {"o"}
      [] h.service = "in part" -> IF i = 1 THEN {"d"} ELSE {}

\* _STATE_ALPHABET: a field with another letter is not taken for states.
Alphabet == {"a", "A", "c", "d", "D", "s", "S", "u", "E", "C"}

\* _STATE_LETTERS.
Conditions(letters) ==
    {c \in {"DOWN", "DRAIN", "FAIL", "UNKNOWN"} :
        \/ c = "DOWN" /\ "u" \in letters
        \/ c = "DRAIN" /\ letters \cap {"d", "D", "s", "S", "C"} # {}
        \/ c = "FAIL" /\ "E" \in letters
        \/ c = "UNKNOWN" /\ "o" \in letters}

\* _parse_instance_states: of the instances that have any, the last one's.
InstanceState(h) ==
    LET said == {i \in DOMAIN h.instances : Letters(h, i) # {} /\ Letters(h, i) \subseteq Alphabet}
    IN IF said = {} THEN {} ELSE Letters(h, Max(said))

\* Occupancy is the instance's that is listed last.
SlotsUsed(h) == IF h.instances = <<>> THEN 0 ELSE h.instances[Len(h.instances)].used

\* `qhost` says how many of the cards are available: without `qconf` those are
\* all there are.
Available(h) == h.cards - h.holds.cards

Node(t, h) ==
    LET total == IF "qconf" \in t.lost THEN Available(h) ELSE h.cards IN
    [conditions |-> IF "qstat" \in t.lost THEN {} ELSE Conditions(InstanceState(h)),
     cpus |-> h.cores, cpusHeld |-> SlotsUsed(h),
     mem |-> h.mem, memHeld |-> h.holds.mem,
     gpus |-> total, gpusHeld |-> AtLeastZero(total - Available(h)),
     consumable |-> TRUE, floor |-> 0,
     queues |-> {h.instances[i].queue : i \in DOMAIN h.instances}]

Nodes(t) == [h \in DOMAIN t.hosts |-> Node(t, t.hosts[h])]

\* load_queues: a queue is never disabled but at its instances, and its members
\* are the hosts that list it.
Queues(t, N) ==
    [q \in DOMAIN t.queues |->
        LET members == {h \in DOMAIN N : q \in N[h].queues} IN
        [PlainQueue EXCEPT
            !.users = IF t.queues[q].who = "all" THEN "all" ELSE "some",
            !.names = members, !.declared = Cardinality(members)]]

-----------------------------------------------------------------------------
\* A cluster of Grid Engine, of which `qstat -f` could be had, with its instances
\* in states whose letters are in the alphabet.
Possible(t) ==
    /\ ClusterOK(t) /\ Shared(t) /\ CardsNeedCores(t) /\ t.unrestricted = {} /\ "qstat" \notin t.lost
    /\ \A name \in DOMAIN t.hosts :
          LET h == t.hosts[name] IN
          /\ h.service \in {"up", "busy", "lost", "drained", "calendar", "suspended", "failed", "in part"}
          /\ DOMAIN h.instances = 1 .. Len(h.instances) /\ Len(h.instances) \in Nat \ {0}
          /\ \A i \in DOMAIN h.instances :
                h.instances[i].used \in Nat /\ h.instances[i].queue \in DOMAIN t.queues
          /\ h.holds.cpus = SumFunction([i \in DOMAIN h.instances |-> h.instances[i].used])
          /\ \A q \in DOMAIN t.queues :
                name \in t.queues[q].members <=> \E i \in DOMAIN h.instances : h.instances[i].queue = q
    /\ \A q \in DOMAIN t.queues : t.queues[q].service = "open" /\ t.queues[q].who # "nobody"
=============================================================================
