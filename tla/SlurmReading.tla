---------------------------- MODULE SlurmReading ----------------------------
(* What backends/slurm.py makes of `scontrol show node`, `show partition`  *)
(* and `show config`.                                                      *)
EXTENDS ClusterModel

\* How a controller writes the state of a host that is ...: a base state, with
\* flags.  A record cut short has none.
Words(h) ==
    LET base == {IF h.holds.cpus > 0 THEN "MIXED" ELSE "IDLE"}
    IN CASE h.service = "up" -> base
         [] h.service = "planned" -> base \cup {"PLANNED"}
         [] h.service = "powering up" -> base \cup {"POWERING_UP"}
         [] h.service = "drained" -> base \cup {"DRAIN"}
         [] h.service = "maintenance" -> base \cup {"MAINT"}
         [] h.service = "reserved" -> base \cup {"RESERVED"}
         [] h.service = "blocked" -> base \cup {"BLOCKED"}
         [] h.service = "powered down" -> base \cup {"POWERED_DOWN"}
         [] h.service = "down" -> {"DOWN"}
         [] h.service = "lost" -> {"DOWN", "NOT_RESPONDING"}
         [] h.service = "not responding" -> base \cup {"NOT_RESPONDING"}
         [] h.service = "cut short" -> {}

\* _FLAG_TO_CONDITION, _BASE_TO_CONDITION and _FLAG_TO_NOTE.  A word in none of
\* them says nothing.
Conditions(words) ==
    {c \in {"DRAIN", "FAIL", "MAINT", "POWERSAVE", "RESERVED", "UNKNOWN", "DOWN", "PLANNED"} :
        \/ c = "DRAIN" /\ words \cap {"DRAIN", "DRAINING", "DRAINED"} # {}
        \/ c = "FAIL" /\ words \cap {"FAIL", "FAILING", "ERROR"} # {}
        \/ c = "MAINT" /\ words \cap {"MAINT", "REBOOT", "REBOOT_REQUESTED", "REBOOT_ISSUED"} # {}
        \/ c = "POWERSAVE" /\ words \cap {"POWER_DOWN", "POWERING_DOWN", "POWERED_DOWN"} # {}
        \/ c = "RESERVED" /\ words \cap {"BLOCKED", "PERFCTRS", "NPC", "RESERVED"} # {}
        \/ c = "UNKNOWN" /\ words \cap {"UNKNOWN", "INVAL"} # {}
        \/ c = "DOWN" /\ words \cap {"DOWN", "FUTURE"} # {}
        \/ c = "PLANNED" /\ "PLANNED" \in words}

\* What is known of the memory: a configuration that could not be read says that
\* it is consumable, and gives no floor.
Consumable(known, config) == ~known \/ config.consumable
Floor(known, config) == IF known /\ config.consumable THEN config.floor ELSE 0

Node(h, known, config) ==
    IF Words(h) = {} THEN Blank("UNKNOWN")
    ELSE [conditions |-> Conditions(Words(h)),
          cpus |-> h.cores, cpusHeld |-> h.holds.cpus,
          mem |-> h.mem, memHeld |-> h.holds.mem,
          gpus |-> h.cards, gpusHeld |-> h.holds.cards,
          consumable |-> Consumable(known, config), floor |-> Floor(known, config),
          queues |-> {}]

\* load_nodes.
Nodes(t, known, config) == [h \in DOMAIN t.hosts |-> Node(t.hosts[h], known, config)]

\* parse_queues: UP, DRAIN, INACTIVE or DOWN, which is one switch for two.
\* TotalNodes and Nodes= are the controller's.
Queues(t) ==
    [q \in DOMAIN t.queues |->
        LET p == t.queues[q] IN
        [PlainQueue EXCEPT
            !.enabled = p.service \in {"open", "stopped"}, !.started = p.service = "open",
            !.accounts = IF p.who = "nobody" THEN "none" ELSE p.who,
            !.names = p.members, !.declared = Cardinality(p.members)]]

-----------------------------------------------------------------------------
\* A cluster of Slurm, with its hosts in the states the tables tell apart: one
\* that does not respond is in none.
Possible(t) ==
    /\ ClusterOK(t) /\ Shared(t) /\ t.unrestricted = {}
    /\ t.config.consumable \in BOOLEAN /\ t.config.floor \in Nat
    /\ \A name \in DOMAIN t.hosts :
          t.hosts[name].service \in
              {"up", "planned", "powering up", "drained", "maintenance", "reserved", "blocked",
               "powered down", "down", "lost", "cut short"}
    /\ \A q \in DOMAIN t.queues :
          /\ t.queues[q].service \in {"open", "stopped", "closed"}
          /\ t.queues[q].members \subseteq DOMAIN t.hosts
=============================================================================
