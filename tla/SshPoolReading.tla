--------------------------- MODULE SshPoolReading ---------------------------
(* What backends/sshpool.py makes of a pool of machines without scheduler:  *)
(* each is asked by itself.  Its load is in halves, and every card of it is *)
(* "free", "held" by whoever has memory on it, or "unmeasured".             *)
EXTENDS ClusterModel

\* math.ceil
Ceiling(halves) == (halves + 1) \div 2

\* A card is busy when it holds memory, or may.
BusyCards(h) == Cardinality({i \in DOMAIN h.each : h.each[i] # "free"})

\* A machine that printed nothing is out of reach.
Node(h) ==
    IF h.service # "up" THEN Blank("DOWN")
    ELSE [conditions |-> {},
          cpus |-> h.cores, cpusHeld |-> Min({h.cores, Ceiling(h.load)}),
          mem |-> h.mem, memHeld |-> h.holds.mem,
          gpus |-> Len(h.each), gpusHeld |-> BusyCards(h),
          consumable |-> TRUE, floor |-> 0, queues |-> {"pool"}]

\* load_nodes: heard is what each machine answered, as far as it did.
Nodes(pool, heard) ==
    [h \in Range(pool) |-> IF h \in DOMAIN heard THEN Node(heard[h]) ELSE Blank("DOWN")]

\* One pool, of the machines that were listed.
Queues(pool) == [q \in {"pool"} |-> [PlainQueue EXCEPT !.names = Range(pool), !.declared = Len(pool)]]

-----------------------------------------------------------------------------
\* Machines as they may be: whatever is held of one is behind its load, and its
\* cards are the ones that are listed.
Possible(t) ==
    \A name \in DOMAIN t.hosts :
        LET h == t.hosts[name] IN
        /\ h.service \in {"up", "down"} /\ ~h.whole
        /\ h.cores \in Nat /\ h.load \in Nat /\ h.mem \in Nat
        /\ h.holds.cpus \in 0 .. h.cores /\ h.holds.cpus <= Ceiling(h.load)
        /\ DOMAIN h.each = 1 .. Len(h.each) /\ Len(h.each) \in Nat /\ h.cards = Len(h.each)
        /\ h.holds.cards \in 0 .. BusyCards(h)
=============================================================================
