-------------------------- MODULE KubernetesReading --------------------------
(* What backends/kubernetes.py makes of the nodes, the pods and the         *)
(* namespaces of a cluster.  A pod is [phase, containers, inits, overhead]; *)
(* what is requested is Held(...), with its CPU in half cores.  An init     *)
(* container also says whether it is a sidecar.                             *)
EXTENDS ClusterModel

\* _quantity_to_cpu: whole cores, rounded down.
WholeCores(halves) == halves \div 2

\* _resource_triple.
Triple(requests) == [requests EXCEPT !.cpus = WholeCores(@)]

\* The most that any of some containers asks of one resource.
Highest(asked) == Max({0} \cup Range(asked))

\* _pod_request, of one resource: the larger of the two phases has to fit, and a
\* sidecar runs in both.
PodRequest(pod, r) ==
    LET inits == pod.inits
        regular == SumFunction([i \in DOMAIN pod.containers |-> Triple(pod.containers[i])[r]])
        beside == SumFunction([i \in DOMAIN inits |-> IF inits[i].sidecar THEN Triple(inits[i].asks)[r] ELSE 0])
        peak == Highest([i \in DOMAIN inits |-> IF inits[i].sidecar THEN 0 ELSE Triple(inits[i].asks)[r]])
    IN Max({regular + beside, peak + beside}) + Triple(pod.overhead)[r]

Terminal(pod) == pod.phase \in {"Succeeded", "Failed"}

\* A pod that ended holds nothing.
Requested(h, r) ==
    SumFunction([i \in DOMAIN h.pods |-> IF Terminal(h.pods[i]) THEN 0 ELSE PodRequest(h.pods[i], r)])

\* Ready is True, or it is False or Unknown; a cordon is in the specification.
ReadyIsTrue(h) == h.service \notin {"down", "lost"}

Node(h) ==
    [conditions |-> {c \in {"DOWN", "DRAIN"} :
         \/ c = "DOWN" /\ ~ReadyIsTrue(h)
         \/ c = "DRAIN" /\ h.service = "drained"},
     cpus |-> h.cores, cpusHeld |-> Requested(h, "cpus"),
     mem |-> h.mem, memHeld |-> Requested(h, "mem"),
     gpus |-> h.cards, gpusHeld |-> Requested(h, "cards"),
     consumable |-> TRUE, floor |-> 0, queues |-> {}]

Nodes(t) == [h \in DOMAIN t.hosts |-> Node(t.hosts[h])]

\* A namespace is Active or Terminating, and may place a pod on any node.
Queues(t, N) ==
    [q \in DOMAIN t.queues |->
        [PlainQueue EXCEPT
            !.enabled = t.queues[q].service = "open", !.started = t.queues[q].service = "open",
            !.names = DOMAIN N, !.declared = Cardinality(DOMAIN N)]]

-----------------------------------------------------------------------------
\* What is reserved for a pod while one of its init containers runs, beside the
\* sidecars, or (0) when its containers do.
Stages(pod) == {0} \cup {i \in DOMAIN pod.inits : ~pod.inits[i].sidecar}
AtStage(pod, i, r) ==
    pod.overhead[r]
    + SumFunction([k \in DOMAIN pod.inits |-> IF pod.inits[k].sidecar THEN pod.inits[k].asks[r] ELSE 0])
    + IF i = 0 THEN SumFunction([k \in DOMAIN pod.containers |-> pod.containers[k][r]])
      ELSE pod.inits[i].asks[r]
Reserved(pod, r) == Max({AtStage(pod, i, r) : i \in Stages(pod)})

\* The whole cores that half cores come to.
CoresFor(halves) == (halves + 1) \div 2

AsksOK(asks) == asks \in [cpus : Nat, mem : Nat, cards : Nat]
PodOK(pod) ==
    /\ DOMAIN pod.containers = 1 .. Len(pod.containers) /\ Len(pod.containers) \in Nat \ {0}
    /\ DOMAIN pod.inits = 1 .. Len(pod.inits) /\ Len(pod.inits) \in Nat
    /\ AsksOK(pod.overhead)
    /\ \A i \in DOMAIN pod.containers : AsksOK(pod.containers[i])
    /\ \A i \in DOMAIN pod.inits : AsksOK(pod.inits[i].asks) /\ pod.inits[i].sidecar \in BOOLEAN

\* A cluster of Kubernetes: what is held of a host is what is reserved for the
\* pods on it that have not ended.
Possible(t) ==
    /\ ClusterOK(t) /\ Shared(t)
    /\ \A name \in DOMAIN t.hosts :
          LET h == t.hosts[name]
              live == {i \in DOMAIN h.pods : ~Terminal(h.pods[i])} IN
          /\ h.service \in {"up", "drained", "down", "lost"}
          /\ DOMAIN h.pods = 1 .. Len(h.pods) /\ Len(h.pods) \in Nat
          /\ \A i \in DOMAIN h.pods : PodOK(h.pods[i])
          /\ h.holds.cpus = SumFunction([i \in live |-> CoresFor(Reserved(h.pods[i], "cpus"))])
          /\ h.holds.cards = SumFunction([i \in live |-> Reserved(h.pods[i], "cards")])
    /\ \A q \in DOMAIN t.queues : t.queues[q].service \in {"open", "closed"} /\ t.queues[q].who # "nobody"

\* Of two moments of one cluster: a namespace's hosts are all there are.
Steady(t, u) == \A q \in DOMAIN t.queues : DOMAIN u.hosts \subseteq t.queues[q].members
=============================================================================
