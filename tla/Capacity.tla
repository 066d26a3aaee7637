------------------------------ MODULE Capacity ------------------------------
(***************************************************************************)
(* What a set of nodes, as they were read, can host of a job's shape       *)
(* (core/capacity.py, and the free amounts of core/model.py Node).         *)
(*                                                                         *)
(* A reading of a node is a record: cpus, mem and gpus it has, what of     *)
(* each is handed out (cpusHeld, memHeld, gpusHeld), whether it is up,     *)
(* whether it is tainted, whether memory is consumable there, the floor    *)
(* below which no memory is handed out, and its accelerator: Unidentified, *)
(* or [able, size, certain].  A memory of 0 is one nobody reported.        *)
(*                                                                         *)
(* A shape asks, of each of a number of nodes, cpus, mem and gpus (0: not  *)
(* named), a capability (able), an accelerator size (0: none), and says    *)
(* whether it tolerates taints and which nodes to exclude.                 *)
(***************************************************************************)
EXTENDS Integers, FiniteSets

Unidentified == [able |-> FALSE, size |-> 0, certain |-> FALSE]

AtLeastZero(i) == IF i < 0 THEN 0 ELSE i

CpusFree(n) == AtLeastZero(n.cpus - n.cpusHeld)
MemFree(n) == AtLeastZero(n.mem - n.memHeld)
GpusFree(n) == AtLeastZero(n.gpus - n.gpusHeld)

MemoryExhausted(n) ==
    n.consumable /\ n.mem > 0 /\ MemFree(n) < (IF n.floor > 1 THEN n.floor ELSE 1)

NeedsGpu(shape) == shape.gpus > 0
AsksOfTheCard(shape) == shape.able \/ shape.size > 0

-----------------------------------------------------------------------------
(* hardware_ok: blind to state and occupancy.                              *)

CardReasons(n, shape) ==
    IF n.card # Unidentified
    THEN {r \in {"size", "capability"} :
              \/ r = "size" /\ n.card.size < shape.size
              \/ r = "capability" /\ shape.able /\ ~n.card.able}
    ELSE {r \in {"unverified"} : n.gpus > 0 /\ AsksOfTheCard(shape)}

\* Seeded bug: a memory nobody reported is read as a size.
SizeReasonsUnread(n, shape) ==
    {r \in {"cpus", "memory", "taint"} :
        \/ r = "cpus" /\ n.cpus < shape.cpus
        \/ r = "memory" /\ n.mem < shape.mem
        \/ r = "taint" /\ n.tainted /\ ~shape.tolerates}

SizeReasons(n, shape) ==
    {r \in {"cpus", "memory", "taint"} :
        \/ r = "cpus" /\ n.cpus < shape.cpus
        \/ r = "memory" /\ n.mem > 0 /\ n.mem < shape.mem
        \/ r = "taint" /\ n.tainted /\ ~shape.tolerates}

HardwareReasons(n, shape) ==
    (IF ~NeedsGpu(shape) THEN {}
     ELSE CardReasons(n, shape)
          \cup {r \in {"accelerators"} : n.gpus = 0 \/ n.gpus < shape.gpus})
    \cup SizeReasons(n, shape)

HardwareOk(n, shape) == HardwareReasons(n, shape) = {}

\* node_fits: right now.  A shortage of memory counts unless none was named
\* and some is left.
NodeFits(name, n, shape) ==
    /\ n.up
    /\ name \notin shape.exclude
    /\ HardwareOk(n, shape)
    /\ NeedsGpu(shape) => GpusFree(n) >= shape.gpus
    /\ CpusFree(n) >= shape.cpus
    /\ ~MemoryExhausted(n)
    /\ MemFree(n) >= shape.mem

-----------------------------------------------------------------------------
(* assess_capacity.                                                        *)

Never == -1

\* The least time at which k of the nodes in C are free by F; F is a partial
\* function, and a node it does not have is never free.
EarliestOf(F, C, k) ==
    LET By(t) == Cardinality({n \in C \cap DOMAIN F : F[n] <= t})
        Times == {F[n] : n \in C \cap DOMAIN F}
    IN  IF \E t \in Times : By(t) >= k
        THEN CHOOSE t \in Times : By(t) >= k /\ \A u \in Times : By(u) >= k => t <= u
        ELSE Never

\* Seeded bug: one busy node too few is waited for.
EarliestNeededLess(F, C, fitting, shape) ==
    IF fitting >= shape.nodes THEN Never
    ELSE EarliestOf(F, C, IF shape.nodes - fitting > 1 THEN shape.nodes - fitting - 1 ELSE 1)

EarliestNeeded(F, C, fitting, shape) ==
    IF fitting >= shape.nodes THEN Never ELSE EarliestOf(F, C, shape.nodes - fitting)

\* N is a function from the names of the nodes to their readings.
Assess(N, shape, F, complete) ==
    LET hardware == {n \in DOMAIN N \ shape.exclude : HardwareOk(N[n], shape)}
        fitting == {n \in DOMAIN N : NodeFits(n, N[n], shape)}
        capable == {n \in hardware \ fitting : N[n].up}
    IN  [considered |-> Cardinality(DOMAIN N),
         required |-> IF complete THEN shape.nodes ELSE 0,
         hardware |-> hardware,
         fitting |-> fitting,
         capable |-> capable,
         unverified |-> {n \in DOMAIN N : "unverified" \in HardwareReasons(N[n], shape)},
         earliest |-> EarliestNeeded(F, capable, Cardinality(fitting), shape)]

EverPossible(cap) ==
    IF cap.hardware = {} THEN cap.considered = 0 /\ cap.required = 0
    ELSE Cardinality(cap.hardware) >= cap.required

TooFewNodes(cap) == cap.hardware # {} /\ Cardinality(cap.hardware) < cap.required

Satisfies(cap, shape) == Cardinality(cap.fitting) >= shape.nodes
=============================================================================
