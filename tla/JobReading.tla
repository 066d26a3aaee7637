----------------------------- MODULE JobReading -----------------------------
(***************************************************************************)
(* Which jobs are on a node, and what each holds there: two lists of the   *)
(* whole cluster, `squeue` and `scontrol show job -d` (backends/slurm.py), *)
(* put together by Cluster.jobs_on and share_of (core/cluster.py).         *)
(*                                                                         *)
(* A job as the scheduler knows it: its id, the array and the task it is   *)
(* (<<>>: none), and its groups of nodes, each a list of hosts (Hostlist)  *)
(* with the ranges of cores and the accelerators that the job holds on     *)
(* every one of them.                                                      *)
(***************************************************************************)
EXTENDS Integers, FiniteSets, FiniteSetsExt, Functions, SequencesExt

CONSTANT MaxExpansion

Hosts == INSTANCE Hostlist

-----------------------------------------------------------------------------
(* The jobs as they are.                                                   *)

NodesOf(job) == UNION {Hosts!Names(job.groups[i].list) : i \in DOMAIN job.groups}
CoresOf(group) == UNION {group.cores[i][1] .. group.cores[i][2] : i \in DOMAIN group.cores}

Holds(job, node) ==
    LET group == CHOOSE g \in Range(job.groups) : node \in Hosts!Names(g.list)
    IN  [cpus |-> Cardinality(CoresOf(group)), gpus |-> Len(group.devices)]

\* squeue goes by the array and the task; scontrol by an id, with them beside it.
SqueueName(job) == IF job.array = <<>> THEN <<job.id>> ELSE job.array

\* A line of squeue: the job's cores, what it has of accelerators on a node (%b is
\* a figure for one node), and its nodes in one list.
SqueueLine(job) ==
    [id |-> SqueueName(job),
     nodes |-> Hosts!Written(FlattenSeq([i \in DOMAIN job.groups |-> job.groups[i].list])),
     cpus |-> FoldSet(LAMBDA n, sum : sum + Holds(job, n).cpus, 0, NodesOf(job)),
     gpus |-> Max({Holds(job, n).gpus : n \in NodesOf(job)})]

\* A record of scontrol: a line for every group, with the devices by their index.
ScontrolRecord(job) ==
    [id |-> job.id, array |-> job.array,
     lines |-> [i \in DOMAIN job.groups |->
         LET g == job.groups[i]
         IN [nodes |-> Hosts!Written(g.list), cores |-> g.cores,
             gres |-> IF g.devices = <<>> THEN <<>> ELSE <<Len(g.devices), g.devices>>]]]

-----------------------------------------------------------------------------
(* The two lists as they are read.                                         *)

ParseJobs(jobs) ==
    {LET line == SqueueLine(j)
     IN [id |-> line.id, nodes |-> Hosts!Expand(line.nodes), cpus |-> line.cpus, gpus |-> line.gpus] : j \in jobs}

CountCpuIds(ranges) == FoldLeft(LAMBDA sum, r : sum + r[2] - r[1] + 1, 0, ranges)

\* Seeded bug: what follows the last colon is the count, the index of a device.
GresGpusSplit(gres) == IF gres = <<>> THEN 0 ELSE gres[2][1]

\* The count, without the devices in brackets behind it.
GresGpus(gres) == IF gres = <<>> THEN 0 ELSE gres[1]

\* Seeded bug: a share is looked up under the id of scontrol only.
IdsOwn(record) == {<<record.id>>}

\* A share is registered under both names of its job.
Ids(record) == {<<record.id>>} \cup (IF record.array = <<>> THEN {} ELSE {record.array})

\* parse_allocations, and the dictionary of Cluster.allocations.
ParseAllocations(jobs) ==
    LET shares == UNION {LET record == ScontrolRecord(j) IN
                    UNION {{<<id, node, [cpus |-> CountCpuIds(line.cores), gpus |-> GresGpus(line.gres)]>> :
                               id \in Ids(record), node \in Range(Hosts!Expand(line.nodes))} :
                           line \in Range(record.lines)} : j \in jobs}
    IN  [key \in {<<s[1], s[2]>> : s \in shares} |->
            (CHOOSE s \in shares : <<s[1], s[2]>> = key)[3]]

-----------------------------------------------------------------------------
(* What a frame shows of a node.                                           *)

JobsOn(jobs, node) == {j \in jobs : node \in Range(j.nodes)}

\* Seeded bug: where nothing better is known, the job's totals will do.
ShareOfTotals(job, node, shares) ==
    IF <<job.id, node>> \in DOMAIN shares THEN {shares[<<job.id, node>>]}
    ELSE {[cpus |-> job.cpus, gpus |-> job.gpus]}

\* What the job holds there; the figures of the job, if it is on no other node; or nothing
\* that can be said.
ShareOf(job, node, shares) ==
    IF <<job.id, node>> \in DOMAIN shares THEN {shares[<<job.id, node>>]}
    ELSE IF job.nodes \in {<<>>, <<node>>} THEN {[cpus |-> job.cpus, gpus |-> job.gpus]}
    ELSE {}
=============================================================================
