------------------------------ MODULE Inventory ------------------------------
(***************************************************************************)
(* What a snapshot says the cluster is, against what the cluster is: the   *)
(* loaders of SnapshotLoad, with the answers they worked with read the way *)
(* the backend reads them (one *Reading module each), and the queues wired *)
(* to the nodes (ClusterModel).                                            *)
(*                                                                         *)
(* A table says whose backend it is (kind) and names, for every version of *)
(* the cluster, a truth: its hosts and its queues, and what of them the    *)
(* backend's supplementary commands say, or fail to (lost).                *)
(***************************************************************************)
EXTENDS SnapshotLoad, ClusterModel

CONSTANTS
    Truth,       \* name -> truth
    NameOrder,   \* the names of the hosts, sorted
    Spelling,    \* name -> text
    MaxExpansion

Hosts == INSTANCE Hostlist

Slurm == INSTANCE SlurmReading
Pbs == INSTANCE PbsReading
Lsf == INSTANCE LsfReading
Sge == INSTANCE SgeReading
Kubernetes == INSTANCE KubernetesReading
SshPool == INSTANCE SshPoolReading

Kinds == {"slurm", "pbs", "lsf", "sge", "kubernetes", "sshpool"}

\* The commands without which the loaders of nodes and of queues come to nothing.
Needed(kind, l) ==
    CASE kind = "slurm" -> IF l = "nodes" THEN {"show node"} ELSE {"show partition"}
      [] kind = "pbs" -> IF l = "nodes" THEN {"pbsnodes"} ELSE {"qstat json", "pbsnodes"}
      [] kind = "lsf" -> IF l = "nodes" THEN {"bhosts"} ELSE {"bqueues", "bhosts"}
      [] kind = "sge" -> IF l = "nodes" THEN {"qhost"} ELSE {"qconf -sql", "qhost"}
      [] kind = "kubernetes" ->
           IF l = "nodes" THEN {"nodes and pods"} ELSE {"namespaces", "nodes and pods"}
      [] kind = "sshpool" -> {}

\* Two moments of one cluster.
Steady(kind, t, u) ==
    /\ kind = "lsf" => Lsf!Steady(t, u)
    /\ kind = "kubernetes" => Kubernetes!Steady(t, u)

Possible(kind, t) ==
    CASE kind = "slurm" -> Slurm!Possible(t)
      [] kind = "pbs" -> Pbs!Possible(t)
      [] kind = "lsf" -> Lsf!Possible(t)
      [] kind = "sge" -> Sge!Possible(t)
      [] kind = "kubernetes" -> Kubernetes!Possible(t)
      [] kind = "sshpool" -> SshPool!Possible(t)

ASSUME InventoryAssumption ==
    /\ \A t \in Tables : t.kind \in Kinds /\ t.history \in [1 .. MaxVersion -> DOMAIN Truth]
    /\ IsInjective(NameOrder) /\ IsInjective(Spelling) /\ DOMAIN Spelling = Range(NameOrder)
    /\ MaxExpansion \in Nat \ {0}

\* Each loader reads what it needs, and raises where it cannot be had; only PBS
\* asks a second time, in another form.
ASSUME LoadersAssumption ==
    \A t \in Tables :
        /\ {"nodes", "queues"} \subseteq t.loaders
        /\ \A l \in {"nodes", "queues"} : \A c \in Needed(t.kind, l) :
              /\ c \in Range(t.reads[l])
              /\ <<l, c>> \notin t.tolerated
              /\ t.instead[c] = IF c = "qstat json" THEN "qstat text" ELSE NoCommand
        /\ t.kind = "pbs" =>
              /\ "qstat text" \in t.commands /\ <<"queues", "qstat text">> \notin t.tolerated
              /\ t.instead["qstat text"] = NoCommand
        /\ t.kind = "slurm" => "config" \in t.commands
        /\ t.kind = "lsf" => "bmgroup" \in t.commands
        /\ t.kind = "sshpool" => t.pool # <<>> /\ t.pool \in Seq(t.commands)

\* A table's truths are of one cluster, and of one that may be.
ASSUME TruthAssumption ==
    \A t \in Tables : \A v \in 1 .. MaxVersion :
        LET truth == Truth[t.history[v]] IN
        /\ Possible(t.kind, truth)
        /\ DOMAIN truth.hosts \subseteq DOMAIN Spelling
        /\ t.kind = "sshpool" => Range(t.pool) \subseteq DOMAIN truth.hosts
        /\ \A w \in 1 .. MaxVersion : Steady(t.kind, truth, Truth[t.history[w]])

\* The cluster, as the loader's answer describes it.
Has(l, c) == used[l][c] > Unasked
At(l, c) == Truth[table.history[used[l][c]]]

-----------------------------------------------------------------------------
(* The nodes of the snapshot: those of the loader of nodes, or none.       *)

\* A machine of a pool is asked by its own name.
Heard == {h \in Range(table.pool) : Has("nodes", h)}

\* What the loader of nodes read, if it did not fail.
NodesRead ==
    CASE table.kind = "slurm" ->
           LET known == Has("nodes", "config")
           IN Slurm!Nodes(At("nodes", "show node"), known,
                          IF known THEN At("nodes", "config").config ELSE <<>>)
      [] table.kind = "pbs" -> Pbs!Nodes(At("nodes", "pbsnodes"))
      [] table.kind = "lsf" -> Lsf!Nodes(At("nodes", "bhosts"))
      [] table.kind = "sge" -> Sge!Nodes(At("nodes", "qhost"))
      [] table.kind = "kubernetes" -> Kubernetes!Nodes(At("nodes", "nodes and pods"))
      [] table.kind = "sshpool" ->
           SshPool!Nodes(table.pool, [h \in Heard |-> At("nodes", h).hosts[h]])

SnapshotNodes == IF "nodes" \in errors THEN <<>> ELSE NodesRead

\* The form of `qstat -Qf` that worked.
QstatForm == IF Has("queues", "qstat json") THEN "qstat json" ELSE "qstat text"

\* The loader of queues, with the nodes that it read for itself.
QueuesRead ==
    CASE table.kind = "slurm" -> Slurm!Queues(At("queues", "show partition"))
      [] table.kind = "pbs" ->
           Pbs!Queues(At("queues", QstatForm), Pbs!Nodes(At("queues", "pbsnodes")))
      [] table.kind = "lsf" ->
           LET known == Has("queues", "bmgroup")
           IN Lsf!Queues(At("queues", "bqueues"), Lsf!Nodes(At("queues", "bhosts")), known,
                         IF known THEN At("queues", "bmgroup") ELSE <<>>)
      [] table.kind = "sge" ->
           Sge!Queues(At("queues", "qconf -sql"), Sge!Nodes(At("queues", "qhost")))
      [] table.kind = "kubernetes" ->
           Kubernetes!Queues(At("queues", "namespaces"),
                             Kubernetes!Nodes(At("queues", "nodes and pods")))
      [] table.kind = "sshpool" -> SshPool!Queues(table.pool)

SnapshotQueues == IF "queues" \in errors THEN <<>> ELSE QueuesRead

\* What a command about the queues `wanted` makes of it: a report, a refusal to
\* report of a name it never saw, or of what the control plane never supplied.
Fatal(nodes, queues) == DOMAIN nodes = {} \/ (DOMAIN queues = {} /\ "queues" \in errors)
Unknown(wanted, queues) == wanted \ DOMAIN queues
ExitStatus(wanted, nodes, queues) ==
    IF Fatal(nodes, queues) THEN 3 ELSE IF Unknown(wanted, queues) # {} THEN 2 ELSE 0

\* The names picked for `exclude --unschedulable`, sorted.
InOrder(names) == SelectSeq(NameOrder, LAMBDA h : h \in names)
Unschedulable(nodes) == {h \in DOMAIN nodes : ~Schedulable(nodes[h])}
Picked == InOrder(Unschedulable(SnapshotNodes))

\* As one argument of a submission.
Separator(kind) ==
    CASE kind = "pbs" -> <<"+">> [] kind = "lsf" -> <<" ">> [] OTHER -> Hosts!Comma

FormatNodelist(kind, names) ==
    LET texts == [i \in DOMAIN names |-> Spelling[names[i]]]
    IN  IF kind = "slurm" THEN Hosts!Collapse(texts) ELSE Hosts!Joined(texts, Separator(kind))

-----------------------------------------------------------------------------
(* The same, as it really was at the time.                                 *)

\* Which command of the loader of nodes lists them, and which of the loader of
\* queues lists the queues, and the hosts they are wired to.
NodesBy == CASE table.kind = "slurm" -> "show node" [] table.kind = "pbs" -> "pbsnodes"
             [] table.kind = "lsf" -> "bhosts" [] table.kind = "sge" -> "qhost"
             [] table.kind = "kubernetes" -> "nodes and pods"
QueuesBy == CASE table.kind = "slurm" -> "show partition" [] table.kind = "pbs" -> QstatForm
              [] table.kind = "lsf" -> "bqueues" [] table.kind = "sge" -> "qconf -sql"
              [] table.kind = "kubernetes" -> "namespaces"
MembersBy == IF table.kind = "slurm" THEN "show partition" ELSE NodesBy

\* The hosts that were read of, each when it was.
HostsThen ==
    IF "nodes" \in errors THEN <<>>
    ELSE IF table.kind = "sshpool" THEN [h \in Heard |-> At("nodes", h).hosts[h]]
    ELSE At("nodes", NodesBy).hosts

QueueThen(q) ==
    IF table.kind = "sshpool" THEN [service |-> "open", who |-> "all", members |-> Range(table.pool)]
    ELSE At("queues", QueuesBy).queues[q]

\* Every name a queue has at some time, and those the listing really had.
Names == UNION {DOMAIN truth.queues : truth \in {u \in Range(Truth) : "queues" \in DOMAIN u}}
QueuesThen ==
    CASE "queues" \in errors -> {}
      [] table.kind = "sshpool" -> DOMAIN SnapshotQueues
      [] OTHER -> DOMAIN At("queues", QueuesBy).queues

\* A host that is not restricted to a queue serves all of them, but a queue that
\* only routes has no hosts of its own.  PBS and Grid Engine have it from the host
\* which queues it serves.
MembersThen(q) ==
    IF table.kind = "sshpool" THEN Range(table.pool)
    ELSE IF QueueThen(q).service = "routes" THEN {}
    ELSE LET t == At("queues", MembersBy)
             own == IF table.kind \in {"pbs", "sge"}
                    THEN UNION {t.queues[p].members : p \in DOMAIN t.queues \cap {q}}
                    ELSE QueueThen(q).members
         IN (own \cup t.unrestricted) \cap DOMAIN t.hosts

\* Memory is behind what is spare, as far as the configuration was read.
Backed(h) ==
    table.kind = "slurm" /\ Has("nodes", "config")
        /\ At("nodes", "config").config.consumable /\ h.mem > 0
    => h.mem - h.holds.mem >= Max({1, At("nodes", "config").config.floor})

\* What the backend is known to lose of what is held: less than a core for every
\* container, and the slots taken of any instance but the one listed last.
Blurred(h) ==
    CASE table.kind = "kubernetes" ->
           SumFunction([i \in DOMAIN h.pods |-> Len(h.pods[i].containers) + Len(h.pods[i].inits)])
      [] table.kind = "sge" ->
           SumFunction([i \in 1 .. Len(h.instances) - 1 |-> h.instances[i].used])
      [] OTHER -> 0

\* Whose hosts in service a queue can start jobs on.
Startable(q, hosts) ==
    IF ~StartsJobs(QueueThen(q)) THEN {}
    ELSE {h \in MembersThen(q) \cap DOMAIN hosts : InService(hosts[h]) /\ Backed(hosts[h])}

-----------------------------------------------------------------------------
(* Correctness.                                                            *)

\* What is said to be free of a queue was, on the hosts that could start its jobs.
RoomWasThere(said, nodes, hosts, there) ==
    /\ FreeCpus(said, nodes) <= SumFunction([h \in there |-> SpareCores(hosts[h]) + Blurred(hosts[h])])
    /\ FreeGpus(said, nodes) <= SumFunction([h \in there |-> SpareCards(hosts[h])])
    /\ FreeNodes(said, nodes)
           <= Cardinality({h \in there : Untouched(hosts[h]) \/ Blurred(hosts[h]) > 0})
RoomsWereThere(nodes, queues, hosts) ==
    \A q \in DOMAIN queues : RoomWasThere(queues[q], nodes, hosts, Startable(q, hosts))

\* "Capacity on the screen that no job can have" is what the backends take such
\* pains over: whatever a queue is said to have free, nobody holds, on hosts that
\* are its own and in service, with memory behind it; and where the queue starts
\* nothing, nothing is free.
RoomIsReal == Reported => RoomsWereThere(SnapshotNodes, SnapshotQueues, HostsThen)

\* What the scheduler excludes on such an argument.
ReadBack(kind, line) ==
    IF kind = "slurm" THEN Hosts!Expand(line)
    ELSE Hosts!SplitCommas([i \in DOMAIN line |-> IF line[i] = Separator(kind) THEN Hosts!Comma ELSE line[i]])
Excluded(kind, names) ==
    LET read == Range(ReadBack(kind, FormatNodelist(kind, names)))
    IN  {h \in DOMAIN Spelling : Spelling[h] \in read}

\* Of any of the hosts, that is those.
ASSUME ListsAreReadBack ==
    \A kind \in Kinds : \A names \in SUBSET DOMAIN Spelling : Excluded(kind, InOrder(names)) = names

\* What takes no work is kept out, and nothing that is in service.
OnlyTheBroken(excluded, nodes, hosts) ==
    \A h \in DOMAIN nodes \cap DOMAIN hosts :
        /\ ~InService(hosts[h]) /\ hosts[h].service # "in part" => h \in excluded
        /\ InService(hosts[h]) => h \notin excluded

\* "State cannot be determined" is no evidence of health, and "busy, not broken" no
\* fault: whatever word the scheduler has for it, a submission that excludes what
\* `exclude --unschedulable` prints is kept from every host that takes no work, and
\* from no host in service, however full.
OutOfServiceIsExcluded == Reported => OnlyTheBroken(Excluded(table.kind, Picked), SnapshotNodes, HostsThen)

\* A report is made of all that was had, and of no queue that there was not.
KnownIsReported(nodes, queues) ==
    \A wanted \in {{}} \cup {{q} : q \in Names} :
        (ExitStatus(wanted, nodes, queues) = 0)
            = (errors \cap {"nodes", "queues"} = {} /\ wanted \subseteq QueuesThen)

\* A queue has the hosts that are its own, or says that some are missing.
MembersAreSaid(nodes, queues) ==
    \A q \in DOMAIN queues :
        MembersThen(q) \subseteq Wired(queues[q], nodes) \/ Unresolved(queues[q], nodes) > 0

\* "Reported, never guessed at": where a host of a queue is not among its nodes,
\* the queue says that some of it is unresolved; and where the nodes or the queues
\* could not be had at all, or the scheduler has no queue of that name, and only
\* there, no report is made (cli.py: "an empty answer and an unobtainable one are
\* different claims", "a confident answer to a question that was never really
\* asked").
MissingIsSaid ==
    Reported =>
        /\ KnownIsReported(SnapshotNodes, SnapshotQueues)
        /\ MembersAreSaid(SnapshotNodes, SnapshotQueues)

\* "A shared answer is still fetched exactly once": what two loaders share is one
\* reading, of any backend.
OneReading ==
    \A c \in Kept : \A l, k \in Loaders :
        used[l][c] > Unasked /\ used[k][c] > Unasked => used[l][c] = used[k][c]
=============================================================================
