---------------------------- MODULE MCInventory ----------------------------
(* Tables of the six backends, and what the cluster is before and after it  *)
(* changes, for TLC.  A command stands for what one loader runs to read one *)
(* thing; a command that no loader shares is left out where its loader      *)
(* reads no other and nothing here is made of it.                           *)
EXTENDS Inventory, SequencesExt, TLC

Host(service, cores, mem, cards, holds) ==
    [service |-> service, cores |-> cores, mem |-> mem, cards |-> cards,
     holds |-> holds, whole |-> FALSE]
Queue(service, who, members) == [service |-> service, who |-> who, members |-> members]

\* The hosts of a queue that takes all there are.
Every == {"h1", "h2", "h3", "h4", "h5", "h6", "h7", "h8", "h9", "h10", "h11", "h12"}

\* The words of the commands, and how a later version words them: with a flag
\* more, behind the sub-command.
MCFlags ==
    {"--all", "--oneliner", "-nP", "format=", "-a", "-F", "-Qf", "-w", "-l", "-q", "-sql",
     "-srqsl", "-o", "BatchMode=yes", "--all-namespaces", "--later"}
Later(line) ==
    LET flags == {i \in DOMAIN line : line[i] \in MCFlags}
        n == IF flags = {} THEN Len(line) ELSE Min(flags) - 1
    IN  InsertAt(line, n + 1, "--later")
Worded(words) == [argv |-> words, later |-> [c \in DOMAIN words |-> Later(words[c])]]

None == Held(0, 0, 0)
Some == Held(1, 1, 1)

-----------------------------------------------------------------------------
(* Slurm: a host for every word, half of them with something left.  In the  *)
(* second version the services have moved on by one host, and one host has   *)
(* left the cluster and another come.                                        *)

SlurmServices ==
    <<"up", "powering up", "drained", "maintenance", "planned", "reserved",
      "blocked", "powered down", "down", "lost", "cut short">>
SlurmName == <<"h1", "h2", "h3", "h4", "h5", "h6", "h7", "h8", "h9", "h10", "h11", "h12">>
SlurmHosts(shift) ==
    [h \in {SlurmName[i + shift] : i \in 1 .. 11} |->
        LET i == CHOOSE i \in 1 .. 12 : SlurmName[i] = h
        IN Host(SlurmServices[(i % 11) + 1], 2, 4, 2,
                CASE i % 4 = 0 -> None [] i % 4 = 1 -> Some [] i % 4 = 2 -> Held(1, 3, 0)
                  [] i % 4 = 3 -> Held(2, 2, 1))]
SlurmTruth(shift, consumable, floor) ==
    LET hosts == SlurmHosts(shift) IN
    [hosts |-> hosts,
     queues |-> "batch" :> Queue("open", "all", DOMAIN hosts)
         @@ "few" :> Queue("open", "some", {"h3", "h11", SlurmName[11 * shift + 1]})
         @@ "hidden" :> Queue("open", "nobody", {"h2", "h3"})
         @@ "halted" :> Queue(IF shift = 0 THEN "stopped" ELSE "open", "all", {"h10", "h11"})
         @@ "shut" :> Queue(IF shift = 0 THEN "open" ELSE "closed", "all", {"h10", "h11"}),
     config |-> [consumable |-> consumable, floor |-> floor],
     unrestricted |-> {}, lost |-> {}]

SlurmCommands == {"config", "show node", "show partition", "show assoc"}
SlurmTable(history) ==
    [kind |-> "slurm", history |-> history, pool |-> <<>>,
     loaders |-> {"warm", "nodes", "queues", "identity"}, commands |-> SlurmCommands,
     reads |-> "warm" :> <<"config">> @@ "nodes" :> <<"show node", "config">>
         @@ "queues" :> <<"show partition">>
         @@ "identity" :> <<"show assoc", "config">>,
     kept |-> {"config"}, latched |-> {"config"},
     tolerated |-> {"warm", "nodes", "identity"} \X {"config"},
     instead |-> [c \in SlurmCommands |-> NoCommand], locked |-> TRUE]
    @@ Worded("config" :> <<"scontrol", "show", "config">>
        @@ "show node" :> <<"scontrol", "show", "node", "--all", "--oneliner">>
        @@ "show partition" :> <<"scontrol", "show", "partition", "--all">>
        @@ "show assoc" :> <<"sacctmgr", "-nP", "show", "assoc", "where", "format=">>)

-----------------------------------------------------------------------------
(* PBS: the queues need the nodes, and the limits are read out of the       *)
(* queues.                                                                  *)

PbsServices ==
    <<"up", "up", "drained", "down", "lost", "stale", "maintenance", "reserved", "powered down", "up">>
PbsName == <<"h1", "h2", "h3", "h4", "h5", "h6", "h7", "h8", "h9", "h10", "h11">>
PbsTruth(shift) ==
    LET hosts == [h \in {PbsName[i + shift] : i \in 1 .. 10} |->
            LET i == CHOOSE i \in 1 .. 11 : PbsName[i] = h
                service == PbsServices[((i + 9) % 10) + 1]
            IN [Host(service, 2, 2, 1, IF i % 2 = 0 THEN None ELSE Held(1, 1, 0))
                   EXCEPT !.whole = service = "up" /\ i = 2]]
    IN [hosts |-> hosts,
        queues |-> "work" :> Queue("open", "all", {"h2", "h4", "h6", "h8", "h10"})
            @@ "own" :> Queue("open", "nobody", {"h3", "h5", "h7", "h9"})
            @@ "gate" :> Queue("routes", "all", {})
            @@ "halted" :> Queue(IF shift = 0 THEN "stopped" ELSE "open", "some", {"h10"})
            @@ "shut" :> Queue(IF shift = 0 THEN "open" ELSE "disabled", "all", {"h10", "h2"}),
        unrestricted |-> {"h1", "h11"}, lost |-> {}]

PbsCommands == {"pbsnodes", "qstat json", "qstat text"}
PbsTable(history) ==
    [kind |-> "pbs", history |-> history, pool |-> <<>>,
     loaders |-> {"nodes", "queues", "limits"}, commands |-> PbsCommands,
     reads |-> "nodes" :> <<"pbsnodes">> @@ "queues" :> <<"qstat json", "pbsnodes">>
         @@ "limits" :> <<"qstat json">>,
     kept |-> PbsCommands, latched |-> {"qstat json"}, tolerated |-> {},
     instead |-> [c \in PbsCommands |->
         IF c = "qstat json" THEN "qstat text" ELSE NoCommand],
     locked |-> TRUE]
    @@ Worded("pbsnodes" :> <<"pbsnodes", "-a", "-F", "json">>
        @@ "qstat json" :> <<"qstat", "-Qf", "-F", "json">> @@ "qstat text" :> <<"qstat", "-Qf">>)

-----------------------------------------------------------------------------
(* LSF: the loaders share the hosts and the queues, without a lock.         *)

LsfServices == <<"up", "busy", "drained", "reserved", "window", "lost", "down", "unheard of", "up">>
LsfName == <<"h1", "h2", "h3", "h4", "h5", "h6", "h7", "h8", "h9", "h10">>
LsfTruth(shift, lost) ==
    LET hosts == [h \in {LsfName[i + shift] : i \in 1 .. 9} |->
            LET i == CHOOSE i \in 1 .. 10 : LsfName[i] = h
                full == Held(2, 0, 0)
            IN Host(LsfServices[((i + shift + 8) % 9) + 1], 2, 2, 1,
                    CASE i % 3 = 0 -> None [] i % 3 = 1 -> Held(1, 0, 1) [] i % 3 = 2 -> full)
               @@ [suspended |-> IF i \in {1, 5} THEN 1 ELSE 0, dashed |-> i = 4, slots |-> 2]]
    IN [hosts |-> hosts,
        queues |-> "normal" :> (Queue("open", "all", Every) @@ [spelled |-> "all"])
            @@ "group" :> (Queue("open", "some", {"h1", "h2", "h9"}) @@ [spelled |-> "big"])
            @@ "named" :> (Queue("open", "all", {"h1", "h5", "h10"}) @@ [spelled |-> "by name"])
            @@ "idle" :> (Queue("stopped", "all", {"h1", "h9"}) @@ [spelled |-> "by name"])
            @@ "shut" :> (Queue("closed", "all", {"h1", "h9"}) @@ [spelled |-> "by name"]),
        groups |-> "big" :> {"h1", "h2", "h9"}, unrestricted |-> {}, lost |-> lost]

LsfCommands == {"bhosts", "bqueues", "bmgroup"}
LsfTable(history) ==
    [kind |-> "lsf", history |-> history, pool |-> <<>>,
     loaders |-> {"nodes", "queues", "limits"}, commands |-> LsfCommands,
     reads |-> "nodes" :> <<"bhosts">> @@ "queues" :> <<"bqueues", "bhosts", "bmgroup">>
         @@ "limits" :> <<"bqueues">>,
     kept |-> {"bhosts", "bqueues"}, latched |-> {}, tolerated |-> {<<"queues", "bmgroup">>},
     instead |-> [c \in LsfCommands |-> NoCommand], locked |-> FALSE]
    @@ Worded("bhosts" :> <<"bhosts", "-w">> @@ "bqueues" :> <<"bqueues", "-l">>
        @@ "bmgroup" :> <<"bmgroup", "-w">>)

-----------------------------------------------------------------------------
(* Grid Engine: a host serves one queue or two.                             *)

SgeServices == <<"up", "busy", "lost", "drained", "calendar", "suspended", "failed", "in part", "up">>
SgeTruth(shift, lost) ==
    LET hosts == [h \in {LsfName[i + shift] : i \in 1 .. 9} |->
            LET i == CHOOSE i \in 1 .. 10 : LsfName[i] = h
                one == [queue |-> "all.q", used |-> IF i % 2 = 0 THEN 0 ELSE 1]
                two == [queue |-> "gpu.q", used |-> IF i % 3 = 0 THEN 0 ELSE 1]
            IN Host(SgeServices[((i + shift + 8) % 9) + 1], 3, 2, 2,
                    Held(one.used + (IF i < 8 THEN two.used ELSE 0), 1, one.used * (i % 3)))
               @@ [instances |-> IF i < 8 THEN <<one, two>> ELSE <<one>>]]
    IN [hosts |-> hosts,
        queues |-> "all.q" :> Queue("open", "all", Every)
            @@ "gpu.q" :> Queue("open", "some", {LsfName[i] : i \in 1 .. 7}),
        unrestricted |-> {}, lost |-> lost]

\* The quota sets are read in one of the tables only.
SgeTable(history, limits) ==
    LET commands == {"qhost", "qconf -sql"} \cup (IF limits THEN {"qconf -srqsl"} ELSE {})
        words == "qhost" :> <<"qhost", "-q", "-F">> @@ "qconf -sql" :> <<"qconf", "-sql">>
            @@ "qconf -srqsl" :> <<"qconf", "-srqsl">>
        reads == "nodes" :> <<"qhost">> @@ "queues" :> <<"qconf -sql", "qhost">>
            @@ "limits" :> <<"qconf -srqsl">>
        loaders == {"nodes", "queues"} \cup (IF limits THEN {"limits"} ELSE {})
    IN  [kind |-> "sge", history |-> history, pool |-> <<>>,
         loaders |-> loaders, commands |-> commands, reads |-> Restrict(reads, loaders),
         kept |-> {"qhost"}, latched |-> {}, tolerated |-> (loaders \ {"nodes", "queues"}) \X {"qconf -srqsl"},
         instead |-> [c \in commands |-> NoCommand], locked |-> FALSE]
        @@ Worded(Restrict(words, commands))

-----------------------------------------------------------------------------
(* Kubernetes: a pod with its init containers and its sidecar.              *)

Asks(halves, mem, cards) == Held(halves, mem, cards)
InitContainer(request, sidecar) == [asks |-> request, sidecar |-> sidecar]
Pod(phase, containers, inits, overhead) ==
    [phase |-> phase, containers |-> containers, inits |-> inits, overhead |-> overhead]

\* Pods with what they hold: in whole cores, rounded up.
Plain == [pod |-> Pod("Running", <<Asks(2, 1, 0)>>, <<>>, None), holds |-> Held(1, 1, 0)]
Heavy == \* its init container asks for more than the rest of it
    [pod |-> Pod("Pending", <<Asks(2, 1, 0)>>, <<InitContainer(Asks(6, 1, 1), FALSE)>>, None),
     holds |-> Held(3, 1, 1)]
Flanked == \* a sidecar beside two containers that share a core
    [pod |-> Pod("Running", <<Asks(1, 0, 0), Asks(1, 1, 1)>>, <<InitContainer(Asks(2, 1, 0), TRUE)>>, Asks(2, 0, 0)),
     holds |-> Held(3, 2, 1)]
Over == [pod |-> Pod("Failed", <<Asks(4, 2, 1)>>, <<>>, None), holds |-> None]

KubeHost(service, pods) ==
    Host(service, 4, 4, 2,
         Held(FoldSeq(+, 0, [i \in DOMAIN pods |-> pods[i].holds.cpus]),
              FoldSeq(+, 0, [i \in DOMAIN pods |-> pods[i].holds.mem]),
              FoldSeq(+, 0, [i \in DOMAIN pods |-> pods[i].holds.cards])))
    @@ [pods |-> [i \in DOMAIN pods |-> pods[i].pod]]
KubeTruth(hosts, shut) ==
    [hosts |-> hosts,
     queues |-> "default" :> Queue("open", "all", Every)
         @@ "leaving" :> Queue(IF shut THEN "closed" ELSE "open", "all", Every),
     unrestricted |-> {}, lost |-> {}]
KubeBefore ==
    "h1" :> KubeHost("up", <<Heavy>>) @@ "h2" :> KubeHost("up", <<Flanked, Plain>>)
        @@ "h3" :> KubeHost("drained", <<>>) @@ "h4" :> KubeHost("down", <<Plain>>)
        @@ "h5" :> KubeHost("up", <<Over>>)
KubeAfter ==
    "h1" :> KubeHost("drained", <<>>) @@ "h2" :> KubeHost("lost", <<Flanked>>)
        @@ "h3" :> KubeHost("up", <<Heavy, Plain>>) @@ "h5" :> KubeHost("up", <<Plain, Over>>)
        @@ "h6" :> KubeHost("up", <<>>)

KubeCommands == {"nodes and pods", "namespaces", "quota"}
KubeTable(history) ==
    [kind |-> "kubernetes", history |-> history, pool |-> <<>>,
     loaders |-> {"nodes", "queues", "limits"}, commands |-> KubeCommands,
     reads |-> "nodes" :> <<"nodes and pods">>
         @@ "queues" :> <<"namespaces", "quota", "nodes and pods">> @@ "limits" :> <<"quota">>,
     kept |-> {"nodes and pods", "quota"}, latched |-> {}, tolerated |-> {<<"queues", "quota">>},
     instead |-> [c \in KubeCommands |-> NoCommand], locked |-> FALSE]
    @@ Worded("nodes and pods" :> <<"kubectl", "get", "nodes", "-o", "json">>
        @@ "namespaces" :> <<"kubectl", "get", "namespaces", "-o", "json">>
        @@ "quota" :> <<"kubectl", "get", "resourcequota", "--all-namespaces", "-o", "json">>)

-----------------------------------------------------------------------------
(* A pool of machines, one of them listed twice: its second answer is       *)
(* dropped.                                                                 *)

PoolHost(service, load, held, each) ==
    Host(service, 4, 4, Len(each),
         Held(held, 1, Cardinality({i \in DOMAIN each : each[i] # "free"})))
    @@ [load |-> load, each |-> each]
PoolTruth(hosts) == [hosts |-> hosts, unrestricted |-> {}, lost |-> {}]
PoolBefore == "h1" :> PoolHost("up", 1, 1, <<"free", "held">>)
    @@ "h2" :> PoolHost("up", 11, 4, <<"unmeasured", "unmeasured">>)
PoolAfter == "h1" :> PoolHost("up", 0, 0, <<"free", "free">>)
    @@ "h2" :> PoolHost("down", 0, 0, <<>>)
PoolTable(history, pool) ==
    LET again == Len(pool) > 2
        commands == {"h1", "h2"} \cup (IF again THEN {"h1 again"} ELSE {})
        Ssh(host) == <<"ssh", "-o", "BatchMode=yes", host, "script">>
        words == "h1" :> Ssh("h1") @@ "h2" :> Ssh("h2") @@ "h1 again" :> Ssh("h1")
    IN  [kind |-> "sshpool", history |-> history, pool |-> pool,
         loaders |-> {"nodes", "queues"}, commands |-> commands,
         reads |-> "nodes" :> <<"h1", "h2">> \o (IF again THEN <<"h1 again">> ELSE <<>>)
            @@ "queues" :> <<>>,
         kept |-> {}, latched |-> {}, tolerated |-> {"nodes"} \X commands,
         instead |-> [c \in commands |-> NoCommand], locked |-> FALSE]
        @@ Worded(Restrict(words, commands))

-----------------------------------------------------------------------------
MCTruth ==
    "slurm 1" :> SlurmTruth(0, TRUE, 2) @@ "slurm 2" :> SlurmTruth(1, TRUE, 2)
    @@ "slurm 3" :> SlurmTruth(1, FALSE, 0)
    @@ "pbs 1" :> PbsTruth(0) @@ "pbs 2" :> PbsTruth(1)
    @@ "lsf 1" :> LsfTruth(0, {}) @@ "lsf 2" :> LsfTruth(1, {})
    @@ "lsf 3" :> LsfTruth(1, {"lshosts", "bhosts -gpu"})
    @@ "sge 1" :> SgeTruth(0, {}) @@ "sge 2" :> SgeTruth(1, {}) @@ "sge 3" :> SgeTruth(1, {"qconf"})
    @@ "kube 1" :> KubeTruth(KubeBefore, FALSE) @@ "kube 2" :> KubeTruth(KubeAfter, TRUE)
    @@ "pool 1" :> PoolTruth(PoolBefore) @@ "pool 2" :> PoolTruth(PoolAfter)

\* One table of each backend is replayed by a later version as well.
Alone(t) == [t EXCEPT !.later = t.argv]
MCUnlocked ==
    {LsfTable(<<"lsf 1", "lsf 2">>), Alone(LsfTable(<<"lsf 2", "lsf 1">>)),
     Alone(LsfTable(<<"lsf 1", "lsf 3">>)),
     Alone(SgeTable(<<"sge 1", "sge 2">>, FALSE)), Alone(SgeTable(<<"sge 2", "sge 1">>, FALSE)),
     SgeTable(<<"sge 3", "sge 3">>, TRUE),
     KubeTable(<<"kube 1", "kube 2">>), Alone(KubeTable(<<"kube 2", "kube 1">>))}
MCTables ==
    {Alone(SlurmTable(<<"slurm 1", "slurm 2">>)), SlurmTable(<<"slurm 3", "slurm 3">>),
     PbsTable(<<"pbs 1", "pbs 2">>), Alone(PbsTable(<<"pbs 2", "pbs 1">>)),
     PoolTable(<<"pool 1", "pool 2">>, <<"h1", "h2", "h1">>),
     PoolTable(<<"pool 2", "pool 1">>, <<"h1", "h2">>)}
    \cup MCUnlocked
\* Sorted as text, and written as it is.
MCNameOrder == <<"h1", "h10", "h11", "h12", "h2", "h3", "h4", "h5", "h6", "h7", "h8", "h9">>
MCSpelling ==
    LET spelt(n, w) == <<Hosts!Word("h"), Hosts!Digits(n, w)>>
    IN  [h \in Every |-> LET n == CHOOSE i \in 1 .. 12 : SlurmName[i] = h
                         IN spelt(n, IF n < 10 THEN 1 ELSE 2)]
MCEveryone == UNION {t.loaders : t \in MCTables}
=============================================================================
