----------------------------- MODULE MCPlacement -----------------------------
(* Queues of two nodes, and the jobs of others, for Placement.             *)
EXTENDS Placement, TLC

CONSTANTS n1, n2, a1, a2, clay, gold

MCVariants == "A100" :> {1, 2} @@ "H100" :> {2, 3} @@ "RTX6000" :> {1} @@ "RTX6000ADA" :> {2} @@ "GB10" :> {2}
MCFeatures == "A100" :> {"bf16"} @@ "H100" :> {"bf16"} @@ "RTX6000" :> {} @@ "RTX6000ADA" :> {"bf16"}
              @@ "GB10" :> {"bf16"}
MCAliases == <<"RTX6000ADA", "RTX6000", "A100", "H100", "GB10">>

Token(form, parts, size) == [form |-> form, parts |-> parts, size |-> size]
Untold == Token("product", {}, 0)
Ram == Token("other", {}, 2)
Card(able, size, resource, labels) == [able |-> able, size |-> size, resource |-> resource, labels |-> labels]
Machine(cpus, mem, gpus, card) ==
    [cpus |-> cpus, mem |-> mem, gpus |-> gpus, tainted |-> FALSE, card |-> card]

Plain == Machine(2, 2, 0, Card(FALSE, 0, <<>>, <<Ram>>))
Small == Machine(1, 2, 1, Card(FALSE, 1, <<Token("part", {"RTX6000"}, 0)>>, <<>>))
Unheard == [Small EXCEPT !.card = Card(FALSE, 1, <<>>, <<Ram, Untold>>)]
Big == Machine(2, 2, 1, Card(TRUE, 2, <<>>, <<Ram, Token("product", {"RTX6000", "RTX6000ADA"}, 0)>>))
Fenced == [Big EXCEPT !.tainted = TRUE]

Shape(nodes, cpus, mem, gpus, able, size) ==
    [nodes |-> nodes, cpus |-> cpus, mem |-> mem, gpus |-> gpus, able |-> able,
     size |-> size, tolerates |-> FALSE, exclude |-> <<>>, wall |-> 1]

\* What a run varies is laid over this.
Usual ==
    [machine |-> n1 :> Big @@ n2 :> Big, silent |-> {}, lost |-> {},
     floor |-> 0, accounted |-> TRUE, shape |-> Shape(1, 1, 0, 0, FALSE, 0),
     entitled |-> TRUE, identified |-> TRUE, account |-> NoName, qos |-> NoName, declared |-> TRUE,
     state |-> "up", caps |-> NoCaps, published |-> NoCaps, unlisted |-> FALSE, limitSet |-> NoName,
     rows |-> {}, by |-> "slurm", probing |-> FALSE]

WorkOn(n, cpus, mem, gpus, end) == [on |-> n, cpus |-> cpus, mem |-> mem, gpus |-> gpus, end |-> end]
Shapes == {Shape(1, 1, 0, 0, FALSE, 0), Shape(2, 1, 1, 0, FALSE, 0), Shape(1, 2, 0, 0, FALSE, 0),
           Shape(1, 1, 2, 1, TRUE, 0), Shape(2, 1, 0, 1, FALSE, 2),
           [Shape(2, 1, 0, 1, FALSE, 0) EXCEPT !.tolerates = TRUE]}

TwoShapes == {Shape(1, 1, 2, 1, TRUE, 0), Shape(2, 1, 0, 0, FALSE, 0)}

\* Lists of nodes to keep away from: of both, by a range that runs down; of the
\* second, as the names are padded; of the second, among others; and of neither.
Numbers(lo, wide, hi, wider) == Hosts!Ranges(<< <<Hosts!Digits(lo, wide), Hosts!Digits(hi, wider)>> >>)
Gn == Hosts!Literal(<<Hosts!Word("gn")>>)
MCSpelling == n1 :> <<Hosts!Word("gn"), Hosts!Digits(9, 1)>> @@ n2 :> <<Hosts!Word("gn"), Hosts!Digits(10, 2)>>
MCLists ==
    {<< <<Gn, Numbers(10, 2, 9, 1)>> >>, << <<Gn, Numbers(8, 2, 10, 2)>> >>,
     << <<Hosts!Literal(<<Hosts!Word("cn")>>),
          Hosts!Ranges(<< <<Hosts!Digits(1, 1), Hosts!Digits(2, 1)>>, <<Hosts!Digits(9, 1), Hosts!Digits(9, 1)>> >>)>>,
        <<Gn, Hosts!Literal(<<Hosts!Digits(1, 1)>>),
          Hosts!Ranges(<< <<Hosts!Digits(3, 1), Hosts!Digits(5, 1)>>, <<Hosts!Digits(0, 1), Hosts!Digits(0, 1)>> >>)>> >>,
     << <<Gn, Hosts!Literal(<<Hosts!Digits(9, 2)>>)>>, <<Hosts!Literal(<<Hosts!Word("gn")>>)>> >>}

\* Everything is known that the hardware is judged by, or nothing was resolved.
MCKnown ==
    {[Usual EXCEPT !.machine = n1 :> a @@ n2 :> b, !.shape = s] :
        a \in {Small}, b \in {Plain, Fenced}, s \in Shapes}
    \cup {[Usual EXCEPT !.silent = {n1, n2}, !.shape = s] : s \in TwoShapes}
    \cup {[Usual EXCEPT !.accounted = FALSE, !.floor = 2, !.shape = s] : s \in TwoShapes}
    \cup {[Usual EXCEPT !.lost = {n1, n2}, !.shape = s] : s \in TwoShapes}
    \cup {[Usual EXCEPT !.shape = [Shape(k, 1, 0, 0, FALSE, 0) EXCEPT !.exclude = l]] : k \in {1, 2}, l \in MCLists}
    \cup {[Usual EXCEPT !.floor = 2, !.shape = Shape(k, 1, 0, 0, FALSE, 0)] : k \in {1, 2}}

\* Cards nobody recognises, nodes that do not resolve, and a dry-run wanted.
MCGate ==
    {[Usual EXCEPT !.machine = n1 :> a @@ n2 :> b, !.lost = l, !.shape = s, !.probing = TRUE] :
        a \in {Small, Unheard}, b \in {Plain, Big}, l \in {{}, {n2}},
        s \in {Shape(1, 1, 0, 1, TRUE, 0), Shape(2, 1, 0, 1, FALSE, 2)}}

\* A card of two sizes, under the words that sites have for it, and one of a size
\* that no word makes sure.
A100(size, resource, labels) == Machine(2, 2, 1, Card(TRUE, size, resource, labels))
Bare == Token("part", {"A100"}, 0)
Sized(size) == Token("sized", {"A100"}, size)
Product(size) == Token("product", {"A100"}, size)
MCCards ==
    {[Usual EXCEPT !.machine = n1 :> Plain @@ n2 :> a, !.shape = Shape(1, 1, 0, 1, TRUE, s), !.probing = s = 2] :
        s \in {1, 2},
        a \in {A100(2, <<>>, <<Ram, Product(2)>>), A100(2, <<Bare>>, <<Sized(2)>>),
               A100(1, <<Sized(2)>>, <<Sized(1)>>), A100(1, <<Bare>>, <<Token("sized", {"H100"}, 2)>>),
               A100(1, <<Bare>>, <<Token("glued", {"A100"}, 2), Product(1)>>),
               A100(1, <<>>, <<Token("embedded", {"RTX6000"}, 2), Product(1)>>),
               A100(1, <<Sized(2)>>, <<Token("slice", {"A100"}, 2)>>), A100(2, <<>>, <<Product(2), Bare>>),
               A100(2, <<Token("sized", {"GB10"}, 2)>>, <<>>)}}

\* Who asks, what the queue says of them, and what the queue is.
Modest == [Usual EXCEPT !.machine = n1 :> Plain @@ n2 :> Small]
MCWho ==
    {[Modest EXCEPT !.entitled = e, !.identified = k, !.declared = d, !.probing = p] :
        e \in BOOLEAN, k \in BOOLEAN, d \in BOOLEAN, p \in BOOLEAN}
    \cup {[Modest EXCEPT !.state = s, !.entitled = e, !.probing = TRUE] :
        s \in {"stopped", "disabled", "nobody"}, e \in BOOLEAN}
    \cup {[Modest EXCEPT !.caps = c, !.probing = TRUE] : c \in {"cpu" :> 1, "wall" :> 0, "node" :> 1}}
    \cup {[Modest EXCEPT !.entitled = e, !.identified = FALSE, !.account = a1, !.declared = FALSE,
                         !.probing = TRUE] : e \in BOOLEAN}
    \cup {[Modest EXCEPT !.entitled = e, !.by = b, !.probing = TRUE] : e \in BOOLEAN, b \in {"sge", "kubernetes"}}

\* Limit sets under one name and another, as each scheduler publishes them; the
\* job asks for two cores.
Slurm(wall, user, job, field, garbled) ==
    [by |-> "slurm", wall |-> wall, user |-> user, job |-> job,
     garbled |-> [f \in {"wall", "user", "job"} |-> IF f = field THEN garbled ELSE {}]]
Cores(n) == Slurm(NoCaps, NoCaps, "cpu" :> n, "job", {})
Row(account, queue, qos, default) == [account |-> account, queue |-> queue, qos |-> qos, default |-> default]
Two == Shape(1, 2, 1, 0, FALSE, 0)
Limited == [Modest EXCEPT !.shape = Two]

MCSlurm ==
    {[Limited EXCEPT !.limitSet = gold, !.published = gold :> p] :
        p \in {Cores(1), Cores(2), Slurm("wall" :> 0, NoCaps, NoCaps, "wall", {}),
               Slurm(NoCaps, "gpu" :> 0 @@ "cpu" :> 1, NoCaps, "user", {"gpu"}),
               Slurm(NoCaps, NoCaps, "cpu" :> 1, "job", {"cpu"})}}
    \cup {[Limited EXCEPT !.limitSet = gold, !.published = gold :> Cores(1), !.unlisted = TRUE],
          [Limited EXCEPT !.published = Here :> Cores(1)]}
    \cup {[Limited EXCEPT !.limitSet = gold, !.published = gold :> Cores(c) @@ clay :> Cores(3 - c),
                          !.rows = {Row(a1, NoName, {clay}, clay)}] : c \in {1, 2}}

MCAssociated ==
    {[Limited EXCEPT !.published = clay :> Cores(c) @@ gold :> Cores(2), !.rows = r, !.probing = p] :
        c \in {1, 2}, p \in BOOLEAN,
        r \in {{Row(a1, Here, {clay}, NoName)}, {Row(a1, NoName, {clay, gold}, clay)},
               {Row(a1, Here, {clay, gold}, NoName)}, {Row(a1, Elsewhere, {clay}, clay)},
               {Row(a1, Here, {clay}, NoName), Row(a2, Here, {gold}, gold)},
               {Row(a1, Here, {gold}, NoName), Row(a1, NoName, {clay}, clay)}}}
    \cup {[Limited EXCEPT !.published = clay :> Cores(1) @@ gold :> Cores(2), !.qos = q, !.account = a,
                          !.rows = {Row(a1, Here, {clay, gold}, clay)}, !.identified = i, !.probing = TRUE] :
        q \in {NoName, clay, gold}, a \in {NoName, a2}, i \in BOOLEAN}

Entry(kind, entity, cap) == [kind |-> kind, entity |-> entity, cap |-> cap]
Table(table) == [by |-> "pbs", job |-> NoCaps, user |-> "cpu" :> table]
Size(cap, of, under) == [cap |-> cap, of |-> of, under |-> under]
Queue == [by |-> "lsf", user |-> NoCaps, job |-> NoCaps, labels |-> <<>>, cells |-> <<>>,
          files |-> <<"silent", "whole job">>, wholeJob |-> TRUE]
MCQueued ==
    {[Limited EXCEPT !.limitSet = Here, !.published = Here :> p] :
        p \in {Table(<<Entry("u", Elsewhere, 1), Entry("u", Generic, 2)>>),
               Table(<<Entry("u", Elsewhere, 2), Entry("u", Generic, 1)>>),
               Table(<<Entry("u", Generic, 2), Entry("u", Me, 1)>>),
               Table(<<Entry("u", Generic, 1), Entry("u", Me, 2)>>),
               Table(<<Entry("u", Elsewhere, 1), Entry("u", a2, 1)>>),
               Table(<<Entry("g", Generic, 1)>>), Table(<<Entry("u", Elsewhere, 1)>>),
               Table(<<Entry("u", Generic, Garbled)>>),
               [Queue EXCEPT !.user = "cpu" :> 1],
               [Queue EXCEPT !.labels = <<"mem">>, !.cells = <<Size(Unlimited, 1, 1)>>],
               [Queue EXCEPT !.labels = <<"mem">>, !.cells = <<Size(0, 1, 1)>>, !.wholeJob = FALSE,
                             !.files = <<"absent", "process">>],
               [Queue EXCEPT !.labels = <<"core", "mem">>, !.cells = <<Size(2, 1, 1), Size(0, 2, 2)>>],
               [Queue EXCEPT !.labels = <<"core", "mem">>, !.cells = <<Size(0, 1, 1), Size(2, 2, 2)>>],
               [Queue EXCEPT !.labels = <<"core", "two glued", "mem">>,
                             !.cells = <<Size(2, 1, 1), Size(0, 2, 2), Size(0, 2, 2)>>],
               [Queue EXCEPT !.labels = <<"mem", "core">>, !.cells = <<Size(2, 2, 2)>>],
               [Queue EXCEPT !.labels = <<"mem">>, !.cells = <<Size(0, 1, 1)>>, !.files = <<"silent", "absent">>],
               [Queue EXCEPT !.labels = <<"mem">>, !.cells = <<Size(0, 1, 1)>>, !.wholeJob = FALSE,
                             !.files = <<"process", "whole job">>],
               [by |-> "kubernetes", quotas |-> {<< <<"cpu", 2>> >>, << <<"cpu", 1>>, <<"mem", 2>> >>}],
               [by |-> "kubernetes", quotas |-> {<< <<"cpu", 1>>, <<"cpu", 2>> >>}]}}

MCLimits == MCSlurm \cup MCAssociated \cup MCQueued

MCCases == MCKnown \cup MCGate \cup MCCards \cup MCWho \cup MCLimits
MCWork == {WorkOn(n1, 1, 1, 1, 2), WorkOn(n2, 1, 2, 0, 1)}
=============================================================================
