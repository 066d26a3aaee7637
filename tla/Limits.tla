------------------------------- MODULE Limits -------------------------------
(***************************************************************************)
(* The ceilings a job runs under and the QOS that brings them              *)
(* (core/model.py Limits, Identity; core/cluster.py limits_for, with_qos;  *)
(* core/fit.py _limits_for; load_limits of the backends).                  *)
(*                                                                         *)
(* A ceiling is a cap on an axis: "wall", "node", "cpu", "gpu", "mem".     *)
(* Caps is a function from some of the axes.  A limit set, as it was read, *)
(* is [job, user, unreadable]: the caps on one job and on all of a user's, *)
(* and the fields that held something and could not be read.               *)
(*                                                                         *)
(* Associations are rows [account, queue, qos, default]: the QOS an        *)
(* account may name on a queue (NoName: on every queue that has no row of  *)
(* its own), and which of them it gets when it names none (NoName: none).  *)
(***************************************************************************)
EXTENDS Integers, Sequences, FiniteSetsExt

CONSTANTS
    NoName,     \* where a name could stand and none does
    Here,       \* the name of the queue in question
    Elsewhere,  \* and of another
    Me,         \* the caller's name
    Generic     \* PBS_GENERIC: everybody without a cell of their own

NoCaps == [x \in {} |-> 0]
NoLimits == [job |-> NoCaps, user |-> NoCaps, unreadable |-> {}]

\* The only member of a set, and NoName of one that has none or several.
Only(S) == IF Cardinality(S) = 1 THEN CHOOSE x \in S : TRUE ELSE NoName

-----------------------------------------------------------------------------
(* What a job asks, and which caps that is over.                           *)

Asked(shape) ==
    [wall |-> shape.wall, node |-> shape.nodes, cpu |-> shape.nodes * shape.cpus,
     gpu |-> shape.nodes * shape.gpus, mem |-> shape.nodes * shape.mem]

Exceeded(caps, shape) == {x \in DOMAIN caps : Asked(shape)[x] > caps[x]}

\* All of them soft: a smaller request gets in.
Blockers(l, shape) == Exceeded(l.job, shape) \cup Exceeded(l.user, shape)

-----------------------------------------------------------------------------
(* Which QOS, from the associations.                                       *)

Accounts(rows) == {r.account : r \in rows}

\* One default across every association, or none.
DefaultQos(rows) == Only({r.default : r \in rows} \ {NoName})

\* A row decides if it has a default or permits a single QOS.
Decides(r) == IF r.default # NoName THEN r.default ELSE Only(r.qos)

\* The row of the account for this queue, or its blanket row.  Without an
\* account, what all the rows of this queue say; of several QOS, none.
QosFor(rows, account) ==
    LET at(q) == {r \in rows : r.account = account /\ r.queue = q}
        own == IF at(Here) # {} THEN at(Here) ELSE at(NoName)
        said == {Decides(r) : r \in {s \in rows : s.queue = Here}} \ {NoName}
    IN  IF account # NoName THEN Only({Decides(r) : r \in own})
        ELSE IF Cardinality(said) = 1 THEN Only(said) ELSE DefaultQos(rows)

\* A caller's own always wins.
WithQos(rows, identified, named, account) ==
    IF named # NoName \/ ~identified THEN named ELSE QosFor(rows, account)

-----------------------------------------------------------------------------
(* Which limit set; limits is a function from the names of those read.     *)

\* Seeded bug: a caller whose queue has no limit set has no ceiling.
CallerLimitsNone(limits, rows) == NoLimits

\* The default's, or those of the only QOS there is.
CallerLimits(limits, rows) ==
    LET default == DefaultQos(rows)
        name == IF default # NoName THEN default ELSE Only(UNION {r.qos : r \in rows})
    IN  IF name \in DOMAIN limits THEN limits[name] ELSE NoLimits

\* What the control plane chose, what was asked for, what the queue declares,
\* what is named after it; last the caller's own, if they asked for none.
LimitsFor(limits, rows, identified, declared, named, effective) ==
    LET names == <<effective, named, declared, Here>>
        found == {i \in DOMAIN names : names[i] \in DOMAIN limits}
    IN  IF found # {} THEN limits[names[Min(found)]]
        ELSE IF named # NoName \/ ~identified THEN NoLimits ELSE CallerLimits(limits, rows)

-----------------------------------------------------------------------------
(* Reading what each scheduler publishes of one limit set.                 *)

\* Slurm: [wall, user, job], each caps, and what of them is in no form that is
\* known.  A field is unreadable when nothing of it could be read.
TresMap(p, f) == [x \in DOMAIN p[f] \ p.garbled[f] |-> p[f][x]]
SlurmLimits(p) ==
    LET read(f) == TresMap(p, f)
    IN  [job |-> [x \in DOMAIN read("wall") \cup DOMAIN read("job") |->
                    IF x = "wall" THEN read("wall")[x] ELSE read("job")[x]],
         user |-> read("user"),
         unreadable |-> {f \in {"wall", "user", "job"} : DOMAIN p[f] # {} /\ DOMAIN read(f) = {}}]

\* PBS: a table of cells [kind, entity, cap] in the order they are printed.
\* The caller's own, the generic user's, any generic one; or the only one.
\* A cell is taken as a sequence of at most one.
Cell(table) ==
    LET users(entity) == {i \in DOMAIN table : table[i].kind = "u" /\ table[i].entity = entity}
        any == {i \in DOMAIN table : table[i].entity = Generic}
        found == IF users(Me) # {} THEN users(Me) ELSE IF users(Generic) # {} THEN users(Generic) ELSE any
    IN  IF found # {} THEN <<table[Min(found)]>> ELSE IF Len(table) = 1 THEN table ELSE <<>>

\* [job, user], each from axes to tables; a cap of Garbled is no number.
Garbled == -1
PbsLimits(p) ==
    LET is(f, x, good) == Cell(p[f][x]) # <<>> /\ (Cell(p[f][x])[1].cap # Garbled) = good
        read(f) == [x \in {y \in DOMAIN p[f] : is(f, y, TRUE)} |-> Cell(p[f][x])[1].cap]
    IN  [job |-> read("job"), user |-> read("user"),
         unreadable |-> UNION {{x \in DOMAIN p[f] : is(f, x, FALSE)} : f \in {"job", "user"}}]

\* LSF: [job, user] without memory; the row of labels and cells that MEMLIMIT is
\* in, if any, a cell as [cap, of, under], the column it is of and the one label
\* its right edge is nearest to (0: none is); and the files of settings: those
\* that say whether a memory ceiling is of the whole job, and those that do not
\* or cannot be opened.
Unlimited == -2
Memory(p) == {i \in DOMAIN p.labels : p.labels[i] = "mem"}

\* Cells by their number and by where they stand: both must agree.
MemlimitCell(p) ==
    IF Len(p.cells) = Len(p.labels) /\ \A i \in DOMAIN p.cells : p.cells[i].under = i
    THEN p.cells[CHOOSE i \in Memory(p) : TRUE].cap ELSE Garbled
MemlimitText(p) ==
    IF Memory(p) = {} THEN Unlimited
    ELSE IF Len(p.labels) > 1 THEN MemlimitCell(p) ELSE p.cells[1].cap

\* The first file that says so, of those LSF itself looks into.
ConfSetting(files) ==
    LET found == {i \in DOMAIN files : files[i] \in {"whole job", "process"}}
    IN  IF found = {} THEN "unread" ELSE files[Min(found)]
MemlimitIsPerJob(p) == ConfSetting(p.files) = "whole job"

LsfLimits(p) ==
    LET mem == MemlimitText(p)
        counts == mem \notin {Unlimited, Garbled} /\ MemlimitIsPerJob(p)
    IN  [job |-> [x \in DOMAIN p.job \cup (IF counts THEN {"mem"} ELSE {}) |->
                    IF x = "mem" THEN mem ELSE p.job[x]],
         user |-> p.user,
         unreadable |-> IF mem = Unlimited \/ counts THEN {} ELSE {"mem"}]

\* Kubernetes: the quotas of a namespace, each a sequence of <<axis, cap>>.  The
\* last of an axis counts within a quota, and the tightest among quotas.
LastOf(quota, x) == quota[Max({i \in DOMAIN quota : quota[i][1] = x})][2]
KubernetesLimits(p) ==
    LET axes(quota) == {quota[i][1] : i \in DOMAIN quota}
        caps(x) == {LastOf(quota, x) : quota \in {q \in p.quotas : x \in axes(q)}}
    IN  [NoLimits EXCEPT !.job = [x \in UNION {axes(q) : q \in p.quotas} |-> Min(caps(x))]]

ReadLimits(p) ==
    CASE p.by = "slurm" -> SlurmLimits(p)
      [] p.by = "pbs" -> PbsLimits(p)
      [] p.by = "lsf" -> LsfLimits(p)
      [] p.by = "kubernetes" -> KubernetesLimits(p)

-----------------------------------------------------------------------------
(* What really binds the caller's job, of one published limit set.         *)

\* A user's own cell stands in place of the generic one.
CellBinds(e, table) ==
    \/ e.kind = "u" /\ e.entity = Me
    \/ e.entity = Generic /\ (e.kind = "u" => ~\E i \in DOMAIN table : table[i].kind = "u" /\ table[i].entity = Me)

Binding(p) ==
    CASE p.by = "slurm" -> UNION {{<<x, p[f][x]>> : x \in DOMAIN p[f]} : f \in {"wall", "user", "job"}}
      [] p.by = "pbs" ->
            UNION {UNION {{<<x, p[f][x][i].cap>> : i \in {j \in DOMAIN p[f][x] : CellBinds(p[f][x][j], p[f][x])}}
                          : x \in DOMAIN p[f]} : f \in {"user", "job"}}
      [] p.by = "lsf" -> {<<x, p.user[x]>> : x \in DOMAIN p.user} \cup {<<x, p.job[x]>> : x \in DOMAIN p.job}
                         \cup {<<"mem", p.cells[i].cap>> : i \in {j \in DOMAIN p.cells :
                                p.wholeJob /\ p.cells[j].of \in Memory(p) /\ p.cells[j].cap # Unlimited}}
      [] p.by = "kubernetes" -> UNION {{q[i] : i \in DOMAIN q} : q \in p.quotas}

Over(p, shape) == \E b \in Binding(p) : b[2] # Garbled /\ Asked(shape)[b[1]] > b[2]

\* What the readers above can tell: a field of Slurm's of which a part is
\* garbled, a PBS table of one cell that is not the caller's or of two that both
\* are, LSF's settings in a file that is not the one in force, and a quota that
\* names an axis twice are read as something else than they are.
Legible(p) ==
    CASE p.by = "slurm" -> \A f \in {"wall", "user", "job"} : p.garbled[f] \in {{}, DOMAIN p[f]}
      [] p.by = "pbs" -> \A f \in {"user", "job"} : \A x \in DOMAIN p[f] :
                            LET binding == {i \in DOMAIN p[f][x] : CellBinds(p[f][x][i], p[f][x])} IN
                            /\ binding # {} \/ Len(p[f][x]) # 1
                            /\ \A i, j \in binding : i = j
      [] p.by = "kubernetes" -> \A q \in p.quotas : \A i, j \in DOMAIN q : q[i][1] = q[j][1] => i = j
      [] p.by = "lsf" ->
            LET truth == IF p.wholeJob THEN "whole job" ELSE "process"
            IN  \A i \in DOMAIN p.files : p.files[i] \in {"whole job", "process"} \ {truth} =>
                    \E j \in 1 .. i - 1 : p.files[j] = truth

-----------------------------------------------------------------------------
(* The forms that these take.                                              *)

Axes == {"wall", "node", "cpu", "gpu", "mem"}
CapsOK(caps) == DOMAIN caps \subseteq Axes /\ \A x \in DOMAIN caps : caps[x] \in Nat
InOrder(s) == s \in Seq({s[i] : i \in DOMAIN s})

\* Only one field of Slurm's is about time.  The cell of a memory ceiling stands
\* in its column, and in no other where cells and labels agree.
PublishedOK(p) ==
    \/ /\ p.by = "slurm" /\ CapsOK(p.wall) /\ CapsOK(p.user) /\ CapsOK(p.job)
       /\ DOMAIN p.wall \subseteq {"wall"} /\ "wall" \notin DOMAIN p.job
    \/ /\ p.by = "pbs"
       /\ \A f \in {"user", "job"} : \A x \in DOMAIN p[f] :
            /\ x \in Axes /\ InOrder(p[f][x])
            /\ \A i \in DOMAIN p[f][x] : p[f][x][i].cap \in Nat \cup {Garbled}
    \/ /\ p.by = "lsf" /\ CapsOK(p.user) /\ CapsOK(p.job) /\ "mem" \notin DOMAIN p.job
       /\ InOrder(p.labels) /\ InOrder(p.cells) /\ InOrder(p.files) /\ p.wholeJob \in BOOLEAN
       /\ \A i, j \in Memory(p) : i = j
       /\ \A i \in DOMAIN p.cells : p.cells[i].cap \in Nat \cup {Garbled, Unlimited}
       /\ Len(p.labels) = 1 => Len(p.cells) = 1 /\ p.cells[1].of = 1
       /\ Len(p.cells) = Len(p.labels) /\ (\A i \in DOMAIN p.cells : p.cells[i].under = i)
          => \A i \in DOMAIN p.cells : p.cells[i].of = i
    \/ /\ p.by = "kubernetes"
       /\ \A q \in p.quotas : InOrder(q) /\ \A i \in DOMAIN q : q[i][1] \in Axes /\ q[i][2] \in Nat
=============================================================================
