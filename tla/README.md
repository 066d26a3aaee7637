# nodetop, specified

nodetop answers two questions about a batch cluster: *what is free*, and *what
would take my job*. It reads one snapshot of the control plane, does arithmetic
over it, asks the control plane a bounded number of dry-runs, remembers the
answers on disk, and shows all of it in a terminal browse or hands it to an
agent over MCP. This directory holds TLA+ modules of the parts of it that have
state, the TLC instances that check them, and TLAPS proofs about ten of them.

Everything is translated from `src/src/nodetop`; paths below are relative to it.

## 1. The system: an inventory

| component | state it keeps | operations | who it talks to |
|---|---|---|---|
| dry-run sweep (`core/fit.py` `rank`, `probe_queue`, `ProbeBudget`) | the budget left, the accounts learned, a verdict for each queue | start a walk, order its accounts, claim a dry-run, take the reply in, learn, give up | a thread pool over the queues; one lock; the control plane |
| placement (`core/fit.py` `evaluate`, `core/capacity.py`, the labels of `cli.py`) | none: a pure reading of a snapshot | `hardware_ok`, `node_fits`, `assess_capacity`, `evaluate`, `_verdict_label` | the snapshot, the sweep |
| access cache (`core/access.py`) | a directory of JSON documents, one for each question | `load`, `save` (read, merge, write, rename), `_prune` | every run of the tool of one user, without a lock |
| browse session (`cli.py` `main`, `cmd_status`, `_Recheck`) | the frame on screen, the recheck thread, what is remembered | read, ask about a gap, draw, recheck, reload | access cache, control plane, the reader |
| idle refresh (`cli.py` `_browse`, `_touched`; `interactive.py` `select`) | the backoff, the quiet time, who fired the last reload | expire, touch, reload | the reader's keys, the recheck |
| browse stack (`cli.py` `_browse`; `interactive.py` `select`) | the stack of levels, a cursor for each, the lines on the screen | the keys, open, step out, reload and resume | the snapshot, the terminal |
| raw mode (`interactive.py` `_RawMode`) | terminal modes, cursor, signal dispositions | enter, exit, die, suspend and resume | the kernel, the shell |
| MCP server (`mcp.py`) | the throttle, the replies written | read a line, call a tool, reply | a client that pipelines and may hang up |
| snapshot load (`core/cluster.py` `load`, caches of `backends/`) | what a backend has asked already | the loaders, together, each with its commands | the control plane |
| nodes and queues (`core/model.py`, `core/cluster.py`; `load_nodes`, `load_partitions` of six backends) | none: what a snapshot says | read a node's state, occupancy, memory and cards, a queue's state and members; wire them; add up what is free; name what a job should exclude | snapshot load, placement, the guard of `cli.py` |
| record and replay (`runner.py`, `cli.py` `cmd_snapshot`, `_load_replay`) | command line -> its result; a file | capture, write and rename, look a command up, replay | snapshot load |
| lazy job lists (`core/cluster.py` `jobs`, `allocations`, `prefetch_job_view`) | two lists for each snapshot, a lock for each | read once, prefetch | browse, daemon threads |
| limits and identity (`core/model.py`, `core/cluster.py` `limits_for`, `with_qos`; `load_limits` of four backends) | none | which QOS a job names, which ceilings bind it | placement |
| classification of a dry-run (`probe`, `parse_probe`, `classify` of three backends) | none | read what a control plane printed as a verdict | the sweep, placement |
| host lists (`hostlist.py`) | none | expand and compress bracket notation | backends, job lists, `exclude` |
| accelerator vocabulary (`core/hardware.py`) | a table of parts | read a part, its size and its features out of a resource and labels | placement |
| durations (`core/duration.py`) | none | parse text | backends |
| command line (`cli.py`) | none | refuse to report a broken snapshot or a queue nobody knows, say what a queue is, exit status | everything |
| reports, rendering (`cli.py`, `render.py`) | none | format | everything |

What is hard about it, and what makes each part correct:

* **Concurrency inside a process.** Up to `PROBE_WORKERS` walks share a budget
  and a list of learned accounts; up to six loaders share cached commands; a
  recheck thread writes the documents the main thread reads; daemon threads
  read lists a reader is waiting for. Correct means: the control plane is never
  asked more than was promised, shared answers are one reading, and nobody
  waits for ever.
* **Concurrency between processes.** The cache directory has no lock. Correct
  means: nothing older than the TTL is served, nothing younger is lost but where
  `save` says so (to the rename of a run that another overtook) or by pruning,
  and the directory stays bounded even when runs are killed half-way.
* **A refusal is a strong claim.** "This queue refuses you" may come from a
  budget that ran out, a control plane that was down, an identity query that
  failed, or from the control plane. Correct means that it is said only in the
  last case.
* **Six schedulers, each with its own words.** A state that no table has, a
  count that leaves out what is suspended, a queue whose groups could not be
  read: room that nobody can have must not look free, a full node must not
  look broken, and what could not be read must not look like nothing.
* **A terminal is shared.** Whatever ends or stops the process, the shell must
  get a terminal with echo and a cursor; whatever the reader presses, the
  screen is one block and shows nothing that is gone.
* **Words stand for things.** A bracketed list for nodes, a label for a card,
  `123_4` for a job that another list calls by another number, a command line
  for its recording. Correct means that what is read out of a word is what was
  meant by it, or that nothing is read at all: a wrong answer is worse than
  none.
* **Time.** Intervals double, windows are measured from a start, answers age.

`PROJECT.json` lists the components with their status, and the hazards line by
line with the properties that would catch each of them.

## 2. The modules

Each module is named for its component and states its constants' assumptions. The
`MC` module beside it gives TLC an instance, where a configuration alone cannot.

| module | models | how state and actions correspond |
|---|---|---|
| `ProbeSweep` | the sweep | a queue's `phase` is where its walk is; one action for each critical section of the budget's lock, each round trip, and the thread-local code between two of them. `admits` is the control plane's truth, chosen at the start and never read by the walk; `command` is whether `where` or `check` asks: `check` asks of every queue, takes no refusal back when the identity is unknown, and exits with `ExitZero` |
| `Entitlement` | what a sweep promises | at most one answer for each queue, a definite one only if true, a bounded number of dry-runs, and `waved`, the exit status that a script reads, only where a queue takes the job; `ProbeSweep!KeepsPromise` is the refinement |
| `McpContract` | what the server promises | one reply for each request, bursts an interval apart, downgrades said: over as much of the server's state as that takes. `McpServer` extends it |
| `ControlPlane_proofs` | | the theorems of section 5 about `ProbeSweep` and, as `Mcp`, about `McpServer`: how much the control plane is asked, and what is made of its answers |
| `AccessCache_proofs`, `Session_proofs`, `Terminal_proofs`, `Inventory_proofs`, `JobView_proofs`, `Browse_proofs`, `Placement_proofs` | | the theorems of section 5, about the module each is named for; `Session_proofs` also about `IdleRefresh`, as `Pace`, and `Inventory_proofs` about `SnapshotLoad`, which `Inventory` extends |
| `Selection` | what is left of a list | `Picked`, `Without`: a list less some members, in its order, defined by places, because the provers know nothing of the library's `SelectSeq` and `Remove`; for `AccessCache` and `Browse` |
| `AccessDocument` | one cached document | `Merge` is what `save` writes over what it read, `Served` what `load` returns; `asked`, which no file holds, is when the control plane really was asked |
| `AccessCache` | the directory and the runs sharing it | read, write, rename, listdir, sort and unlink are steps; a run may be killed between any two; `recent` is the directory in the order of modification times; a `site` is how many runs, questions and kept files there are. `overtaken`, which no run knows, has the runs about to rename over what another has renamed since they read |
| `Session` | one interactive `status` | `pc` is where `main`'s loop is; the recheck's thread asks partition by partition, saves, and is done; a verdict carries how often the control plane had changed its mind. `disk` is what `load` would return, so that a verdict leaves it when the TTL passes (`Expire`); the foreground asks about what is `missing` and saves that. `crossed`, which the code does not keep, has the partitions a frame asked about while a recheck held an earlier answer |
| `PaceContract` | what the timer of a browse promises | that between one key, or correction by a recheck, and the next it re-reads less and less often (`PacedByNobody`), over as much of the pace's state as that takes. `IdleRefresh` extends it |
| `IdleRefresh` | the pace of re-reads | time in polls of 0.3s; `quiet`, `backoff`, `fired` are the code's own counters, `since` is how long the frame has stood, `alone` how many of the timer's refreshes there were since a key or a recheck's correction |
| `Browse` | stack, cursor, screen | a level is a tuple; the screen is the lines below the prompt, each named for what it shows; a reload saves stack and cursors and resumes over the next reading |
| `Terminal` | who owns the terminal | the main thread has a list of steps to do; a handler's steps are put in front; a signal without a handler acts at once; Ctrl-C unwinds |
| `McpServer` | the message loop and the throttle | a line is what its handling tells apart; `Call`, `Probe`, `Finish` are the life of a tool's command |
| `SnapshotLoad` | a load, its caches and its recording | parameterised by a backend's table: what each loader reads, what is kept, whether failures are, under a lock or not; an answer is the version of the cluster it describes. Then the file: `Draft`, `Fill` and `Rename` write the recording beside its target and put it there, `Abandon` is a full disk or a kill in between, and `Replay` loads it in this version of the tool or in one that words its commands with other flags (`argv`); `Lookup` is how the recording of a command is found |
| `Hostlist` | bracket notation | a text is tokens; `Expand`, `Compress` with the bound on what an expression may come to |
| `JobReading` | which jobs are on a node, and what each holds there | how Slurm prints a job in two lists (external), what each list is parsed to, and `JobsOn`, `ShareOf`, which put the two together |
| `JobView` | the lazy lists | a thread wants lists of a snapshot, in an order, and holds a list's lock while it asks; jobs begin, end and move between the two questions (`History`) |
| `ClusterModel` | nodes, queues, their wiring | a node is the conditions it is in, what it has and what is held of it; a queue wires its declared members, or the nodes that name it, and adds up |
| `SlurmReading`, `PbsReading`, `LsfReading`, `SgeReading`, `KubernetesReading`, `SshPoolReading` | the loaders of nodes and queues of one backend each | first how that scheduler prints the state of a host or a queue (external: as the code's tables and comments expect it), then what the backend makes of it; last, in `Possible` and `Steady`, which clusters of that scheduler there may be, and which two may be one at two moments |
| `Inventory` | what a snapshot says the cluster is | `SnapshotLoad`'s loaders, with their answers read by the backend's module; `Truth` is what the cluster was at each version, and `HostsThen`, `MembersThen` are what was really there when the loaders asked; the guard of `cli.py` over it, with the names it rejects; `Excluded` is what `exclude --unschedulable` prints, as the scheduler takes it |
| `Accelerators` | the vocabulary of cards | a token is which aliases stand in it, what size it mentions and its form; which part is identified from a resource and labels, whether its size is known, and what it is capable of |
| `Capacity` | arithmetic over nodes | the functions of `core/capacity.py` over readings of nodes |
| `Limits` | the ceilings and the QOS that brings them | limit sets as four schedulers publish them, read as the backend reads them (`SlurmLimits`, `PbsLimits`, `LsfLimits`, `KubernetesLimits`); `WithQos`, `CallerLimits` choose among them, `Binding` says which of them really bind; `PublishedOK` is the form of what is published |
| `DryRun` | how a dry-run's answer is read | an answer is the set of phrases in it; `SlurmSays`, `SgeSays`, `KubernetesSays` are what may be printed of somebody who is welcome, or is not; `Tells` is what the code makes of it |
| `Placement` | one queue judged for one job | beside the code's judgement stands the scheduler (`CanStart`), over the machines as they are; the properties relate the two. What card a machine has and what its labels say goes through `Accelerators`, the nodes a caller excludes through `Hostlist`. The limits it checks are those `Limits` reads, the dry-run one of the answers of `DryRun` |

`Session` stands on what `AccessCache` checks (it is one run with its file,
treats a save as one step, and lets a verdict lapse at any moment);
`IdleRefresh` takes from `Session` only that a recheck may agree or not at any
moment; `Browse` takes reloads from `IdleRefresh` as one more key. `ProbeSweep`
and `Placement` meet in a verdict: the one asks about accounts that a queue
admits or not, the other reads one answer in full.

## 3. What TLC checks

| run | asks | bounds, and why they are enough |
|---|---|---|
| `ProbeSweep_scarce` | is the budget exact, is a refusal the control plane's, are learned accounts tried first, does the sweep end and keep its promise, and does `check` exit with zero only where a queue takes the job? | both commands; three queues with one, two and three accounts and one that is ruled out, two workers, four dry-runs for seven candidates, a ceiling of two: every walk can be cut short by its ceiling, by the other walk, or not at all, and a third starts after one has learned |
| `AccessCache_sites` | do ages survive merging, is a fresh verdict lost only to an overtaken run, does an answer land whole, is the directory bounded, does the newest answer survive? | two sites: two runs sharing one question of two partitions, with four instants and a TTL of one, where a verdict can be carried forward past its time and each run overtake the other between any two steps; and one run, killed twice, with three questions for a directory that keeps one |
| `Session_healthy` | one recheck, no frame goes back, corrections reach the screen, the screen catches up | two partitions that gain and lose room and whose answers lapse, two recheck threads, one change of mind about each partition, so that an answer is the older or the newer one, one silence |
| `IdleRefresh_paced` | between two signs of life, does the timer re-read only as often as the doubling says? | prices of two and three polls and one too dear, a cap of seven (two doublings), two keys, four refreshes alone |
| `IdleRefresh_week` | *violated*: the doubling leaves the range of a float | one price, `Exponent` 5 in place of 1024, so that seven refreshes stand for 1024 |
| `Browse_readings` | one block, nothing vanished, stepping out lands on its row | ten keys over three readings: a queue and a node go and come back, a second node of the queue stays in another, a job still names the node that is gone; frames of height two, three and one |
| `Terminal_waiting` | is the terminal whole when others have it, armed while it is browsed, and does a fatal signal end it? | four signals or Ctrl-Cs, two fatal signals and SIGTSTP, SIGHUP ignored or not: two Ctrl-Zs with a signal waiting at each |
| `McpServer_session` | one reply for each request in order, dry-runs an interval apart, downgrades said, everything answered | three lines of nine kinds, five instants, an interval of two and commands of up to three, so that one may outlast its window |
| `Inventory_backends` | is a shared command asked once, one reading, does the load end and its recording replay, in any version? Is the room that is shown real, is exactly what is out of service excluded, is what is missing said, and a queue nobody knows rejected? | the tables of six backends, the cluster changing once, any command failing; a write that fails at either step; for one table of each backend also a later version's wording of its commands; for each backend a cluster before and after, with a host in each kind of state that its tables or comments tell apart (but for those of section 4), and a queue in each state and kind of membership |
| `Inventory_unlocked` | *violated*: one snapshot is of one instant | LSF's, Grid Engine's and Kubernetes' tables |
| `JobView_lists` | the lists of a snapshot one after the other, a frame that is opened comes, and what it shows a job to hold is what it held | two daemon threads, the reader, one reload; three nodes, one of them idle, under names of two widths; two instants, between which a job on both nodes changes what it holds on each, a task of an array moves, one begins and a job ends |
| `Placement_cases` | is what fits now a fact, is what is wrong wrong for ever, is the estimate met, is nobody refused who could run, is no ceiling missed? | two nodes, other jobs that may start and end in three instants, seven shapes, unreported memory, unrecognised accelerators, unresolved nodes, every kind of caller and queue; every answer of three control planes; limit sets with a ceiling on either side of what is asked, in each form the readers tell apart |

Each property has a mutant: a definition with a plausible bug, under which TLC
finds the property violated on the same instance. They stand in the modules as
operators whose comment begins "Seeded bug", and `PROJECT.json` pairs them.
`TypeOK` says in each module what the variables are; for the ten modules of
section 5 it is proved there (`TypeCorrect`), so that no run repeats it.

Two assumptions that TLC evaluates are no mere conditions on an instance, but say
what parsers compute. `ListsAreTrue` of `JobView` is about every pair of job lists,
and each of the seeded bugs `GresGpusSplit`, `IdsOwn` and `ShareOfTotals` makes it
false. `ListsAreReadBack` of `Inventory` is about every subset of its twelve host
names: written for a submission, and read as the scheduler reads it, it is itself.

The two others of `Inventory` are conditions on its instance. `LoadersAssumption`:
each loader asks what it cannot do without and fails where it has no answer; only
PBS asks a second time, in text. `TruthAssumption`: each truth of a table is a
`Possible` cluster of its scheduler, and any two are `Steady`.

Symmetry is used in `AccessCache_sites` only, over partitions, questions and
runs, which the module never tells apart; the run has no liveness property.

### Fairness

* `ProbeSweep`: `Return` and each queue's walk are weakly fair: threads run, and
  every dry-run comes back, because the runner gives each a timeout that the
  backends report as a verdict.
* `Session`: the clock, reading, drawing, asking, the recheck's steps, and the
  two reloads the timer makes. Not the reader's keys, nor the failing reading.
* `IdleRefresh`: the clock and the main thread's steps; not the keys.
* `Terminal`: the main thread's steps, except the one that waits for a key; no
  signal is owed to anybody.
* `McpServer`: the clock and the server's steps; a command ends because every
  command it starts has a timeout. The client owes nothing.
* `SnapshotLoad` (and with it `Inventory`), `JobView`: each loader and each thread; queries have timeouts.
* `AccessCache`, `Browse`, `Placement`: none. They claim only safety.

## 4. Where the code and its documents disagree

Two disagreements are kept as runs that must fail.

`IdleRefresh_week`: the comment at `cli.py:498` says that a browse nobody is
watching "settles at one re-read every five minutes"; `cli.py:3342` computes
`idle * (2 ** _IDLE_BACKOFF[0])` before the minimum, nothing bounds the
exponent, and the 1024th refresh nobody touches raises `OverflowError`.

`Inventory_unlocked`: `core/cluster.py:128` says that each backend's caches are
locked, "so a shared answer is still fetched exactly once"; those of LSF, Grid
Engine and Kubernetes are not, and `kubernetes.py:246` names the consequence, a
report that mixes two instants. `OneInstant` and `AskedOnce` are claimed of
tables with a lock; the other properties of `Inventory` compare each answer with
the cluster at its own instant.

The others were met while modelling. The properties above are stated so as not
to claim what the code does not do, and these are the conditions they carry.

The sweep, the cache, the session and the terminal:

* `core/fit.py:814` says that the cheapest queue's account "is known before the
  expensive queues are asked"; walks that start beside it have copied the
  learned accounts already (`fit.py:586`). `LearnedTriedFirst` speaks of the
  accounts known when a walk started.
* `core/access.py:327` keeps "the newest KEEP answers"; `_prune` unlinks by
  name, so of two runs pruning at once one may remove the answer the other has
  just written. `NewestSurvives` is claimed for a run that has the directory to
  itself, and so is `DirectoryBounded`.
* `core/access.py:262` says the loser of two saves is "simply lost"; a run that
  read before the other's rename writes older verdicts back over newer ones.
  `FreshIsKept` excepts the rename of such a run (`overtaken`).
* `core/access.py:211` returns "how old it is"; that is the document's age,
  which every write renews, and not the verdicts'.
* `DESIGN.md:1885` says "the recheck always runs"; after `r` during a recheck
  the new frame starts none and watches none, and with auto-refresh off the
  answer never reaches the screen. `Session_healthy` has auto-refresh on.
* `cli.py:3362` says a reload "rebuilds from the answer the recheck just
  wrote"; what `access.save` returns is ignored, so on a full disk it redraws
  the old one. `Session_healthy` has a disk that takes writes.
* `cli.py:616` says the screen is "at most a couple of seconds behind the control
  plane". Where the TTL passes during a recheck, a reload asks in the foreground
  and shows that answer, and the recheck's earlier one is saved over it and shown
  by the next reload. `FrameNeverRegresses` excepts these partitions (`crossed`).
* `DESIGN.md:1893` says "only settled verdicts are written down"; all are.
* `cli.py:624` allows one pass of dry-runs at a time; a frame with a gap asks
  in the foreground beside a running recheck. `OneRecheck` counts rechecks.
* `interactive.py:462` calls `idle` seconds of quiet; while a recheck is polled
  the quiet time is added up across keypresses. `cli.py:496` says any keypress
  puts the backoff back; the arrows do not. `cli.py:2736` says any other reload
  means "a reader is present"; one made by a recheck, which nobody pressed, puts
  the backoff back too, so that each correction lets the interval start at its
  shortest again. `PacedByNobody` counts refreshes since a key or a correction.
* `interactive.py:243` says "restored unconditionally"; a signal between
  setting the modes and installing the handlers leaves the terminal raw (take
  `AnyTime = TRUE`), and so does one between restoring the handlers and the
  modes at `interactive.py:283`. `interactive.py:313` says "die as we would
  have"; a process started with SIGHUP ignored dies of one.
  `interactive.py:337` says "the truth" is handed back; an ignored SIGTSTP comes
  back as the default, so `TruthHandedBack` is checked where SIGTSTP is not
  ignored.
* `mcp.py:486` says a notification takes no response "ever"; one that is
  malformed as well is answered. `mcp.py:332` excludes back-to-back dry-runs;
  when a command takes as long as the interval the next may ask as it ends.
  `mcp.py:73` speaks of what "a dry-run buys"; a call that never reaches one
  pays for the window too. `BurstsApart` speaks of when commands begin.
* `runner.py:190` says that a replay reproduces the breakage; a command asked
  twice keeps its last answer, and PBS keeps no failure of its nodes.
  `ReplayReproduces` is claimed of loads that asked nothing twice.
* `runner.py:236` looks for a recording that is part of the command before the
  test that makes the second look "safe" (`runner.py:245`), and that test counts
  recordings without comparing their flags. A recording whose words begin a
  command with a new flag (`qstat -Qf` in `qstat -Qf --new -F json`), or that is
  the only one left of its words (`bhosts -gpu` for `bhosts`), answers another
  question than it was recorded for. `ReplayReproduces` claims a whole load of
  wordings without such a pair (`Own`), and of every wording that what is found
  is a recording of that command.
* `core/cluster.py:348` says that the wait for the two job lists "happens while
  the reader is choosing a row"; the node listing itself counts the jobs of each
  node (`cli.py:2982`), so that stepping into it waits for the first list.
* `cli.py:3071` says "this backend cannot list jobs" whenever the list is empty
  and the snapshot has a busy node; the last jobs may have ended since.
* `cli.py:3255` prints as "job total" the accelerators of `squeue`'s `%b`, which
  is what the job holds on each node.
* `core/cluster.py:356` allows one extra query in flight; after a reload the
  old snapshot's thread goes on. `OneInFlightEach` speaks of one snapshot.
* `cli.py:524` says a reload "opens on the same row"; only rows that were
  opened are remembered. `cli.py:3285` says that stepping out lands on the row
  one came from; positions are kept, and a reload may sort rows anew, so the
  readings of `Browse_readings` keep what stays in its place (`KeepTheirPlaces`). Where a
  reload has dropped a level in between (a queue is gone whose node is shown, or a
  node that a job on the screen still names), what one steps out of is no row of
  what one comes out at, and the cursor is where it was.
  `interactive.py:614` says quitting leaves the report on screen; Escape at the
  root erases it.
* `core/fit.py:157` says of wrong hardware "no node here could ever host this";
  an accelerator nobody recognises and a queue only some of whose nodes resolve
  are called that as well, and are excepted from `WrongHardwareIsForever`.
  `fit.py:302` withholds a dry-run "only where the hardware is KNOWN not to fit";
  a size that was inferred, the smaller of two a part ships in, counts as known.
  For a slice of a card `hardware.py:329` says that "the smaller was assumed" is
  the caveat; what is assumed is a whole card's memory. `hardware.py:481` takes
  the first entry it knows of a resource that lists two kinds of cards, and the node
  passes for having only those, and a node that hands out slices passes for having
  whole cards (`NoSlices`). `capacity.py:16` calls a fit a fact; the memory floor is
  compared for one core, whatever the number of cores (`FloorCovers`). The two
  claims of room are made where neither matters (`RoomIsTold`). `capacity.py:17` calls
  the estimate a lower bound; enough of a node may be free before its last job
  ends. `EarliestIsReached` claims the other direction: by then it fits.

What nodes and queues are read from:

* `slurm.py:86` to 115: a base state with `NOT_RESPONDING` beside `IDLE` is in
  no table and reads as schedulable. `sge.py:49` has the state letter `o`, and
  the alphabet at `sge.py:570` has not, so a field with it is no state at all.
  No host of the run is in either.
* `sge.py:274` and 589: of the instances of a host the one listed last gives the
  slots used and the letters. `RoomIsReal` allows what the others hold
  (`Blurred`), and hosts out of service "in part" are claimed of by none of the
  properties. A failed `qstat -f` is suppressed (`sge.py:335`), and every host
  then reads as healthy.
* `kubernetes.py:94` rounds the request of each container down to whole cores;
  `RoomIsReal` allows less than a core for each.
* `lsf.py:291` takes any `HOSTS` that begins with "all" for every host. Free
  slots are `ncpus` less `NJOBS`, whatever `MAX` is; where `NJOBS` is a dash,
  suspended jobs are not counted. Neither stands in a cluster of the run.
* `pbs.py:636` says that an ACL which is on and empty "permits nobody, which the
  core reads via "none""; `model.py:669` to 683 reads it so of users, accounts
  and QOS, and not of groups.
* A pool of machines that names one twice drops the second answer; a snapshot
  records both under one command, so that its replay shows the second.
* `exclude` (`cli.py:5170`) joins names with the separator of the scheduler;
  `--exclude` (`cli.py:1436`) reads only commas (`OutOfServiceIsExcluded` reads each scheduler's list
  as that scheduler does).

Limits and dry-runs:

* `fit.py:751` says "Pick the limit set that will actually apply"; `_limits_for`
  looks at the shape before `with_qos` has filled in a QOS, and the default of
  whichever association comes first. Where two sets bind a job (the QOS it runs
  under and the queue's), one is checked; `Cluster.limits_for` prefers the
  queue's and `fit._limits_for` the named QOS. A QOS that merely has the queue's
  name counts as the queue's. `FitsNowIsAFact` is claimed of callers whose QOS is
  decided (`QosDecided`) and queues whose ceiling is known (`CeilingKnown`).
* `fit.py:770` will not substitute the caller's own limit set for a QOS that "this
  cluster does not publish", because the answer would be about a different one;
  for a QOS the control plane chose, of which nothing is published either, it does.
  A caller with associations of several QOS may so be told of a ceiling that is
  not theirs. `TakersAreReachable` excepts it (`ChosenIsPublished`).
* `slurm.py:353` and 671: a TRES field of which one entry is garbled is not
  reported unreadable. `pbs.py:203` says that a cell for somebody else alone is
  no limit; its value is given, and of two cells that both bind the caller
  the first alone is read. `kubernetes.py:362`: of two keys for one axis in
  a quota the last wins. LSF takes its setting from a file that need not be the
  one in force. `Legible` in `Limits` is what the run claims ceilings of. Grid
  Engine's quota sets are kept under their own names, which no queue has, so
  that none is ever checked.
* `cluster.py:214` says that the dry-run and the flags that are printed "cannot
  disagree"; the flags use the account of the shape. With the identity lost and
  an account named the QOS is not filled in, and `INVALID_QOS` is then read as
  lasting.
* `model.py:1207` counts what an unreachable server says as transient;
  `kubernetes.py:492` reads a failed `auth can-i` as a lasting `NOT_ENTITLED`
  whatever it failed of. `TakersAreReachable` excepts it (`ReadAsDenied`). A pod
  that is over a quota at the moment is a lasting `QUOTA_EXCEEDED`.
* `cmd_check` does not take back refusals whose identity is unknown, as
  `evaluate` does.

## 5. What is proved

Every theorem is of the form "for every value of the constants that satisfies the
assumptions named in the module", of any number of queues, runs, threads, signals,
lines, loaders, hosts or keys where TLC has a few. Those listed state a property that a run checks, but for
the types and three of the first module.

| module | theorem | says |
|---|---|---|
| `ControlPlane_proofs` | `TypeCorrect` | every variable keeps its type; in particular the budget never goes below zero |
| | `BudgetHolds` | dry-runs sent and budget left add up to the total, so no more than the total are sent |
| | `RefusalsAreHonest` | a queue reported as refusing admits none of its candidates |
| | `AcceptsAreHonest` | a queue reported as accepting admits the account its verdict names |
| | `AnonymousNeverRefused` | after a failed association query `where` refuses nothing |
| | `SweepKeepsPromise` | the sweep, of `where` and of `check`, implements `Entitlement` |
| | `LearnedComeFirst` | a queue left undecided with budget to spare admits none of the accounts its walk started with |
| | `McpTypeCorrect` | of the server, every variable keeps its type; a reply is to a line that was sent, or to none |
| | `RepliesAreOrdered` | one reply to each request that was dealt with, in order |
| | `ThrottleHolds` | commands that ask the control plane begin an interval apart |
| | `DowngradesAreSaid` | an answer carries the note exactly if its command was kept from asking |
| `AccessCache_proofs` | `TypeCorrect` | every variable keeps its type; the directory lists exactly the questions that have a document, each file once |
| | `NothingStale` | nothing older than the TTL and a sweep is served |
| | `NothingFreshIsLost` | a verdict younger than the TTL that a document holds is still served after any step, and says what it said unless the writer was told otherwise; it goes only with a pruned file or by the rename of a run that another's rename overtook |
| | `OwnAnswersLand` | a rename brings in the whole answer of its run |
| | `DirectoryStaysBounded` | between the saves of a run that has the directory to itself, KEEP files are in it and one for each kill |
| | `NewestAnswerSurvives` | such a run's pruning never takes the answer written last |
| `Session_proofs` | `TypeCorrect` | every variable keeps its type; a frame shows verdicts of the partitions it was drawn for and of no other |
| | `OneAsksAtATime` | no two rechecks ask at a time |
| | `ScreenNeverRegresses` | no frame shows an older answer about a partition than the frame before it, but where a frame asked beside a recheck that held an earlier one unsaved |
| | `CorrectionsShow` | a reload made because the answer moved shows it, or a later one, where saves land |
| | `PaceTypeCorrect` | of the pace, every variable keeps its type: no browse waits longer than the cap |
| | `LeftAloneIsPaced` | between a key, or a recheck's correction, and the next the timer re-reads no faster than the doubling allows |
| `Terminal_proofs` | `TypeCorrect` | every variable keeps its type; the modes are saved whenever the terminal is raw |
| | `TerminalHandedBack` | whenever the process is stopped or gone the terminal is whole |
| | `BrowsesAreArmed` | whenever a key is awaited every handler is armed |
| | `DispositionsHandedBack` | a browse that ends by itself gives back the dispositions it found |
| `Inventory_proofs` | `TypeCorrect` | every variable keeps its type; a lock is held by a loader whose command runs |
| | `SharedAnswersAgree` | what a lock guards is one reading, for all loaders of any table |
| | `FailuresAreAskedOnce` | a command whose failure is kept is run once |
| | `RecordingsReplay` | a replay gives each loader what it had in the load that was recorded, with its failures, for any two orders of the loaders |
| | `RoomIsThere` | the cores, the cards and the idle nodes a queue is said to have free are there: nobody holds them, on hosts that are its own and in service, with memory behind them; a queue that starts nothing has none |
| | `TheBrokenAreKeptOut` | what `exclude --unschedulable` prints keeps a job from every host that takes no work, and from none in service |
| | `MembersAreNeverGuessed` | a queue has all of its hosts or says that some are unresolved, and a report is made exactly where the nodes and the queues were had and the queue is known |
| `JobView_proofs` | `TypeCorrect` | every variable keeps its type; a lock is held by a thread that is after that list |
| | `OneQueryInFlight` | the two lists of a snapshot are asked for one after the other |
| | `FramesTellTheTruth` | a frame of a node's jobs shows what they held, whichever thread read which list, and when |
| `Browse_proofs` | `TypeCorrect` | every variable keeps its type; the cursor is on a row of the level on top, and the stack is five levels at most |
| | `OneScreen` | one block stands on the screen |
| | `WhatVanishedIsDropped` | no level of the stack lists a queue or a node that the reading shown has not |
| | `OutLandsOnItsRow` | stepping out lands on the row one came from, where it is still listed |
| `Placement_proofs` | `TypeCorrect` | every variable keeps its type; no node is handed out beyond what it has, and what is judged to fit is hardware that could |
| | `FitsNowIsTrue` | while the cluster is as it was read, RUN NOW says that enough nodes would start the job, and that it is under every ceiling that binds it |
| | `WrongHardwareStays` | a job whose queue was called wrong hardware, or too small, is never started there |
| | `WithheldIsHopeless` | a dry-run is withheld only of a job that is never started |
| | `EarliestHolds` | if nobody else comes, the job fits at the time of the estimate |
| | `TakersAreHeard` | a caller whom the queue takes is not told otherwise, by a verdict, a ceiling or an exit status; a confirmed caller is one whom it takes |

Those about `McpServer` and `IdleRefresh` have the assumptions on the constants as a
hypothesis (`Mcp!McpAssumption`, `Pace!IdleAssumption`), because they are stated of
an instance. The four of
`Terminal_proofs` assume `~AnyTime`, that signals come while a key
is awaited or the process is stopped; without it `HandedBack` is false
(section 4). `DispositionsHandedBack` also assumes that SIGTSTP was not ignored.
`CorrectionsShow` assumes `SavesLand`: on a full disk a reload redraws the old
answer, and `OutLandsOnItsRow` assumes `KeepTheirPlaces`, that a row which opens has
one place in a list, whichever reading it is in (section 4). Others rest on assumptions about data that TLC evaluates
for each instance: `RecordingsReplay` on `WordsAssumption` (another version changes
a command's flags only; a command another's recording could be taken for is the
first that some loader reads), and the two about the directory on
`NamesAssumption` (the name of a question's file, of a run's temporary file and of
one left behind are never the same). `FramesTellTheTruth` assumes `ListsAreTrue`:
that two lists put side by side say what the jobs held, which is about what the
parsers compute and TLC evaluates for the jobs of `JobView_lists`. What is proved is
the rest: that a frame is only ever drawn over two such lists. Those of
`Placement_proofs` assume of every case that it is one (`PlacementAssumption`: an
association for each account and queue, with its default among its QOS; the memory
floor at most what a node has; limit sets in the form of their scheduler,
`PublishedOK`), and, of the two parsers that are recursive or fold over words, what
they compute: `CardsAreRead`, that a recognised card is read with its capability and
with no larger size than it has, and `ExclusionsAreRead`, that a list of nodes is
read as it is meant. TLC evaluates all three for the cases of `Placement_cases`. The
readers of limit sets and of dry-runs are not assumed but proved right, for every
limit set and every answer.

The three about what a snapshot says are of every cluster there may be, of all six
schedulers, read in any order while it changes. What may be is what `Possible`
says, and what the code's tables and comments take for granted: nobody holds more
of a host than it has; a host is in one of the states listed (section 4 names the
two that are not: a host of Slurm that does not respond, an orphaned instance of
Grid Engine); on LSF and Grid Engine whoever holds cards holds cores; only on PBS
may a job have a host to itself without holding all of it; a host group of LSF is
the same throughout a load, and has no host's name; what is held of a host of
Kubernetes is what its scheduler reserves for the pods there that have not ended.
`RoomIsThere` claims cores only up to `Blurred`, what the backend is known to lose
(section 4). `TheBrokenAreKeptOut` assumes `ListsAreReadBack`, since host lists
are folds over tokens; that the right hosts are in the list is proved.

### Along which argument

Hardly any of these properties is inductive. Each module names its strengthening
`IInv` and proves that it holds at the start, that each action keeps it, and that
it implies the property.

* `ProbeSweep`: what a walk reports depends on the best verdict it holds, which
  must be related to the accounts it has asked. `WalkOK` says: every account
  asked is a candidate; with no verdict in hand nothing has been answered; with a
  refusal as the best verdict, none of the accounts answered so far is admitted;
  an accept in hand names an account that is. The step from there to "a refusal
  means none is admitted" is `AllTried`: comparing *counts* of accounts, as
  `unsettled` does, is comparing the *sets*, because what was asked is a subset
  of finitely many candidates. `Joined` adds that the sweep returns only when all
  walks are settled, which the status of `check` needs. `LearnedOK` is for
  `LearnedTriedFirst`: the accounts a walk has asked are learned ones as long as a
  learned one is left, so that a walk which gives up at its ceiling, with no more
  learned accounts than that, has asked them all. The refinement maps each
  action to a step of `Entitlement` or to none.
* `AccessCache`: `Dated` relates the three clocks of a verdict, in every document
  and in what each run holds between two steps: it was asked before the moment it
  is given, which is at most a sweep later, and the document is no older. `Held`
  says that a run which asks has held no answer for longer than a sweep, and one
  that has not begun holds none, so that it begins with nothing old; `Carries`
  says that what is written of a run's own partitions is what it got. A merge of
  two dated documents is dated (`MergeIsDated` and its lemmas), so that
  overtaking and kills, which only choose which document stays, change nothing
  for what is stale. For what is fresh, `Abreast` says that a run which has read
  and is not `overtaken` still has in hand what the file says, so that its rename
  drops nothing young (`YoungIsServed`).
  `Directory` is about names: `Naming` says that a name stands in the directory
  once, a run's only while its temporary file does, and one for each kill at most.
  `Alone` says, of a run without company, how many files there are at each step of
  a save, that the last of them is its own, and that what it has set out to unlink
  leaves no more than KEEP and spares the last. Lemmas about `Picked` (its members,
  their order, its length) carry it through each rename and unlink.
* `Session`: a recheck that runs is the one that the process knows of, also after
  a reload has made the browse stop watching it. The frames need `OrderInv`, which
  orders by their turns the answers that stand in five places: `Causal`, none is
  ahead of the control plane; `Ordered`, the document is not behind the screen, nor is the
  next frame, for any partition it shows; `Written`, until a recheck has saved,
  nobody has newer answers than it, about the partitions it asks for; `Followed`,
  what a browse polls, or has just reloaded for, is not contradicted by anything
  older by then. The middle two leave out what is `crossed`, and all speak of the
  document only where it has an answer, because answers lapse.
* `IdleRefresh`: the promise is about how long a reading has stood (`since`) and
  how many refreshes went by without a key or a correction (`alone`), the code
  counts expired polls (`quiet`) and its own refreshes (`backoff`). `Fair`
  connects the second pair: between a key, or a correction, and the frame after
  it `alone` is zero, and otherwise it is no more than the refreshes that were
  counted; `Waiting` the first: a browse waits at least the doubled interval, or
  the cap, and has been on the screen for as long as it has counted. That more
  doublings are a longer wait (`DoubledGrows`) is an induction, and so is that
  the recursive function exists (`DoubledDefined`); both go by the least number
  for which it would fail, since the library's induction cannot be used.
* `Terminal`: `Standing` lists the shapes the main thread's list of steps can
  have, one for each place in `_RawMode`, with what has been taken at each; a
  stopped process is at one of them. That every step leads from one shape to
  another is the proof, and the reason why arming again after a Ctrl-Z cannot be
  forgotten at any depth.
* `McpServer`: `Spaced` says that the throttle's memory is not before the latest
  burst, and that a command that may ask began at it or an interval after;
  `Aware`, that a running command's note is about its own line; `Answering` adds
  to `AnsweredOnce` that no reply is addressed to a line not yet come to.
* `SnapshotLoad`: `Guarding` says that a loader whose command runs under a lock
  holds it, and that there is no answer yet; `Agreeing`, that what was worked with
  is what is kept; `Counting`, that a latched command has been run once or not at
  all. For the replay, a loader's way through its commands is a function of the
  answers (`After`): `Path` says that a finite number of answers of one recording
  lead it from its start to where it is. Two such ways along one recording are the
  same as far as both go, and at an end neither goes on, so the load and its replay
  end alike (`Following`). `Recording` adds what is true of every load, also of one
  that asked twice: whatever a replay works with stands in the recording, and the
  first command of every loader does. That a lookup finds a recording of the
  command itself is where `WordsAssumption` is used.
* `Inventory`: `Taken` adds to that the types and `Answered`: a loader that has not
  failed has, of each of its commands that it is done with, an answer, or one of
  what it reads instead. So whatever is `Needed` has been had (`NeededIsHad`), and a
  snapshot is a function of versions of the cluster. The rest is about what the
  backends make of one, in three lemmas for each of them: a node is schedulable if
  its host is in service, and not if it takes no work (`SlurmTells` and the others);
  a queue names its own hosts only, and declares more of them than it names where it
  has not all (`SlurmIsFair`); a node is not freer than its host (`SlurmFree`).
  Where a queue starts nothing all its room is taken from it
  (`WhereNothingStarts`), and `RoomOfAQueue` adds up nodes read at one moment and
  members read at another. The sums are over sets of any size: that one is at most
  another where each term is (`SumBelow`), is halved, tripled or added term by term,
  goes by a least subset for which it would not. The hardest of the three is
  Kubernetes': what is counted of a pod is at least what is reserved for it, whatever its
  init containers and sidecars ask (`PodIsCounted`), but for the cores that
  `Blurred` names.
* `JobView`: whoever holds a lock is after that list, which is unread (`Holding`),
  and whoever is after the second list alone has had the first (`Ordered`): two
  lists in flight would need the first read and unread. That order is also what the
  frames need: the shares of a snapshot are never of an earlier instant than its
  jobs (`Stamped`), and a reader in a job frame is after lists of the snapshot on the
  screen, and after none only when both are there, or the node has no jobs
  (`Framed`). A reload that left them asking of the old one would break the latter.
* `Browse`: what is on the screen is the block of the level on top, and `painted`
  or, during a reload, `standing` is its height. Readings of any height are
  covered, because overwriting as many lines as there are leaves none (`OverAll`).
  `Placed` says that the stack starts at the overview, that each level is of a
  deeper kind than the one before it (`Depth`), and that all of them are in the
  reading; that what is popped, dropped on a resume or settled leaves such a stack
  follows from the order `Picked` keeps, and that the cursor stays on a row from
  `RowShape` and `StepStays`. `Tracked` says that where the next level could be a row
  at all, the cursor a level was left at is the row's place in *some* reading, in
  which it opened. A level dropped in between leaves two that are not next in kind,
  and neither is ever a row of the other (`RowKinds`, `ResumedTracked`).
* `Placement`: a judgement is about the cluster at two earlier instants, and the
  promises are about the cluster now. `Inv` connects them: no node is ever handed
  out beyond what it has (`Given`); each reading is of nodes and jobs that there
  were, and undisturbed since, the jobs that run are among those and no node has
  left (`NodesOnceRead`, `FreeOnceRead`); the answer is a judgement of those
  readings (`Judged`); and a job that was started could be (`StartedWhereItCould`).
  It was model-checked over the cases of the run before it was proved. The rest is
  about what the operators compute. On the side of the hardware: a node that reads
  as fitting takes the job (`FittingTakes`), one that could take it empty reads as
  able to (`CouldTakeIsRead`), and so `HardwareIsEnough` for whatever is started;
  `FreeWhenTheLastEnds` and `FreedTakes` carry a node from its reading to the time
  of the estimate. What a node holds is a sum over the jobs on it: that such a
  sum loses its part when a job is taken out (`SumTakesOut`), and grows with the
  set (`SumGrows`), follows from the library's fold by taking a least subset for
  which it would not. On the side of the ceilings: of each scheduler's limit set,
  where it is legible, what is read is what binds (`LimitSetsAreRead`, from one
  lemma for each reader); the set that is checked is the one that binds
  (`CheckedBinds`), and no refusal comes from somebody else's
  (`NobodyElsesCeiling`). On the side of the dry-run: whatever each control plane
  prints of somebody who is welcome, or is not, is read as that, as no answer, or
  as nothing lasting (`VerdictIsOfTheTruth`), the account that is asked for is one
  it takes where there is one (`DecidedIsTaken`, `ControlPlaneSays`).

### Only model-checked

* All liveness: `SweepEnds`, `ScreenCatchesUp`, `FatalEnds`, `AllAnswered`,
  `LoadEnds`, `FrameComes`. Neither fairness nor ENABLED is within the prover's reach.
* `SettlesAtCap` of `IdleRefresh` is violated, and `OneInstant` of `Inventory` too
  (section 4): there is nothing to prove.
* `ListsAreTrue` of `JobView` and `ListsAreReadBack` of `Inventory`: what parsers
  make of lists, by nested folds over sequences and over maps of records. A sum over a
  set, or a power, can be had by a least counterexample, as above; a parser of
  this kind, each fold with a statement of its own about every prefix, is out of
  proportion to what it would show beyond the instances. So are `CardsAreRead` and
  `ExclusionsAreRead`, on which `Placement_proofs` rests.

## 6. What is not modelled

* Text: how output is split into records and fields, durations, rendering. The
  modules of the backends begin at words and numbers; `Hostlist` and
  `Accelerators` at tokens. Five parts stand for
  the rows of the accelerators' table, and the names `name_accelerator` prints of unknown cards
  decide nothing.
* In the backends, when a busy node will be free, reservations, taints, the job
  lists of the schedulers other than Slurm (which give no shares) and the names
  of cards. A command of a loader stands for all the commands it
  runs to read one thing. LSF's host groups do not change between versions.
* In `Placement`, the queue's allow and deny lists are one input, one of four
  states stands for what keeps everybody out, and reservations, a soft blocker,
  are left out. In `DryRun`, the wording of a reason and the nodes it predicts.
* In `Session`, seconds: `rested` stands for the pause a recheck must keep, and
  a verdict lapses at any moment. Other runs that write the same document are
  `AccessCache`'s, as are the two steps of a save; and a reading in which no
  partition has room, of which there is nothing to ask, is left out. In
  `IdleRefresh`, `quiet` and the clocks saturate at the cap, above which the
  code does not tell them apart.
* In `Terminal`, installing the handlers of all signals is one step.
* In `Browse`, a burst of one key that is drawn once is keys one by one, and a
  change of the window's size is left out.
* In `SnapshotLoad`, commands no two loaders share are left out of a table where
  the loader reads no other, and PBS's retry of its node query in text is part
  of that query. In `JobView`, how many daemon threads are started is bounded by
  their number.
* The target of a snapshot has the recording whole or not at all; the shapes that
  `_load_replay` refuses (a hand-edited file) are left out.
* The reports, argument parsing, the registry of backends.

## 7. Plan

1. *(done)* The components with state, their composition and the abstract
   promise of a sweep: all the modules of section 2.
2. *(done)* What words stand for: the lookup of recordings, host lists, the
   accelerator vocabulary, jobs and shares, queues nobody knows.
3. *(done)* Proofs of what the runs check wherever it does not depend on the value
   of a recursive definition: the safety and action properties of `ProbeSweep`,
   `AccessCache`, `Session`, `IdleRefresh`, `Terminal`, `McpServer`, `SnapshotLoad`,
   `Inventory`, `Browse`, `JobView` and `Placement`, and the types of all ten: every
   invariant that a passing run checks.
4. *(open)* Free times of a busy node (`load_free_times` of four backends), which
   `Placement` takes as read.
   `auth can-i` (`kubernetes.py:492`), if the code comes to tell a refusal from a
   failure: `TakersAreReachable` would then need no exception.
