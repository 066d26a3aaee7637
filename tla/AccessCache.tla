----------------------------- MODULE AccessCache -----------------------------
(***************************************************************************)
(* The directory of remembered answers of core/access.py, and the runs of  *)
(* nodetop that share it without a lock: several sessions, printouts and   *)
(* background rechecks of one user on one login node.  A run asks the      *)
(* control plane, then `save`s: read, merge, write a temporary file,       *)
(* rename it over the target, prune the directory.  Another run may act    *)
(* between any two of those, and a run may be killed at any of them.       *)
(***************************************************************************)
EXTENDS AccessDocument, FiniteSets, SequencesExt, Selection

CONSTANTS
    Questions,  \* what may be asked: one file each
    Everyone,   \* the runs of the tool there may be
    Sites       \* the directories, each a record of what follows

\* What names a file names no other.
ASSUME NamesAssumption ==
    Questions \cap Everyone = {} /\ (Questions \cup Everyone) \cap Nat = {}

ASSUME CacheAssumption ==
    \A s \in Sites :
        /\ s.keys \subseteq Questions /\ IsFiniteSet(s.keys)
        /\ s.runs \subseteq Everyone /\ IsFiniteSet(s.runs)
        /\ s.answers \subseteq Verdict /\ s.stored \subseteq Verdict
        /\ s.keep \in Nat \ {0}
        /\ s.maxTime \in Nat /\ s.maxSpan \in Nat /\ s.maxKills \in Nat

VARIABLES
    site,   \* the directory, and who shares it
    now,    \* the wall clock
    file,   \* the document in each question's file
    recent, \* the *.json files of the directory, least recently written first
    run,    \* each run: where it stands, its question, what it was told and
            \* when, and the document it has read or written
    listed, \* the files a run's `_prune` has found, then those it will unlink
    kills,  \* runs killed so far
    overtaken \* history: the runs about to write what another's rename has made
              \* old since they read it

vars == <<site, now, file, recent, run, listed, kills, overtaken>>

Keys == site.keys         \* the questions that are asked there
Runs == site.runs         \* the runs that share it
Answers == site.answers   \* the verdicts the control plane gives; "unsettled" is one
Stored == site.stored     \* the verdicts an earlier version of the tool left on disk
Keep == site.keep         \* KEEP: how many files `_prune` leaves
MaxTime == site.maxTime   \* bound: the clock stops here
MaxSpan == site.maxSpan   \* bound: how long a run holds an answer before it is stamped
MaxKills == site.maxKills \* bound: how many runs are killed outright

\* A question's file is named by the question, a run's temporary file by the
\* run, the one a killed run leaves behind by a number; 0 names no file.
Present == Range(recent)
Renamed(f, old, new) == IF f = old THEN new ELSE f
RenamedIn(files, old, new) == {Renamed(f, old, new) : f \in files}

NoVerdicts == [p \in Partitions |-> "none"]
NoTimes == [p \in Partitions |-> Never]
Idle == [pc |-> "idle", key |-> 0, got |-> NoVerdicts, when |-> NoTimes,
         draft |-> Missing]

Init ==
    /\ site \in Sites
    /\ now = 0
    /\ file \in [Keys -> {Missing} \cup {Legacy(v, 0) : v \in [Partitions -> Stored]}]
    /\ Cardinality({k \in Keys : file[k] # Missing}) <= Keep
    /\ recent \in SetToSeqs({k \in Keys : file[k] # Missing})
    /\ run = [r \in Runs |-> Idle]
    /\ listed = [r \in Runs |-> {}]
    /\ kills = 0
    /\ overtaken = {}

-----------------------------------------------------------------------------
\* A sweep is bounded: its budget of dry-runs, each with a timeout.
Overdue(r) ==
    /\ run[r].pc \in {"asking", "read"}
    /\ \E p \in Remembered(run[r].got) : now - run[r].when[p] >= MaxSpan

Tick ==
    /\ now < MaxTime
    /\ \A r \in Runs : ~Overdue(r)
    /\ now' = now + 1
    /\ UNCHANGED <<site, file, recent, run, listed, kills, overtaken>>

-----------------------------------------------------------------------------
(* A run of the tool.                                                      *)

Begin(r, k) ==
    /\ run[r].pc = "idle"
    /\ run' = [run EXCEPT ![r].pc = "asking", ![r].key = k]
    /\ UNCHANGED <<site, now, file, recent, listed, kills, overtaken>>

\* One partition's verdict: yes, no, or "the control plane did not settle it".
Ask(r, p) ==
    /\ run[r].pc = "asking"
    /\ run[r].got[p] = "none"
    /\ \E v \in Answers :
          run' = [run EXCEPT ![r].got[p] = v, ![r].when[p] = now]
    /\ UNCHANGED <<site, now, file, recent, listed, kills, overtaken>>

\* save: `_read` of what is there.
Read(r) ==
    /\ run[r].pc = "asking"
    /\ Remembered(run[r].got) # {}
    /\ run' = [run EXCEPT ![r].pc = "read", ![r].draft = file[run[r].key]]
    /\ UNCHANGED <<site, now, file, recent, listed, kills, overtaken>>

\* save: stamp the merged document and write it to a temporary file.
Write(r) ==
    /\ run[r].pc = "read"
    /\ run' = [run EXCEPT ![r].pc = "written",
                          ![r].draft = Merge(@, run[r].got, run[r].when, now)]
    /\ recent' = Append(recent, r)
    /\ UNCHANGED <<site, now, file, listed, kills, overtaken>>

\* A run's temporary file ceases to be under that name.
Vanish(r, new) == listed' = [w \in Runs |-> RenamedIn(listed[w], r, new)]

\* The runs that have read question k's file and not yet renamed theirs over it.
Behind(k) == {w \in Runs : run[w].pc \in {"read", "written"} /\ run[w].key = k}

\* save: os.replace, which keeps the temporary file's modification time.
Replace(r) ==
    /\ run[r].pc = "written"
    /\ r \in Present
    /\ file' = [file EXCEPT ![run[r].key] = run[r].draft]
    /\ recent' = LET others == Without(recent, run[r].key)
                 IN [i \in DOMAIN others |-> Renamed(others[i], r, run[r].key)]
    /\ run' = [run EXCEPT ![r].pc = "saved"]
    /\ Vanish(r, 0)
    /\ overtaken' = (overtaken \cup Behind(run[r].key)) \ {r}
    /\ UNCHANGED <<site, now, kills>>

\* save: the temporary file is gone, or the disk refuses: False, no pruning.
Fail(r) ==
    /\ run[r].pc \in {"read", "written"}
    /\ recent' = Without(recent, r)
    /\ run' = [run EXCEPT ![r] = Idle]
    /\ Vanish(r, 0)
    /\ overtaken' = overtaken \ {r}
    /\ UNCHANGED <<site, now, file, kills>>

\* Seeded bug: the count is compared one too high.
ListOneTooMany(r) ==
    /\ run[r].pc = "saved"
    /\ IF Len(recent) <= Keep + 1
       THEN run' = [run EXCEPT ![r] = Idle] /\ UNCHANGED listed
       ELSE /\ run' = [run EXCEPT ![r] = [Idle EXCEPT !.pc = "listed"]]
            /\ listed' = [listed EXCEPT ![r] = Present]
    /\ UNCHANGED <<site, now, file, recent, kills, overtaken>>

\* _prune: listdir.  Nothing to do is the usual case.
List(r) ==
    /\ run[r].pc = "saved"
    /\ IF Len(recent) <= Keep
       THEN run' = [run EXCEPT ![r] = Idle] /\ UNCHANGED listed
       ELSE /\ run' = [run EXCEPT ![r] = [Idle EXCEPT !.pc = "listed"]]
            /\ listed' = [listed EXCEPT ![r] = Present]
    /\ UNCHANGED <<site, now, file, recent, kills, overtaken>>

\* Seeded bug: the slice from the wrong end, so the newest files go.
NewestOf(files) ==
    LET kept == Picked(recent, files)
    IN {kept[i] : i \in Keep + 1 .. Len(kept)}

\* All but the Keep most recently written of these files.
OldestOf(files) ==
    LET kept == Picked(recent, files)
    IN {kept[i] : i \in 1 .. Len(kept) - Keep}

\* _prune: getmtime of each, and sort.  One that has vanished ends the pruning.
Sort(r) ==
    /\ run[r].pc = "listed"
    /\ IF listed[r] \subseteq Present
       THEN /\ run' = [run EXCEPT ![r].pc = "pruning"]
            /\ listed' = [listed EXCEPT ![r] = OldestOf(@)]
       ELSE /\ run' = [run EXCEPT ![r] = Idle]
            /\ listed' = [listed EXCEPT ![r] = {}]
    /\ UNCHANGED <<site, now, file, recent, kills, overtaken>>

\* _prune: unlink one, by name, whatever the name holds by now; the last one
\* ends the save.
Unlink(r) ==
    /\ run[r].pc = "pruning"
    /\ \E old \in listed[r] :
          /\ listed' = [listed EXCEPT ![r] = @ \ {old}]
          /\ recent' = Without(recent, old)
          /\ file' = IF old \in Keys THEN [file EXCEPT ![old] = Missing] ELSE file
    /\ run' = IF listed'[r] = {} THEN [run EXCEPT ![r] = Idle] ELSE run
    /\ UNCHANGED <<site, now, kills, overtaken>>

\* SIGKILL, a closed session, a power cut: a temporary file stays behind.
Kill(r) ==
    /\ run[r].pc # "idle"
    /\ kills < MaxKills
    /\ kills' = kills + 1
    /\ run' = [run EXCEPT ![r] = Idle]
    /\ recent' = [i \in DOMAIN recent |-> Renamed(recent[i], r, kills')]
    /\ listed' = [w \in Runs |-> IF w = r THEN {} ELSE RenamedIn(listed[w], r, kills')]
    /\ overtaken' = overtaken \ {r}
    /\ UNCHANGED <<site, now, file>>

Step(r) ==
    \/ \E k \in Keys : Begin(r, k)
    \/ \E p \in Partitions : Ask(r, p)
    \/ Read(r) \/ Write(r) \/ Replace(r) \/ Fail(r)
    \/ List(r) \/ Sort(r) \/ Unlink(r) \/ Kill(r)

Next == Tick \/ \E r \in Runs : Step(r)

Spec == Init /\ [][Next]_vars

-----------------------------------------------------------------------------
(* Correctness.                                                            *)

Time == 0 .. MaxTime
Clock == Time \cup {Never}
Document == [at : Clock, verdicts : [Partitions -> Verdict \cup {"none"}],
             seen : [Partitions -> Clock], asked : [Partitions -> Clock]]
Names == Keys \cup Runs \cup 1 .. MaxKills

\* The variables are of the types the code gives their counterparts, and the
\* directory lists exactly the questions that have a document.
TypeOK ==
    /\ site \in Sites
    /\ now \in Time
    /\ file \in [Keys -> Document]
    /\ recent \in Seq(Names) /\ IsInjective(recent)
    /\ Present \cap Keys = {k \in Keys : file[k] # Missing}
    /\ run \in [Runs -> [pc : {"idle", "asking", "read", "written", "saved", "listed", "pruning"},
                         key : Keys \cup {0}, got : [Partitions -> Verdict \cup {"none"}],
                         when : [Partitions -> Clock], draft : Document]]
    /\ listed \in [Runs -> SUBSET (Names \cup {0})]
    /\ kills \in 0 .. MaxKills
    /\ overtaken \subseteq Runs

\* No verdict is served that the control plane gave longer ago than the TTL,
\* give or take the sweep that obtained it: merging a document never renews
\* what was not asked again.
NothingStaleServed ==
    \A k \in Keys : \A p \in Served(file[k], now) :
        now - file[k].asked[p] <= TTL + MaxSpan

\* A run renames its document over question k's file.
Renames(r, k) == run[r].pc = "written" /\ run[r].key = k /\ run'[r].pc = "saved"

\* The converse, which is what the merge is for: a verdict younger than the TTL
\* that a document holds is still served after any step, and says what it said,
\* unless the run that writes was itself told otherwise.  It goes only with the
\* whole file, when `_prune` drops that, or where `save` says it may: "the
\* loser's whole answer is simply lost" to a run whose reading is older than it.
FreshIsKept ==
    [][\A k \in Keys : \A p \in Remembered(file[k].verdicts) :
          now' - file[k].asked[p] <= TTL /\ file'[k] # Missing =>
              \/ /\ p \in Served(file'[k], now')
                 /\ \/ file'[k].verdicts[p] = file[k].verdicts[p]
                    \/ \E r \in Runs : Renames(r, k) /\ p \in Remembered(run[r].got)
              \/ \E r \in overtaken : Renames(r, k)]_vars

\* A run's rename brings its own answer in whole: whoever loads next is served
\* exactly what this run was told.
OwnAnswerLands ==
    [][\A r \in Runs : run[r].pc = "written" /\ run'[r].pc = "saved" =>
          \A p \in Remembered(run[r].got) :
              file'[run[r].key].verdicts[p] = run[r].got[p]]_vars

\* KEEP: "at most this many remembered answers".  Between the saves of a run
\* that has the directory to itself that is so, whatever was left behind by the
\* ones that were killed: each of those adds at most one file, until the next
\* save counts it.
DirectoryBounded ==
    Cardinality(Runs) = 1 /\ (\A r \in Runs : run[r].pc \in {"idle", "asking"}) =>
        Len(recent) <= Keep + kills

\* `_prune`: "Keep the newest KEEP answers".  The answer written last, at least,
\* is never the one that goes, as long as no other run writes under a name that
\* this one has already found old.
NewestSurvives ==
    [][Cardinality(Runs) = 1 =>
          \A k \in Keys \cap (Present \ Range(recent')) : Last(Picked(recent, Keys)) # k]_vars
=============================================================================
