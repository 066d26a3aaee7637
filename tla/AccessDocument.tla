--------------------------- MODULE AccessDocument ---------------------------
(***************************************************************************)
(* One remembered answer of core/access.py: the JSON document a question's *)
(* file holds, what `save` turns it into and what `load` reads out of it.  *)
(*                                                                         *)
(* `asked` is not in the file.  It records when the control plane was      *)
(* really asked, which is what the file's own clocks are judged against.   *)
(***************************************************************************)
EXTENDS Integers

CONSTANTS
    Partitions, \* the partitions verdicts are stored for
    TTL         \* NODETOP_ACCESS_TTL: how old a verdict may be and be served

ASSUME TTLAssumption == TTL \in Nat

Never == -1
Verdict == {"yes", "no", "unsettled"}

\* Nothing at all: no file, or one that cannot be read.
Missing == [at |-> Never,
            verdicts |-> [p \in Partitions |-> "none"],
            seen |-> [p \in Partitions |-> Never],
            asked |-> [p \in Partitions |-> Never]]

\* Some partitions' verdicts, each with the moment it was given.
Remembered(v) == {p \in Partitions : v[p] # "none"}

\* A file written before `seen` existed: one clock for the whole document.
Legacy(v, t) == [at |-> t, verdicts |-> v,
                 seen |-> [p \in Partitions |-> Never],
                 asked |-> [p \in Partitions |-> IF v[p] = "none" THEN Never ELSE t]]

\* Seeded bug: one clock for the whole document again, so that a write about
\* one partition renews what was remembered of the others.
MergeRestamps(before, v, t, stamp) ==
    LET merged == [p \in Partitions |-> IF v[p] # "none" THEN v[p] ELSE before.verdicts[p]]
    IN [at |-> stamp, verdicts |-> merged,
        seen |-> [p \in Partitions |-> IF merged[p] = "none" THEN Never ELSE stamp],
        asked |-> [p \in Partitions |-> IF v[p] # "none" THEN t[p] ELSE before.asked[p]]]

\* Seeded bug: what is remembered wins over what was just learned.
MergeKeepsOld(before, v, t, stamp) ==
    LET Old(p) == before.verdicts[p] # "none" IN
    [at |-> stamp,
     verdicts |-> [p \in Partitions |-> IF Old(p) THEN before.verdicts[p] ELSE v[p]],
     seen |-> [p \in Partitions |-> IF v[p] # "none" THEN stamp ELSE before.seen[p]],
     asked |-> [p \in Partitions |-> IF Old(p) THEN before.asked[p] ELSE t[p]]]

\* Seeded bug: the document is replaced by the new answer, not merged with it.
MergeForgets(before, v, t, stamp) ==
    [at |-> stamp, verdicts |-> v,
     seen |-> [p \in Partitions |-> IF v[p] # "none" THEN stamp ELSE Never],
     asked |-> [p \in Partitions |-> IF v[p] # "none" THEN t[p] ELSE Never]]

\* The document `save` writes at `stamp` for the verdicts v obtained at times t,
\* over the document it read: merged, and each verdict with its own clock.
Merge(before, v, t, stamp) ==
    LET Clock(p) == IF before.verdicts[p] = "none" THEN Never
                    ELSE IF before.seen[p] # Never THEN before.seen[p]
                    ELSE before.at
    IN [at |-> stamp,
        verdicts |-> [p \in Partitions |-> IF v[p] # "none" THEN v[p] ELSE before.verdicts[p]],
        seen |-> [p \in Partitions |-> IF v[p] # "none" THEN stamp ELSE Clock(p)],
        asked |-> [p \in Partitions |-> IF v[p] # "none" THEN t[p] ELSE before.asked[p]]]

\* `load` finds a document that is fresh as a whole.
Readable(doc, now) == doc.at # Never /\ now - doc.at <= TTL

\* The partitions whose verdicts `load` returns.
Served(doc, now) ==
    {p \in Remembered(doc.verdicts) :
        Readable(doc, now) /\ (doc.seen[p] # Never => now - doc.seen[p] <= TTL)}
=============================================================================
