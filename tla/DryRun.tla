------------------------------- MODULE DryRun -------------------------------
(***************************************************************************)
(* How the answer to a dry-run is read (parse_probe and classify of        *)
(* backends/slurm.py, probe of sge.py and kubernetes.py), and what the     *)
(* three control planes may print.                                         *)
(*                                                                         *)
(* A text is the set of phrases in it: each names a pattern the readers    *)
(* look for, and "other" stands for words that none of them knows.  Not    *)
(* "ran" is a command that is missing, times out or cannot be run, and     *)
(* "failed" one that exits with another status than 0.                     *)
(***************************************************************************)
EXTENDS Sequences, FiniteSetsExt

CONSTANT Unnamed    \* where a QOS could be printed and none is

Categories ==
    {"OK", "NOT_ENTITLED", "ACCOUNT_MISMATCH", "NO_ACCOUNT", "ACCESS_DENIED", "GROUP_DENIED", "UNKNOWN_QUEUE",
     "QUEUE_CLOSED", "SHAPE_UNAVAILABLE", "QUOTA_EXCEEDED", "INVALID_QOS", "TIME_LIMIT", "CONTROL_PLANE_DOWN",
     "NOT_SUPPORTED", "ACCOUNTS_UNTRIED", "UNKNOWN"}

\* Nobody was asked, or the scheduler has no dry-run.
NoVerdict == [allowed |-> FALSE, category |-> "none", start |-> "unsaid", effective |-> Unnamed]
Refused(why, qos) == [NoVerdict EXCEPT !.category = why, !.effective = qos]
Accepted(start, qos) == [allowed |-> TRUE, category |-> "OK", start |-> start, effective |-> qos]

\* Categories that say nothing lasting of the caller's access.
Transient == {"CONTROL_PLANE_DOWN", "SHAPE_UNAVAILABLE", "NOT_SUPPORTED", "ACCOUNTS_UNTRIED", "UNKNOWN"}
Durable(v) == v # NoVerdict /\ v.category \notin Transient

\* The first pattern of a table that is in the text decides.
FirstOf(table, text) ==
    LET found == {i \in DOMAIN table : table[i][1] \in text}
    IN  IF found = {} THEN "UNKNOWN" ELSE table[Min(found)][2]

-----------------------------------------------------------------------------
(* Slurm: what a site's filter said and why, its plugin, the core, and the *)
(* rest of the text; the QOS a site may print, and the start of the job.   *)

SlurmPatterns ==
    << <<"script not written", "CONTROL_PLANE_DOWN">>, <<"no controller", "CONTROL_PLANE_DOWN">>,
       <<"not a member", "NOT_ENTITLED">>, <<"combination", "ACCOUNT_MISMATCH">>,
       <<"no account", "NO_ACCOUNT">>, <<"invalid account", "NOT_ENTITLED">>,
       <<"group", "GROUP_DENIED">>, <<"no partition", "UNKNOWN_QUEUE">>,
       <<"partition down", "QUEUE_CLOSED">>, <<"invalid qos", "INVALID_QOS">>,
       <<"policy", "QUOTA_EXCEEDED">>, <<"time limit", "TIME_LIMIT">>,
       <<"configuration", "SHAPE_UNAVAILABLE">>, <<"no units left", "QUOTA_EXCEEDED">>,
       <<"permission", "ACCESS_DENIED">> >>

\* The core's refusal outranks the filter's PASSED, and the status any text.
SlurmReads(o) ==
    LET said == o.reason \cup o.plugin \cup o.core IN
    IF ~o.ran THEN Refused("CONTROL_PLANE_DOWN", Unnamed)
    ELSE IF o.filter = "REJECTED" \/ o.core # {} \/ o.plugin # {}
         THEN Refused(FirstOf(SlurmPatterns, said), o.qos)
    ELSE IF o.failed THEN Refused(FirstOf(SlurmPatterns, said \cup o.rest), o.qos)
    ELSE Accepted(o.start, o.qos)

SlurmSays(truth, qos, start) ==
    LET ok == [ran |-> TRUE, failed |-> FALSE, filter |-> "none", reason |-> {}, plugin |-> {},
               core |-> {}, rest |-> {}, qos |-> qos, start |-> start]
        filtered(S) == S \cup {[o EXCEPT !.filter = "PASSED"] : o \in S}
        no == [ok EXCEPT !.failed = TRUE]
        core(text) == [no EXCEPT !.core = text]
        rest(text) == [no EXCEPT !.rest = text]
    IN  CASE truth = "accepts" -> filtered({ok, [ok EXCEPT !.rest = {"other"}]})
          [] truth = "down" -> {[no EXCEPT !.ran = FALSE]} \cup
                filtered({core({"script not written"}), rest({"no controller"}), rest({"other"})})
          [] truth = "full" -> filtered({core({"configuration"})})
          [] truth = "no qos" -> filtered({core({"invalid qos"})})
          [] truth = "denied" -> filtered({core({"not a member"}), core({"combination", "invalid account"}),
                                           rest({"other"}), [core({"other"}) EXCEPT !.plugin = {"other"}]})
                \cup {[core({"permission"}) EXCEPT !.filter = "REJECTED", !.reason = {"no units left"}]}

-----------------------------------------------------------------------------
(* Grid Engine: text alone.                                                *)

SgePatterns ==
    << <<"suitable", "OK">>, <<"none suitable", "SHAPE_UNAVAILABLE">>, <<"no permission", "NOT_ENTITLED">>,
       <<"no queue", "UNKNOWN_QUEUE">>, <<"no master", "CONTROL_PLANE_DOWN">> >>

SgeReads(o) ==
    IF ~o.ran THEN Refused("CONTROL_PLANE_DOWN", Unnamed)
    ELSE IF FirstOf(SgePatterns, o.text) = "OK" THEN Accepted("unsaid", Unnamed)
    ELSE Refused(FirstOf(SgePatterns, o.text), Unnamed)

SgeSays(truth) ==
    LET says(texts) == {[ran |-> TRUE, text |-> text] : text \in texts}
    IN  CASE truth = "accepts" -> says({{"suitable"}})
          [] truth = "down" -> says({{"no master"}, {"other"}}) \cup {[ran |-> FALSE, text |-> {}]}
          [] truth = "full" -> says({{"none suitable"}})
          [] truth = "denied" -> says({{"no permission"}, {"no permission", "none suitable"}})
          [] OTHER -> {}

-----------------------------------------------------------------------------
(* Kubernetes: may the caller create pods, and would this one be admitted. *)

KubernetesPatterns ==
    << <<"quota", "QUOTA_EXCEEDED">>, <<"forbidden", "NOT_ENTITLED">>, <<"no namespace", "UNKNOWN_QUEUE">>,
       <<"insufficient", "SHAPE_UNAVAILABLE">>, <<"unreachable", "CONTROL_PLANE_DOWN">> >>

\* Only an explicit yes counts; whatever else came back is a no.
KubernetesReads(o) ==
    IF ~o.asked.ran THEN Refused("CONTROL_PLANE_DOWN", Unnamed)
    ELSE IF o.asked.failed \/ "yes" \notin o.asked.text THEN Refused("NOT_ENTITLED", Unnamed)
    ELSE IF ~o.run.ran THEN Refused("CONTROL_PLANE_DOWN", Unnamed)
    ELSE IF ~o.run.failed THEN Accepted("unsaid", Unnamed)
    ELSE Refused(FirstOf(KubernetesPatterns, o.run.text), Unnamed)

KubernetesSays(truth) ==
    LET out(failed, text) == [ran |-> TRUE, failed |-> failed, text |-> text]
        lost == [ran |-> FALSE, failed |-> TRUE, text |-> {}]
        says(asked, runs) == {[asked |-> asked, run |-> run] : run \in runs}
        yes == out(FALSE, {"yes"})
    IN  CASE truth = "accepts" -> says(yes, {out(FALSE, {}), out(FALSE, {"quota"})}) \* a warning holds any words
          [] truth = "down" -> says(lost, {lost}) \cup says(out(TRUE, {"unreachable"}), {lost})
                               \cup says(yes, {lost, out(TRUE, {"unreachable"}), out(TRUE, {"other"})})
          [] truth = "full" -> says(yes, {out(TRUE, {"insufficient"})})
          [] truth = "denied" -> says(out(TRUE, {"no"}), {lost})
                                 \cup says(yes, {out(TRUE, {"forbidden"}), out(TRUE, {"quota", "forbidden"})})
          [] OTHER -> {}

-----------------------------------------------------------------------------
(* What may be read of a control plane, given what is true.                *)

Tells(by, truth, qos, start) ==
    CASE by = "slurm" -> {SlurmReads(o) : o \in SlurmSays(truth, qos, start)}
      [] by = "sge" -> {SgeReads(o) : o \in SgeSays(truth)}
      [] by = "kubernetes" -> {KubernetesReads(o) : o \in KubernetesSays(truth)}
=============================================================================
