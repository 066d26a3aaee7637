---------------------------- MODULE Entitlement ----------------------------
(***************************************************************************)
(* What a dry-run sweep promises its caller, whatever the order it asks    *)
(* in: each queue gets at most one answer, an answer that claims something *)
(* is true of the control plane, the questions put to the control plane    *)
(* are bounded, and nobody is waved through to submit what every queue     *)
(* refuses.                                                                *)
(***************************************************************************)
EXTENDS Naturals

CONSTANTS Queues, Who, MaxCalls

VARIABLES
    admits, \* per queue, the accounts the control plane would let in
    calls,  \* dry-runs sent
    answer, \* "pending", a definite "yes" or "no", or "open": not settled
    waved   \* the caller may go on to submit

vars == <<admits, calls, answer, waved>>

Init ==
    /\ admits \in [Queues -> SUBSET Who]
    /\ calls = 0
    /\ answer = [q \in Queues |-> "pending"]
    /\ waved = FALSE

Ask ==
    /\ calls < MaxCalls
    /\ calls' = calls + 1
    /\ UNCHANGED <<admits, answer, waved>>

Conclude(q, v) ==
    /\ answer[q] = "pending"
    /\ v = "yes" => admits[q] # {}
    /\ v = "no" => admits[q] = {}
    /\ answer' = [answer EXCEPT ![q] = v]
    /\ UNCHANGED <<admits, calls, waved>>

\* The last word: it stands on an answer, and no answer follows it.
Wave ==
    /\ \A q \in Queues : answer[q] # "pending"
    /\ \E q \in Queues : answer[q] = "yes" /\ admits[q] # {}
    /\ waved' = TRUE
    /\ UNCHANGED <<admits, calls, answer>>

Next == Ask \/ Wave \/ \E q \in Queues, v \in {"yes", "no", "open"} : Conclude(q, v)

Spec == Init /\ [][Next]_vars
=============================================================================
