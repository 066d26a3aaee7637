----------------------------- MODULE ProbeSweep -----------------------------
(***************************************************************************)
(* The dry-run sweep of nodetop: core/fit.py `rank`, which `where` and     *)
(* `status` call, or cli.py `cmd_check` hands its queues to a small thread *)
(* pool, each queue walks its candidate accounts (`probe_queue`), and all  *)
(* of the walks share one `ProbeBudget`.                                   *)
(*                                                                         *)
(* A worker thread is not named: a queue whose phase is neither "queued"   *)
(* nor "settled" is being walked by one of the PoolSize workers.  Each     *)
(* action is one critical section of the budget's lock, one round trip to  *)
(* the control plane, or the thread-local code between two of those.       *)
(***************************************************************************)
EXTENDS Integers, FiniteSets, Sequences

CONSTANTS
    Queues,        \* the queues `rank` evaluates, or `check` is about
    NamesAsked,    \* len(names): what the budget is shared between
    NameOrder,     \* the alphabetical rank of each queue's name
    Accounts,      \* the accounts the caller holds
    Position,      \* the place of each account in the caller's list
    NoAccount,     \* Python's None: "probe without naming an account"
    AllowAccounts, \* per queue, the accounts its allowlist names, the caller's
                   \* or not; {} is ALL
    Hopeless,      \* queues an operational blocker or their hardware rules out
    IdentityFailed,\* cluster.errors["identity"]: associations were not read
    Total,         \* MAX_PROBES_TOTAL
    Floor,         \* MAX_PROBES_PER_QUEUE
    PoolSize       \* min(PROBE_WORKERS, len(candidates))

ASSUME QueuesAssumption ==
    /\ IsFiniteSet(Queues)
    /\ NamesAsked \in Nat \ {0}
    /\ NameOrder \in [Queues -> Nat]
    /\ Hopeless \subseteq Queues

ASSUME AccountsAssumption ==
    /\ IsFiniteSet(Accounts)
    /\ NoAccount \notin Accounts
    /\ Position \in [Accounts \cup {NoAccount} -> Nat]

ASSUME BudgetAssumption ==
    /\ Total \in Nat
    /\ Floor \in Nat \ {0}
    /\ PoolSize \in Nat \ {0}
    /\ IdentityFailed \in BOOLEAN

VARIABLES
    command,  \* "where" (and `status`), or "check"
    admits,   \* per queue, the accounts the control plane would let in
    calls,    \* dry-runs the control plane has been sent
    left,     \* ProbeBudget.left
    accepted, \* ProbeBudget._accepted, in the order learned
    phase,    \* where each queue's walk stands
    known,    \* the copy of `accepted` that ordered a queue's candidates
    asked,    \* the accounts a queue's walk has named so far
    inHand,   \* the account a queue's walk is naming now
    best,     \* the best verdict a queue's walk holds
    answer,   \* what `evaluate` reports of the queue
    returned  \* the sweep has handed its answers back

given == <<command, admits>>
walks == <<phase, known, asked, inHand, best, answer>>
vars == <<given, calls, left, accepted, walks, returned>>

-----------------------------------------------------------------------------
(* The candidates of a queue and the order they are tried in.              *)

Who == Accounts \cup {NoAccount}

\* probe_accounts: everything the allowlist admits; when it admits nothing the
\* caller holds, the first account all the same; None for a caller without any.
Candidates(q) ==
    LET narrowed == Accounts \cap AllowAccounts[q] IN
    IF Accounts = {} THEN {NoAccount}
    ELSE IF AllowAccounts[q] = {} THEN Accounts
    ELSE IF narrowed # {} THEN narrowed
    ELSE {a \in Accounts : \A b \in Accounts : Position[a] <= Position[b]}

\* The budget's ceiling for one queue.
PerQueue ==
    IF Total \div NamesAsked > Floor THEN Total \div NamesAsked ELSE Floor

Learned(q) == {known[q][i] : i \in DOMAIN known[q]}

\* Seeded bug: the candidates in declaration order, whatever has been learned.
BeforeUnlearned(q, a, b) == Position[a] < Position[b]

\* `order`: a stable sort, known-good accounts first and in the order learned.
Before(q, a, b) ==
    LET Place(x) == CHOOSE i \in DOMAIN known[q] : known[q][i] = x IN
    \/ a \in Learned(q) /\ b \notin Learned(q)
    \/ a \in Learned(q) /\ b \in Learned(q) /\ Place(a) < Place(b)
    \/ a \notin Learned(q) /\ b \notin Learned(q) /\ Position[a] < Position[b]

\* Fewest candidate accounts first, then by name: the order of submission.
Cheaper(q, r) ==
    LET m == Cardinality(Candidates(q))
        n == Cardinality(Candidates(r))
    IN m < n \/ (m = n /\ NameOrder[q] < NameOrder[r])

Queued == {q \in Queues : phase[q] = "queued"}
Active == {q \in Queues : phase[q] \notin {"queued", "settled"}}
Tried(q) == Cardinality(asked[q])
Untried(q) == Candidates(q) \ asked[q]

\* What the control plane may say of an account: the truth, or that it could
\* not tell (a timeout, a shape refusal, an answer nobody could parse).
Verdicts(q, a) == IF a \in admits[q] THEN {"yes", "maybe"} ELSE {"no", "maybe"}

\* _verdict_rank: yes, then unknown, then no; the better of two is kept.
Rank(v) == CASE v = "yes" -> 0 [] v = "maybe" -> 1 [] v = "no" -> 2 [] v = "none" -> 3

\* Seeded bug: the last verdict wins instead of the most informative one.
BetterLast(v, w) == w

Better(v, w) == IF Rank(w) < Rank(v) THEN w ELSE v

\* What is reported of a walk that ended without an accept: `unsettled`, the
\* identity downgrade that follows it in `evaluate` and not in `check`, and a
\* queue that was never reached.
Settled(q) ==
    CASE best[q] = "none" -> "unasked"
      [] best[q] = "no" /\ Tried(q) < Cardinality(Candidates(q)) -> "untried"
      [] best[q] = "no" /\ command = "where" /\ Accounts = {} /\ IdentityFailed -> "untried"
      [] OTHER -> best[q]

-----------------------------------------------------------------------------
\* `check` is zero, to be usable in `nodetop check && sbatch`, when somebody is in.
ExitZero == returned /\ command = "check" /\ \E q \in Queues : answer[q] = "yes"

Init ==
    /\ command \in {"where", "check"}
    /\ admits \in [Queues -> SUBSET Who]
    /\ \A q \in Queues : admits[q] \subseteq Candidates(q)
    /\ calls = 0
    /\ left = Total
    /\ accepted = <<>>
    /\ phase = [q \in Queues |-> "queued"]
    /\ known = [q \in Queues |-> <<>>]
    /\ asked = [q \in Queues |-> {}]
    /\ inHand = [q \in Queues |-> NoAccount]
    /\ best = [q \in Queues |-> "none"]
    /\ answer = [q \in Queues |-> "pending"]
    /\ returned = FALSE

\* `evaluate` asks nothing of a queue whose answer nothing could change; `check`
\* has been told to ask.
Gated(q) == command = "where" /\ q \in Hopeless

\* A free worker takes the next queue, up to its dry-run.
Start(q) ==
    /\ phase[q] = "queued"
    /\ Cardinality(Active) < PoolSize
    /\ \A r \in Queued \ {q} : Cheaper(q, r)
    /\ phase' = [phase EXCEPT ![q] = IF Gated(q) THEN "settled" ELSE "picked"]
    /\ answer' = [answer EXCEPT ![q] = IF Gated(q) THEN "gated" ELSE @]
    /\ UNCHANGED <<given, calls, left, accepted, known, asked, inHand, best, returned>>

\* ProbeBudget.order, called once, before the walk begins.
Order(q) ==
    /\ phase[q] = "picked"
    /\ known' = [known EXCEPT ![q] = accepted]
    /\ phase' = [phase EXCEPT ![q] = "asking"]
    /\ UNCHANGED <<given, calls, left, accepted, asked, inHand, best, answer, returned>>

\* One dry-run leaves for the control plane, naming the next candidate.
Fire(q) ==
    /\ \E a \in Untried(q) :
          /\ \A b \in Untried(q) \ {a} : Before(q, a, b)
          /\ asked' = [asked EXCEPT ![q] = @ \cup {a}]
          /\ inHand' = [inHand EXCEPT ![q] = a]
    /\ calls' = calls + 1
    /\ phase' = [phase EXCEPT ![q] = "waiting"]
    /\ UNCHANGED <<given, accepted, known, best, answer, returned>>

\* Seeded bug: the budget's test and decrement without its lock, so that a
\* decrement is lost when another walk is at the same place.
ClaimLosesDecrement(q) ==
    /\ phase[q] = "asking" /\ Tried(q) < PerQueue /\ left > 0
    /\ left' = IF \E r \in Queues \ {q} : phase[r] = "waiting" THEN left ELSE left - 1
    /\ Fire(q)

\* ProbeBudget.spend says yes, and the dry-run goes out.
Claim(q) ==
    /\ phase[q] = "asking"
    /\ Tried(q) < PerQueue
    /\ left > 0
    /\ left' = left - 1
    /\ Fire(q)

\* The walk takes a verdict in: it keeps the better one, and an accept sends it
\* to record the account.
Take(q, got, accept) ==
    /\ best' = [best EXCEPT ![q] = Better(@, got)]
    /\ phase' = [phase EXCEPT ![q] = IF accept THEN "learning" ELSE "asking"]
    /\ UNCHANGED <<given, calls, left, accepted, known, asked, inHand, answer, returned>>

\* The control plane answers.
Reply(q) ==
    /\ phase[q] = "waiting"
    /\ \E got \in Verdicts(q, inHand[q]) : Take(q, got, got = "yes")

Settle(q, v) ==
    /\ phase' = [phase EXCEPT ![q] = "settled"]
    /\ answer' = [answer EXCEPT ![q] = v]
    /\ UNCHANGED <<given, calls, left, known, asked, inHand, best, returned>>

\* ProbeBudget.accepted, and the walk ends: one account accepted is enough.
Learn(q) ==
    /\ phase[q] = "learning"
    /\ accepted' = IF \/ inHand[q] = NoAccount
                      \/ \E i \in DOMAIN accepted : accepted[i] = inHand[q]
                   THEN accepted
                   ELSE Append(accepted, inHand[q])
    /\ Settle(q, "yes")

\* Seeded bug: a walk that finds the budget spent waits for more of it.
GiveUpIgnoresBudget(q) ==
    /\ phase[q] = "asking"
    /\ Untried(q) = {} \/ Tried(q) >= PerQueue
    /\ accepted' = accepted
    /\ Settle(q, Settled(q))

\* The candidates, the queue's ceiling or the budget has run out.
GiveUp(q) ==
    /\ phase[q] = "asking"
    /\ Untried(q) = {} \/ Tried(q) >= PerQueue \/ left <= 0
    /\ accepted' = accepted
    /\ Settle(q, Settled(q))

\* The pool is joined and the sweep returns.
Return ==
    /\ ~returned
    /\ \A q \in Queues : phase[q] = "settled"
    /\ returned' = TRUE
    /\ UNCHANGED <<given, calls, left, accepted, walks>>

Finished == returned /\ UNCHANGED vars

Walk(q) == Start(q) \/ Order(q) \/ Claim(q) \/ Reply(q) \/ Learn(q) \/ GiveUp(q)

Next == Return \/ Finished \/ \E q \in Queues : Walk(q)

\* A worker thread keeps running, and every dry-run comes back: the command
\* runner bounds each with a timeout, which the backends report as a verdict.
Fairness == WF_vars(Return) /\ \A q \in Queues : WF_vars(Walk(q))

Spec == Init /\ [][Next]_vars /\ Fairness
-----------------------------------------------------------------------------
(* Correctness.                                                            *)

Phases == {"queued", "picked", "asking", "waiting", "learning", "settled"}
Answers == {"pending", "gated", "unasked", "untried", "yes", "maybe", "no"}

\* Every variable has the type its counterpart in the code has.
TypeOK ==
    /\ command \in {"where", "check"}
    /\ admits \in [Queues -> SUBSET Who]
    /\ calls \in Nat
    /\ left \in Nat
    /\ accepted \in Seq(Accounts)
    /\ phase \in [Queues -> Phases]
    /\ known \in [Queues -> Seq(Accounts)]
    /\ asked \in [Queues -> SUBSET Who]
    /\ inHand \in [Queues -> Who]
    /\ best \in [Queues -> {"none", "yes", "maybe", "no"}]
    /\ answer \in [Queues -> Answers]
    /\ returned \in BOOLEAN

\* However the walks interleave, the control plane never receives more than
\* Total dry-runs for one question (MAX_PROBES_TOTAL), and the budget knows
\* exactly how many it has received.
BudgetKept == calls + left = Total

\* A queue reported as refusing the caller admits none of the accounts the
\* caller could have used there: a refusal is never the result of stopping
\* early or of an unanswered dry-run.
HonestRefusal ==
    \A q \in Queues : answer[q] = "no" => admits[q] = {}

\* A queue reported as accepting the caller does admit the account the verdict
\* names, which is what the submission flags are built from.
HonestAccept ==
    \A q \in Queues : answer[q] = "yes" => inHand[q] \in admits[q]

\* A queue is only left undecided for want of an account when the accounts
\* already known to work, as of the start of its walk, do not work there: the
\* learned order is what makes the ceilings affordable.
LearnedTriedFirst ==
    \A q \in Queues :
        /\ answer[q] = "untried" /\ left > 0
        /\ Cardinality(Learned(q)) <= PerQueue
        => Learned(q) \cap admits[q] = {}

\* A failed association query never turns into a placement's "this queue refuses
\* you": the dry-run named no account, so it is a fact about the default one.
IdentityFailureNeverRefuses ==
    command = "where" /\ IdentityFailed /\ Accounts = {} => \A q \in Queues : answer[q] # "no"

\* Every sweep ends with every queue settled, whatever the control plane says.
SweepEnds == <>returned

\* What the sweep's caller is told of a queue: a definite answer, or none yet,
\* or that the question stayed open.
Told(q) == IF answer[q] \in {"pending", "yes", "no"} THEN answer[q] ELSE "open"

Promise == INSTANCE Entitlement WITH
    MaxCalls <- Total,
    answer <- [q \in Queues |-> Told(q)],
    waved <- ExitZero

\* The interleaved walks keep the promise of the abstract specification: each
\* queue gets one answer, definite only when it is true, within the budget, and a
\* caller is waved through to submit only where one was accepted.
KeepsPromise == Promise!Spec
=============================================================================
