------------------------- MODULE ControlPlane_proofs -------------------------
(***************************************************************************)
(* How much the control plane is asked, and what is made of its answers.   *)
(* A dry-run sweep, for every set of queues and accounts, every budget and *)
(* every pool; and, as Mcp, the server of tools that may start such sweeps *)
(* in a loop, for every set of lines, every interval and every bound.      *)
(***************************************************************************)
EXTENDS ProbeSweep, McpContract, FiniteSetTheorems, TLAPS

\* A walk's bookkeeping is honest at every step, and not only when it settles.
WalkOK(q) ==
    /\ admits[q] \subseteq Candidates(q)
    /\ asked[q] \subseteq Candidates(q)
    /\ phase[q] = "waiting" => inHand[q] \in asked[q]
    /\ phase[q] = "learning" => inHand[q] \in admits[q]
    /\ best[q] = "none" =>
          asked[q] = IF phase[q] = "waiting" THEN {inHand[q]} ELSE {}
    /\ best[q] = "no" =>
          \A a \in asked[q] \cap admits[q] : phase[q] = "waiting" /\ a = inHand[q]
    /\ best[q] = "yes" => phase[q] \in {"learning", "settled"}
    /\ (phase[q] # "settled") = (answer[q] = "pending")
    /\ answer[q] = "no" =>
          admits[q] = {} /\ ~(command = "where" /\ IdentityFailed /\ Accounts = {})
    /\ answer[q] = "yes" => inHand[q] \in admits[q]

\* The sweep returns when its pool is joined.
Joined == returned => \A q \in Queues : phase[q] = "settled"

IInv == TypeOK /\ BudgetKept /\ Joined /\ \A q \in Queues : WalkOK(q)

-----------------------------------------------------------------------------
\* A queue's candidates are finitely many names the caller may use.
LEMMA CandidatesFinite ==
    ASSUME NEW q \in Queues
    PROVE  Candidates(q) \subseteq Who /\ IsFiniteSet(Candidates(q))
<1>1. Candidates(q) \subseteq Who
    BY DEF Candidates, Who
<1>2. IsFiniteSet(Who)
    BY AccountsAssumption, FS_AddElement DEF Who
<1>3. QED
    BY <1>1, <1>2, FS_Subset

\* Having tried as many accounts as there are candidates is having tried them
\* all: the comparison of counts in `unsettled` is a comparison of sets.
LEMMA AllTried ==
    ASSUME NEW q \in Queues, asked[q] \subseteq Candidates(q),
           ~(Tried(q) < Cardinality(Candidates(q)))
    PROVE  asked[q] = Candidates(q)
<1>1. IsFiniteSet(Candidates(q)) /\ IsFiniteSet(asked[q])
    BY CandidatesFinite, FS_Subset
<1>2. Cardinality(asked[q]) <= Cardinality(Candidates(q))
    BY <1>1, FS_Subset
<1>3. Cardinality(asked[q]) \in Nat /\ Cardinality(Candidates(q)) \in Nat
    BY <1>1, FS_CardinalityType
<1>4. Cardinality(asked[q]) = Cardinality(Candidates(q))
    BY <1>2, <1>3 DEF Tried
<1>5. QED
    BY <1>1, <1>4, FS_Subset

\* The better of two verdicts is one of them, and is a refusal only when the
\* new verdict is one and the old one is a refusal or nothing at all.
LEMMA BetterVerdict ==
    ASSUME NEW v \in {"none", "yes", "maybe", "no"},
           NEW w \in {"yes", "maybe", "no"}
    PROVE  /\ Better(v, w) \in {"yes", "maybe", "no"}
           /\ Better(v, w) = "no" => w = "no" /\ v \in {"no", "none"}
           /\ Better(v, w) = "yes" => w = "yes" \/ v = "yes"
BY DEF Better, Rank

-----------------------------------------------------------------------------
\* The sweep starts out honest.
LEMMA InitInvariant == Init => IInv
<1> SUFFICES ASSUME Init PROVE IInv
    OBVIOUS
<1> USE DEF Init
<1>1. TypeOK
    <2>1. calls \in Nat /\ left \in Nat
        BY BudgetAssumption
    <2>2. <<>> \in Seq(Accounts)
        OBVIOUS
    <2>3. accepted \in Seq(Accounts) /\ known \in [Queues -> Seq(Accounts)]
        BY <2>2
    <2>4. phase \in [Queues -> Phases] /\ answer \in [Queues -> Answers]
        BY DEF Phases, Answers
    <2>5. asked \in [Queues -> SUBSET Who] /\ inHand \in [Queues -> Who]
        BY DEF Who
    <2>6. QED
        BY <2>1, <2>3, <2>4, <2>5 DEF TypeOK
<1>2. BudgetKept
    BY BudgetAssumption DEF BudgetKept
<1>3. ASSUME NEW q \in Queues PROVE WalkOK(q)
    BY DEF WalkOK
<1>4. QED
    BY <1>1, <1>2, <1>3 DEF IInv, Joined

\* One step of one walk leaves every other walk as it was.
Untouched(r) ==
    /\ command' = command /\ admits'[r] = admits[r] /\ asked'[r] = asked[r] /\ inHand'[r] = inHand[r]
    /\ phase'[r] = phase[r] /\ best'[r] = best[r] /\ answer'[r] = answer[r]

LEMMA UntouchedOK ==
    ASSUME NEW r \in Queues, WalkOK(r), Untouched(r)
    PROVE  WalkOK(r)'
BY DEF WalkOK, Untouched, Candidates

LEMMA OthersUntouched ==
    ASSUME TypeOK, NEW q \in Queues, Walk(q), NEW r \in Queues \ {q}
    PROVE  Untouched(r)
BY DEF TypeOK, Walk, Start, Order, Claim, Fire, Reply, Take, Learn, GiveUp,
       Settle, Untouched, given

-----------------------------------------------------------------------------
\* Each step of a walk preserves the types.
LEMMA WalkType ==
    ASSUME IInv, NEW q \in Queues, Walk(q)
    PROVE  TypeOK'
<1> USE DEF IInv, TypeOK, Who, Phases, Answers, given
<1>1. CASE Start(q)
    BY <1>1 DEF Start
<1>2. CASE Order(q)
    BY <1>2 DEF Order
<1>3. CASE Claim(q)
    <2>1. Untried(q) \subseteq Accounts \cup {NoAccount}
        BY CandidatesFinite DEF Untried
    <2>2. QED
        BY <1>3, <2>1 DEF Claim, Fire
<1>4. CASE Reply(q)
    <2>1. PICK got \in {"yes", "no", "maybe"} : Take(q, got, got = "yes")
        BY <1>4 DEF Reply, Verdicts
    <2>2. Better(best[q], got) \in {"yes", "maybe", "no"}
        <3>1. best[q] \in {"none", "yes", "maybe", "no"}
            OBVIOUS
        <3>2. QED
            BY <2>1, <3>1, BetterVerdict
    <2>3. QED
        BY <2>1, <2>2 DEF Take
<1>5. CASE Learn(q)
    <2>1. inHand[q] # NoAccount => inHand[q] \in Accounts
        OBVIOUS
    <2>2. accepted' \in Seq(Accounts)
        BY <1>5, <2>1 DEF Learn
    <2>3. QED
        BY <1>5, <2>2 DEF Learn, Settle
<1>6. CASE GiveUp(q)
    <2>1. Settled(q) \in {"unasked", "untried", "yes", "maybe", "no"}
        BY DEF Settled
    <2>2. QED
        BY <1>6, <2>1 DEF GiveUp, Settle
<1>7. QED
    BY <1>1, <1>2, <1>3, <1>4, <1>5, <1>6 DEF Walk

\* Each step of a walk keeps the budget's account of the dry-runs.
LEMMA WalkBudget ==
    ASSUME IInv, NEW q \in Queues, Walk(q)
    PROVE  BudgetKept'
<1> USE BudgetAssumption DEF IInv, TypeOK, BudgetKept
<1>1. CASE Claim(q)
    <2>1. left' = left - 1 /\ calls' = calls + 1
        BY <1>1 DEF Claim, Fire
    <2>2. calls + left = Total /\ calls \in Nat /\ left \in Nat
        OBVIOUS
    <2>3. QED
        BY <2>1, <2>2
<1>2. CASE Start(q) \/ Order(q) \/ Reply(q) \/ Learn(q) \/ GiveUp(q)
    <2>1. UNCHANGED <<calls, left>>
        BY <1>2 DEF Start, Order, Reply, Take, Learn, GiveUp, Settle
    <2>2. QED
        BY <2>1
<1>3. QED
    BY <1>1, <1>2 DEF Walk

\* Each step of a walk keeps that walk honest.
LEMMA WalkHonest ==
    ASSUME IInv, NEW q \in Queues, Walk(q)
    PROVE  WalkOK(q)'
<1>0. WalkOK(q) /\ TypeOK
    BY DEF IInv
<1>c. Candidates(q)' = Candidates(q)
    BY DEF Candidates
<1> USE DEF TypeOK, given
<1>1. CASE Start(q)
    BY <1>0, <1>1, <1>c DEF Start, WalkOK
<1>2. CASE Order(q)
    BY <1>0, <1>2, <1>c DEF Order, WalkOK
<1>3. CASE Claim(q)
    <2>1. PICK a \in Untried(q) :
              /\ asked' = [asked EXCEPT ![q] = @ \cup {a}]
              /\ inHand' = [inHand EXCEPT ![q] = a]
        BY <1>3 DEF Claim, Fire
    <2>2. a \in Candidates(q)
        BY DEF Untried
    <2>3. /\ asked'[q] = asked[q] \cup {a} /\ inHand'[q] = a
          /\ phase'[q] = "waiting" /\ phase[q] = "asking"
          /\ UNCHANGED <<given, best, answer>>
        BY <1>0, <1>3, <2>1 DEF Claim, Fire
    <2>4. QED
        BY <1>0, <1>c, <2>2, <2>3 DEF WalkOK
<1>4. CASE Reply(q)
    <2>1. PICK got \in Verdicts(q, inHand[q]) : Take(q, got, got = "yes")
        BY <1>4 DEF Reply
    <2>2. /\ got \in {"yes", "no", "maybe"}
          /\ got = "yes" => inHand[q] \in admits[q]
          /\ got = "no" => inHand[q] \notin admits[q]
        BY <2>1 DEF Verdicts
    <2>3. /\ best'[q] = Better(best[q], got)
          /\ phase'[q] = IF got = "yes" THEN "learning" ELSE "asking"
          /\ phase[q] = "waiting"
          /\ UNCHANGED <<given, asked, inHand, answer>>
        BY <1>0, <1>4, <2>1 DEF Reply, Take
    <2>4. /\ best'[q] \in {"yes", "maybe", "no"}
          /\ best'[q] = "no" => got = "no" /\ best[q] \in {"no", "none"}
          /\ best'[q] = "yes" => got = "yes" \/ best[q] = "yes"
        BY <1>0, <2>2, <2>3, BetterVerdict
    <2>5. QED
        BY <1>0, <1>c, <2>2, <2>3, <2>4 DEF WalkOK
<1>5. CASE Learn(q)
    BY <1>0, <1>5, <1>c DEF Learn, Settle, WalkOK
<1>6. CASE GiveUp(q)
    <2>1. /\ answer'[q] = Settled(q) /\ phase'[q] = "settled" /\ phase[q] = "asking"
          /\ UNCHANGED <<given, asked, inHand, best>>
        BY <1>0, <1>6 DEF GiveUp, Settle
    <2>2. Settled(q) # "yes" /\ Settled(q) # "pending"
        <3>1. best[q] \in {"none", "maybe", "no"}
            BY <1>0, <2>1 DEF WalkOK
        <3>2. Settled(q) \in {"unasked", "untried", "maybe", "no"}
            BY <3>1 DEF Settled
        <3>3. QED
            BY <3>2
    <2>3. ASSUME Settled(q) = "no"
          PROVE  admits[q] = {} /\ ~(command = "where" /\ IdentityFailed /\ Accounts = {})
        <3>1. /\ best[q] = "no" /\ ~(Tried(q) < Cardinality(Candidates(q)))
              /\ ~(command = "where" /\ IdentityFailed /\ Accounts = {})
            BY <1>0, <2>3 DEF Settled
        <3>2. asked[q] = Candidates(q)
            BY <1>0, <3>1, AllTried DEF WalkOK
        <3>3. QED
            BY <1>0, <2>1, <3>1, <3>2 DEF WalkOK
    <2>4. QED
        BY <1>0, <1>c, <2>1, <2>2, <2>3 DEF WalkOK
<1>7. QED
    BY <1>1, <1>2, <1>3, <1>4, <1>5, <1>6 DEF Walk

\* Nobody walks a queue once the sweep has returned.
LEMMA WalkBeforeReturn ==
    ASSUME IInv, NEW q \in Queues, Walk(q)
    PROVE  ~returned /\ ~returned'
<1>1. phase[q] # "settled"
    BY DEF Walk, Start, Order, Claim, Reply, Learn, GiveUp
<1>2. ~returned
    BY <1>1 DEF IInv, Joined
<1>3. returned' = returned
    BY DEF Walk, Start, Order, Claim, Fire, Reply, Take, Learn, GiveUp, Settle
<1>4. QED
    BY <1>2, <1>3

\* Every step of the sweep keeps every walk honest and the budget balanced.
LEMMA StepInvariant == IInv /\ [Next]_vars => IInv'
<1> SUFFICES ASSUME IInv, [Next]_vars PROVE IInv'
    OBVIOUS
<1>1. ASSUME NEW q \in Queues, Walk(q) PROVE IInv'
    <2>1. TypeOK' /\ BudgetKept'
        BY <1>1, WalkType, WalkBudget
    <2>2. ASSUME NEW r \in Queues PROVE WalkOK(r)'
        <3>1. CASE r = q
            BY <1>1, <3>1, WalkHonest
        <3>2. CASE r # q
            BY <1>1, <3>2, OthersUntouched, UntouchedOK DEF IInv
        <3>3. QED
            BY <3>1, <3>2
    <2>3. Joined'
        BY <1>1, WalkBeforeReturn DEF Joined
    <2>4. QED
        BY <2>1, <2>2, <2>3 DEF IInv
<1>2. ASSUME Return \/ UNCHANGED vars PROVE IInv'
    <2>1. TypeOK' /\ BudgetKept'
        BY <1>2 DEF IInv, TypeOK, BudgetKept, Return, vars, walks, given
    <2>2. ASSUME NEW r \in Queues PROVE WalkOK(r)'
        BY <1>2, UntouchedOK DEF IInv, Untouched, Return, vars, walks, given
    <2>3. Joined'
        BY <1>2 DEF IInv, Joined, Return, vars, walks
    <2>4. QED
        BY <2>1, <2>2, <2>3 DEF IInv
<1>3. QED
    BY <1>1, <1>2 DEF Next, Finished

-----------------------------------------------------------------------------
\* The inductive invariant holds throughout every sweep.
THEOREM SweepInvariant == Spec => []IInv
<1>1. Init => IInv
    BY InitInvariant
<1>2. IInv /\ [Next]_vars => IInv'
    BY StepInvariant
<1>3. QED
    BY <1>1, <1>2, PTL DEF Spec

\* Type correctness of the sweep.
THEOREM TypeCorrect == Spec => []TypeOK
<1>1. IInv => TypeOK
    BY DEF IInv
<1>2. QED
    BY <1>1, SweepInvariant, PTL

\* The control plane is never sent more dry-runs than the budget holds, and
\* none goes unaccounted for, whatever walks run at once.
THEOREM BudgetHolds == Spec => [](BudgetKept /\ calls <= Total)
<1>1. IInv => BudgetKept /\ calls <= Total
    BY BudgetAssumption DEF IInv, TypeOK, BudgetKept
<1>2. QED
    BY <1>1, SweepInvariant, PTL

\* A queue is reported as refusing the caller only when none of the accounts
\* the caller could use there would be let in.
THEOREM RefusalsAreHonest == Spec => []HonestRefusal
<1>1. IInv => HonestRefusal
    BY DEF IInv, WalkOK, HonestRefusal
<1>2. QED
    BY <1>1, SweepInvariant, PTL

\* A queue is reported as accepting only with an account it lets in.
THEOREM AcceptsAreHonest == Spec => []HonestAccept
<1>1. IInv => HonestAccept
    BY DEF IInv, WalkOK, HonestAccept
<1>2. QED
    BY <1>1, SweepInvariant, PTL

\* A failed association query is never reported as a refusal.
THEOREM AnonymousNeverRefused == Spec => []IdentityFailureNeverRefuses
<1>1. IInv => IdentityFailureNeverRefuses
    BY DEF IInv, WalkOK, IdentityFailureNeverRefuses
<1>2. QED
    BY <1>1, SweepInvariant, PTL

-----------------------------------------------------------------------------
\* The learned accounts come first: while one of them is untried, only such
\* accounts have been.  A queue left undecided with budget to spare therefore
\* admits none of them, unless its own ceiling was too low for them all.
LearnedOK(q) ==
    /\ phase[q] \in {"queued", "picked"} => asked[q] = {}
    /\ \A a \in asked[q], b \in Untried(q) : b \in Learned(q) => a \in Learned(q)
    /\ answer[q] = "untried" /\ left > 0 /\ Cardinality(Learned(q)) <= PerQueue =>
          Learned(q) \cap admits[q] = {}

LEMMA LearnedFinite ==
    ASSUME TypeOK, NEW q \in Queues
    PROVE  Learned(q) \subseteq Accounts /\ IsFiniteSet(Learned(q))
<1>1. known[q] \in Seq(Accounts)
    BY DEF TypeOK
<1>2. Learned(q) \subseteq Accounts
    BY <1>1 DEF Learned
<1>3. QED
    BY <1>2, AccountsAssumption, FS_Subset

\* A walk that ends without having been let in, its ceiling reached with budget
\* to spare, has tried every learned account that ceiling allows for.
LEMMA LearnedExhausted ==
    ASSUME IInv, NEW q \in Queues, LearnedOK(q), phase[q] = "asking",
           Untried(q) = {} \/ Tried(q) >= PerQueue, best[q] = "no",
           Cardinality(Learned(q)) <= PerQueue
    PROVE  Learned(q) \cap admits[q] = {}
<1> SUFFICES ASSUME NEW b \in Learned(q), b \in admits[q] PROVE FALSE
    OBVIOUS
<1>1. WalkOK(q)
    BY DEF IInv
<1>2. b \notin asked[q] /\ b \in Candidates(q)
    BY <1>1 DEF WalkOK
<1>3. b \in Untried(q)
    BY <1>2 DEF Untried
<1>4. asked[q] \subseteq Learned(q) \ {b}
    BY <1>2, <1>3 DEF LearnedOK
<1>5. IsFiniteSet(Learned(q))
    BY LearnedFinite DEF IInv
<1>6. Cardinality(Learned(q) \ {b}) = Cardinality(Learned(q)) - 1
    BY <1>5, FS_RemoveElement
<1>7. IsFiniteSet(Learned(q) \ {b})
    BY <1>5, FS_Subset
<1>8. Cardinality(asked[q]) <= Cardinality(Learned(q) \ {b}) /\ IsFiniteSet(asked[q])
    BY <1>4, <1>7, FS_Subset
<1>9. Cardinality(asked[q]) \in Nat /\ Cardinality(Learned(q)) \in Nat
    BY <1>5, <1>8, FS_CardinalityType
<1>10. PerQueue \in Int
    BY BudgetAssumption, QueuesAssumption DEF PerQueue
<1>11. Tried(q) < PerQueue
    BY <1>6, <1>8, <1>9, <1>10 DEF Tried
<1>12. QED
    BY <1>3, <1>9, <1>10, <1>11 DEF Tried

\* Each step of a walk keeps to that order.
LEMMA WalkLearned ==
    ASSUME IInv, NEW q \in Queues, LearnedOK(q), Walk(q)
    PROVE  LearnedOK(q)'
<1>0. WalkOK(q) /\ TypeOK /\ left \in Nat
    BY DEF IInv, TypeOK
<1>c. Candidates(q)' = Candidates(q)
    BY DEF Candidates
<1>1. CASE Start(q)
    <2>1. /\ UNCHANGED <<asked, known, left, admits>>
          /\ answer'[q] # "untried" \/ answer'[q] = answer[q]
          /\ phase[q] = "queued"
        BY <1>0, <1>1 DEF Start, TypeOK, given
    <2>2. QED
        BY <1>c, <2>1 DEF LearnedOK, Untried, Learned
<1>2. CASE Order(q)
    <2>1. asked'[q] = {} /\ phase'[q] = "asking" /\ answer'[q] = answer[q] /\ phase[q] = "picked"
        BY <1>0, <1>2 DEF Order, TypeOK, LearnedOK
    <2>2. answer'[q] = "pending"
        BY <1>0, <2>1 DEF WalkOK
    <2>3. QED
        BY <2>1, <2>2 DEF LearnedOK
<1>3. CASE Claim(q)
    <2>1. PICK a \in Untried(q) :
              /\ \A b \in Untried(q) \ {a} : Before(q, a, b)
              /\ asked' = [asked EXCEPT ![q] = @ \cup {a}]
        BY <1>3 DEF Claim, Fire
    <2>2. /\ asked'[q] = asked[q] \cup {a} /\ phase'[q] = "waiting" /\ answer'[q] = answer[q]
          /\ known' = known /\ phase[q] = "asking"
        BY <1>0, <1>3, <2>1 DEF Claim, Fire, TypeOK
    <2>3. answer'[q] = "pending"
        BY <1>0, <2>2 DEF WalkOK
    <2>4. \A b \in Untried(q) \ {a} : b \in Learned(q) => a \in Learned(q)
        BY <2>1 DEF Before
    <2>5. Untried(q)' = Untried(q) \ {a} /\ Learned(q)' = Learned(q)
        BY <1>c, <2>2 DEF Untried, Learned
    <2>6. \A x \in asked'[q], b \in Untried(q)' : b \in Learned(q)' => x \in Learned(q)'
        BY <2>2, <2>4, <2>5 DEF LearnedOK
    <2>7. QED
        BY <2>2, <2>3, <2>6 DEF LearnedOK
<1>4. CASE Reply(q)
    <2>1. /\ UNCHANGED <<asked, known, left, answer, admits>>
          /\ phase'[q] \in {"asking", "learning"}
        BY <1>0, <1>4 DEF Reply, Take, TypeOK, given
    <2>2. QED
        BY <1>c, <2>1 DEF LearnedOK, Untried, Learned
<1>5. CASE Learn(q)
    <2>1. /\ UNCHANGED <<asked, known, left, admits>>
          /\ phase'[q] = "settled" /\ answer'[q] = "yes"
        BY <1>0, <1>5 DEF Learn, Settle, TypeOK, given
    <2>2. QED
        BY <1>c, <2>1 DEF LearnedOK, Untried, Learned
<1>6. CASE GiveUp(q)
    <2>1. /\ UNCHANGED <<asked, known, left, admits>>
          /\ phase[q] = "asking" /\ phase'[q] = "settled" /\ answer'[q] = Settled(q)
          /\ Untried(q) = {} \/ Tried(q) >= PerQueue \/ left <= 0
        BY <1>0, <1>6 DEF GiveUp, Settle, TypeOK, given
    <2>2. ASSUME Settled(q) = "untried", left > 0, Cardinality(Learned(q)) <= PerQueue
          PROVE  Learned(q) \cap admits[q] = {}
        <3>1. best[q] = "no"
            BY <1>0, <2>2 DEF Settled, TypeOK
        <3>2. Untried(q) = {} \/ Tried(q) >= PerQueue
            BY <1>0, <2>1, <2>2
        <3>3. QED
            BY <2>1, <2>2, <3>1, <3>2, LearnedExhausted
    <2>3. Untried(q)' = Untried(q) /\ Learned(q)' = Learned(q)
        BY <1>c, <2>1 DEF Untried, Learned
    <2>4. QED
        BY <2>1, <2>2, <2>3 DEF LearnedOK
<1>7. QED
    BY <1>1, <1>2, <1>3, <1>4, <1>5, <1>6 DEF Walk

\* And one walk's step leaves the others' order alone: the budget only shrinks.
LEMMA OthersLearned ==
    ASSUME IInv, NEW q \in Queues, Walk(q), NEW r \in Queues \ {q}, LearnedOK(r)
    PROVE  LearnedOK(r)'
<1>1. Untouched(r)
    BY OthersUntouched DEF IInv
<1>2. known'[r] = known[r]
    BY DEF Walk, Start, Order, Claim, Fire, Reply, Take, Learn, GiveUp, Settle, IInv, TypeOK
<1>3. left \in Nat /\ (left' = left \/ left' = left - 1)
    BY DEF Walk, Start, Order, Claim, Fire, Reply, Take, Learn, GiveUp, Settle, IInv, TypeOK
<1>4. left' > 0 => left > 0
    BY <1>3
<1>5. Untried(r)' = Untried(r) /\ Learned(r)' = Learned(r)
    BY <1>1, <1>2 DEF Untouched, Untried, Candidates, Learned
<1>6. QED
    BY <1>1, <1>4, <1>5 DEF LearnedOK, Untouched

\* Whatever walks run at once, a queue is left undecided with budget to spare
\* only where the accounts known to work when its walk began do not work, unless
\* there are more of them than the queue's share.
THEOREM LearnedComeFirst == Spec => []LearnedTriedFirst
<1> DEFINE AllLearned == \A q \in Queues : LearnedOK(q)
<1>1. Init => AllLearned
    BY DEF Init, LearnedOK
<1>2. IInv /\ AllLearned /\ [Next]_vars => AllLearned'
    <2> SUFFICES ASSUME IInv, AllLearned, [Next]_vars, NEW r \in Queues
                 PROVE  LearnedOK(r)'
        OBVIOUS
    <2>1. ASSUME NEW q \in Queues, Walk(q) PROVE LearnedOK(r)'
        BY <2>1, WalkLearned, OthersLearned
    <2>2. CASE Return \/ UNCHANGED vars
        BY <2>2 DEF Return, vars, walks, given, LearnedOK, Untried, Learned, Candidates
    <2>3. QED
        BY <2>1, <2>2 DEF Next, Finished
<1>3. AllLearned => LearnedTriedFirst
    BY DEF LearnedOK, LearnedTriedFirst
<1>4. QED
    BY <1>1, <1>2, <1>3, SweepInvariant, PTL DEF Spec

-----------------------------------------------------------------------------
\* Each step of a walk is a step of the abstract specification or changes
\* nothing the caller of the sweep can see.
LEMMA WalkRefines ==
    ASSUME IInv, NEW q \in Queues, Walk(q)
    PROVE  [Promise!Next]_Promise!vars
<1> USE DEF IInv, TypeOK
<1>0. WalkOK(q) /\ WalkOK(q)'
    BY WalkHonest
<1>z. ExitZero = FALSE /\ ExitZero' = FALSE
    BY WalkBeforeReturn DEF ExitZero
<1>1. CASE Claim(q)
    <2>1. calls < Total /\ calls' = calls + 1 /\ UNCHANGED <<admits, answer>>
        BY <1>1, BudgetAssumption DEF Claim, Fire, BudgetKept, given
    <2>2. Promise!Ask
        BY <1>z, <2>1 DEF Promise!Ask, Told
    <2>3. QED
        BY <2>2 DEF Promise!Next
<1>2. CASE Order(q) \/ Reply(q)
    <2>1. UNCHANGED <<admits, calls, answer>>
        BY <1>2 DEF Order, Reply, Take, given
    <2>2. QED
        BY <1>z, <2>1 DEF Told, Promise!vars
<1>3. CASE Start(q) \/ Learn(q) \/ GiveUp(q)
    <2>1. /\ UNCHANGED <<admits, calls>>
          /\ phase[q] # "settled"
          /\ answer' = [answer EXCEPT ![q] = answer'[q]]
        BY <1>3 DEF Start, Learn, GiveUp, Settle, given
    <2>2. Told(q) = "pending" /\ Told(q)' \in {"pending", "yes", "no", "open"}
        BY <1>0, <2>1 DEF WalkOK, Told
    <2>3. CASE Told(q)' = "pending"
        <3>1. \A r \in Queues : Told(r)' = Told(r)
            BY <2>1, <2>2, <2>3 DEF Told
        <3>2. QED
            BY <1>z, <2>1, <3>1 DEF Promise!vars
    <2>4. CASE Told(q)' # "pending"
        <3>1. Told(q)' \in {"yes", "no", "open"}
            BY <2>2, <2>4
        <3>2. Told(q)' = "yes" => admits[q] # {}
            BY <1>0, <2>1 DEF WalkOK, Told
        <3>3. Told(q)' = "no" => admits[q] = {}
            BY <1>0, <2>1 DEF WalkOK, Told
        <3>4. [r \in Queues |-> Told(r)]' =
                  [[r \in Queues |-> Told(r)] EXCEPT ![q] = Told(q)']
            BY <2>1 DEF Told
        <3>5. Promise!Conclude(q, Told(q)')
            BY <1>z, <2>1, <2>2, <3>2, <3>3, <3>4 DEF Promise!Conclude
        <3>6. QED
            BY <3>1, <3>5 DEF Promise!Next
    <2>5. QED
        BY <2>3, <2>4
<1>4. QED
    BY <1>1, <1>2, <1>3 DEF Walk

\* Returning waves the caller through, or changes nothing the caller can see.
LEMMA ReturnRefines ==
    ASSUME IInv, Return
    PROVE  [Promise!Next]_Promise!vars
<1>1. ~returned /\ UNCHANGED <<command, admits, calls, answer>>
    BY DEF Return, walks, given
<1>2. \A q \in Queues : answer[q] # "pending"
    BY DEF IInv, WalkOK, Return
<1>3. UNCHANGED <<admits, calls, [q \in Queues |-> Told(q)]>>
    BY <1>1 DEF Told
<1>4. CASE ExitZero'
    <2>1. PICK q \in Queues : answer[q] = "yes"
        BY <1>1, <1>4 DEF ExitZero
    <2>2. Told(q) = "yes" /\ admits[q] # {}
        BY <2>1 DEF Told, IInv, WalkOK
    <2>3. \A r \in Queues : Told(r) # "pending"
        BY <1>2 DEF Told
    <2>4. ExitZero' = TRUE
        BY <1>4 DEF ExitZero
    <2>5. Promise!Wave
        BY <1>3, <2>2, <2>3, <2>4 DEF Promise!Wave
    <2>6. QED
        BY <2>5 DEF Promise!Next
<1>5. CASE ~ExitZero'
    <2>1. ExitZero' = ExitZero
        BY <1>1, <1>5 DEF ExitZero
    <2>2. QED
        BY <1>3, <2>1 DEF Promise!vars
<1>6. QED
    BY <1>4, <1>5

\* The sweep implements the abstract specification of what its caller is told.
THEOREM SweepKeepsPromise == Spec => KeepsPromise
<1>1. Init => Promise!Init
    BY DEF Init, Promise!Init, Told, ExitZero
<1>2. IInv /\ [Next]_vars
          => [Promise!Next]_Promise!vars
    <2> SUFFICES ASSUME IInv, [Next]_vars
                 PROVE  [Promise!Next]_Promise!vars
        OBVIOUS
    <2>1. ASSUME NEW q \in Queues, Walk(q)
          PROVE  [Promise!Next]_Promise!vars
        BY <2>1, WalkRefines
    <2>2. ASSUME Return
          PROVE  [Promise!Next]_Promise!vars
        BY <2>2, ReturnRefines
    <2>3. ASSUME UNCHANGED vars
          PROVE  [Promise!Next]_Promise!vars
        BY <2>3 DEF vars, walks, given, Told, ExitZero, Promise!vars
    <2>4. QED
        BY <2>1, <2>2, <2>3 DEF Next, Finished
<1>3. QED
    BY <1>1, <1>2, SweepInvariant, PTL DEF Spec, KeepsPromise, Promise!Spec

-----------------------------------------------------------------------------
(* `nodetop mcp`: one reply to a request, in order; the control plane's    *)
(* breathing space; and the note on every answer made without it.          *)

CONSTANTS Lines, MaxSpan, MaxLines, MaxTime

VARIABLES now, open, noted, began, last, planeAsked

\* `asked` is a set of accounts to ProbeSweep, and a moment to McpServer.
Mcp == INSTANCE McpServer WITH asked <- planeAsked

\* What is written to the client.
ReplyKind == [to : Int, how : {"result", "error"}, noted : BOOLEAN]

\* The shape of what the steps below compute with.
Shape ==
    /\ sent \in Seq(Lines) /\ taken \in Nat /\ taken <= Len(sent)
    /\ replies \in Seq(ReplyKind)
    /\ pc \in {"reading", "running", "over"} /\ asking \in BOOLEAN /\ noted \in BOOLEAN
    /\ now \in Int /\ began \in Int /\ last \in Int /\ burst \in Int

\* The throttle remembers the latest burst, or a later time at which one could
\* have begun; a command that may ask began then, and long enough after the
\* latest burst, unless that is its own.
Spaced ==
    /\ burst <= last
    /\ asking => pc = "running" /\ last = began /\ (burst = began \/ began - burst >= Interval)

\* A command runs for a line of its own, which has been read, and knows whether
\* it was refused what it would have asked.
Aware ==
    pc = "running" =>
        taken > 0 /\ Mcp!Runs(Mcp!Line) /\ (noted <=> Mcp!Line.probes /\ ~Mcp!Line.declared /\ ~asking)

\* What the server assumes of its parameters is kept with it.
McpIInv == Mcp!McpAssumption /\ Shape /\ Spaced /\ Aware

-----------------------------------------------------------------------------
\* A line is read only if there is one.
LEMMA ReadsALine ==
    ASSUME Shape, Mcp!ReadLine
    PROVE  taken' \in 1 .. Len(sent) /\ taken' = taken + 1
BY DEF Shape, Mcp!ReadLine

\* A reply that is written keeps the sequence of replies one.
LEMMA WriteShape ==
    ASSUME Shape, NEW to \in Int, NEW how \in {"result", "error"}, NEW note \in BOOLEAN,
           Mcp!Write(to, how, note)
    PROVE  /\ replies' \in Seq(ReplyKind)
           /\ pc' \in {"reading", "over"}
           /\ pc' = "reading" => replies'[Len(replies')].noted = note
<1> DEFINE reply == [to |-> to, how |-> how, noted |-> note]
<1>1. reply \in ReplyKind
    BY DEF ReplyKind
<1>2. CASE heard
    <2>1. replies' = Append(replies, reply) /\ pc' = "reading"
        BY <1>2 DEF Mcp!Write
    <2>2. replies' \in Seq(ReplyKind)
        BY <1>1, <2>1 DEF Shape
    <2>3. replies'[Len(replies')] = reply
        BY <1>1, <2>1 DEF Shape
    <2>4. QED
        BY <2>1, <2>2, <2>3
<1>3. CASE ~heard
    BY <1>3 DEF Mcp!Write, Shape
<1>4. QED
    BY <1>2, <1>3

LEMMA AnsweredShape ==
    ASSUME Shape, Mcp!ReadLine, ~Mcp!Runs(sent[taken + 1]), Mcp!Answered(taken + 1), pc = "reading"
    PROVE  /\ replies' \in Seq(ReplyKind)
           /\ pc' \in {"reading", "over"}
<1> DEFINE line == sent[taken + 1]
<1>1. taken + 1 \in Int /\ Mcp!Null \in Int
    BY DEF Shape, Mcp!Null
<1>2. CASE line.kind \in {"other", "call"} /\ ~line.id /\ UNCHANGED <<pc, replies>>
    BY <1>2 DEF Shape
<1>3. CASE \E to \in {Mcp!Null, taken + 1}, how \in {"result", "error"} : Mcp!Reply(to, how)
    <2>1. PICK to \in {Mcp!Null, taken + 1}, how \in {"result", "error"} : Mcp!Write(to, how, FALSE)
        BY <1>3 DEF Mcp!Reply
    <2>2. QED
        BY <1>1, <2>1, WriteShape
<1>4. QED
    BY <1>2, <1>3, Zenon DEF Mcp!Answered

-----------------------------------------------------------------------------
LEMMA McpInit == Mcp!McpAssumption /\ Mcp!Init => McpIInv
<1> SUFFICES ASSUME Mcp!McpAssumption, Mcp!Init PROVE McpIInv
    OBVIOUS
<1>1. sent \in Seq(Lines) /\ taken \in Nat /\ taken <= Len(sent)
    BY DEF Mcp!Init
<1>2. replies \in Seq(ReplyKind)
    BY DEF Mcp!Init
<1>3. now \in Int /\ began \in Int /\ last \in Int /\ burst \in Int
    BY DEF Mcp!McpAssumption, Mcp!Init, Mcp!Never
<1>4. pc \in {"reading", "running", "over"} /\ asking \in BOOLEAN /\ noted \in BOOLEAN
    BY DEF Mcp!Init
<1>5. Shape
    BY <1>1, <1>2, <1>3, <1>4 DEF Shape
<1>6. QED
    BY <1>5 DEF Mcp!McpAssumption, Mcp!Init, McpIInv, Spaced, Aware, Mcp!Never

\* Whatever is not the server's leaves the command that runs, and its line, alone.
LEMMA OthersInvariant ==
    ASSUME McpIInv, Mcp!Tick \/ Mcp!Send \/ Mcp!Close \/ Mcp!Probe \/ UNCHANGED Mcp!vars
    PROVE  McpIInv'
<1> USE DEF McpIInv, Shape, Spaced, Aware, Mcp!client, Mcp!call, Mcp!plane
<1>1. CASE Mcp!Tick
    BY <1>1 DEF Mcp!Tick, Mcp!Line
<1>2. CASE Mcp!Send
    <2>1. PICK line \in Lines : sent' = Append(sent, line)
        BY <1>2 DEF Mcp!Send
    <2>2. sent' \in Seq(Lines) /\ Len(sent') = Len(sent) + 1
        BY <2>1
    <2>3. taken > 0 => Mcp!Line' = Mcp!Line
        BY <1>2, <2>1 DEF Mcp!Send, Mcp!Line
    <2>4. QED
        BY <1>2, <2>2, <2>3 DEF Mcp!Send
<1>3. CASE Mcp!Close
    BY <1>3 DEF Mcp!Close, Mcp!Line
<1>4. CASE Mcp!Probe
    <2>1. burst' = began /\ last = began /\ asking
        BY <1>4 DEF Mcp!Probe
    <2>2. Mcp!Line' = Mcp!Line
        BY <1>4 DEF Mcp!Probe, Mcp!Line
    <2>3. QED
        BY <1>4, <2>1, <2>2 DEF Mcp!Probe
<1>5. CASE UNCHANGED Mcp!vars
    BY <1>5 DEF Mcp!vars, Mcp!Line
<1>6. QED
    BY <1>1, <1>2, <1>3, <1>4, <1>5

LEMMA ServerInvariant ==
    ASSUME McpIInv, Mcp!Server
    PROVE  McpIInv'
<1> USE DEF McpIInv, Shape, Spaced, Aware, Mcp!client, Mcp!call, Mcp!plane
<1>1. CASE Mcp!Handle
    <2>1. /\ replies' \in Seq(ReplyKind)
          /\ pc' \in {"reading", "over"}
        BY <1>1, AnsweredShape DEF Mcp!Handle, Mcp!ReadLine
    <2>2. taken' \in Nat /\ taken' <= Len(sent)
        BY <1>1, ReadsALine DEF Mcp!Handle
    <2>3. ~asking
        BY <1>1 DEF Mcp!Handle, Mcp!ReadLine
    <2>4. QED
        BY <1>1, <2>1, <2>2, <2>3 DEF Mcp!Handle
<1>2. CASE Mcp!Call
    <2> DEFINE line == sent[taken + 1]
               wants == line.probes /\ ~line.declared
    <2>1. taken' = taken + 1 /\ taken' \in 1 .. Len(sent)
        BY <1>2, ReadsALine DEF Mcp!Call
    <2>2. /\ asking' = (wants /\ Mcp!Allow) /\ noted' = (wants /\ ~Mcp!Allow)
          /\ last' = IF wants /\ Mcp!Allow THEN now ELSE last
          /\ pc' = "running" /\ began' = now /\ UNCHANGED <<now, sent, burst, replies>>
        BY <1>2 DEF Mcp!Call
    <2>3. Mcp!Line' = line
        BY <2>1, <2>2 DEF Mcp!Line
    <2>4. asking' \in BOOLEAN /\ noted' \in BOOLEAN
        BY <2>2
    <2>5. Mcp!Runs(Mcp!Line') /\ (noted' <=> Mcp!Line'.probes /\ ~Mcp!Line'.declared /\ ~asking')
        BY <1>2, <2>2, <2>3 DEF Mcp!Call
    <2>6. CASE wants /\ Mcp!Allow
        <3>1. last' = now /\ now - last >= Interval /\ Interval \in Nat
            BY <2>2, <2>6 DEF Mcp!Allow, Mcp!McpAssumption
        <3>2. burst <= now /\ now - burst >= Interval
            BY <3>1
        <3>3. QED
            BY <2>1, <2>2, <2>4, <2>5, <3>1, <3>2
    <2>7. CASE ~(wants /\ Mcp!Allow)
        <3>1. last' = last /\ ~asking'
            BY <2>2, <2>7
        <3>2. QED
            BY <2>1, <2>2, <2>4, <2>5, <3>1
    <2>8. QED
        BY <2>6, <2>7
<1>3. CASE Mcp!Finish
    <2>1. /\ replies' \in Seq(ReplyKind)
          /\ pc' \in {"reading", "over"}
        BY <1>3, WriteShape DEF Mcp!Finish
    <2>2. QED
        BY <1>3, <2>1 DEF Mcp!Finish
<1>4. CASE Mcp!End
    BY <1>4 DEF Mcp!End
<1>5. QED
    BY <1>1, <1>2, <1>3, <1>4 DEF Mcp!Server

LEMMA McpStep == McpIInv /\ [Mcp!Next]_(Mcp!vars) => McpIInv'
    BY OthersInvariant, ServerInvariant DEF Mcp!Next, Mcp!Over

LEMMA McpInvariant == Mcp!McpAssumption /\ Mcp!Spec => []McpIInv
    BY McpInit, McpStep, PTL DEF Mcp!Spec

\* Commands that ask the control plane begin at least an interval apart, for any
\* interval and however fast the calls come in.
THEOREM ThrottleHolds == Mcp!McpAssumption /\ Mcp!Spec => BurstsApart
<1>1. McpIInv /\ [Mcp!Next]_(Mcp!vars) => [burst' # burst => burst' - burst >= Interval]_burst
    <2> SUFFICES ASSUME McpIInv, Mcp!Next, burst' # burst PROVE burst' - burst >= Interval
        BY DEF Mcp!vars, Mcp!plane
    <2>1. Mcp!Probe
        BY DEF Mcp!Next, Mcp!Tick, Mcp!Send, Mcp!Close, Mcp!Over, Mcp!Server, Mcp!Handle, Mcp!Call, Mcp!Finish, Mcp!End, Mcp!vars, Mcp!plane
    <2>2. QED
        BY <2>1 DEF Mcp!Probe, McpIInv, Spaced
<1>2. QED
    BY <1>1, McpInvariant, PTL DEF Mcp!Spec, BurstsApart

-----------------------------------------------------------------------------
(* One reply to a request.  A step of the server writes one reply, to the   *)
(* request that it is done with, or none and is done with none.             *)

Tos == {replies[i].to : i \in DOMAIN replies} \ {Mcp!Null}

\* Where the server is with the requests: AnsweredOnce, and that no reply is
\* addressed to a line it has not come to.
Answering == Mcp!AnsweredOnce /\ \A n \in Tos : n \in 1 .. taken /\ (pc = "running" => n < taken)

\* Nothing that leaves the replies and the lines that were read alone matters.
LEMMA AnsweringKept ==
    ASSUME Shape, Answering, UNCHANGED <<taken, pc, replies>>, heard' => heard,
           \A n \in 1 .. taken : sent'[n] = sent[n]
    PROVE  Answering'
<1>1. Tos' = Tos /\ Mcp!Dealt' = Mcp!Dealt
    BY DEF Tos, Mcp!Dealt, Mcp!Asking, Shape
<1>2. QED
    BY <1>1 DEF Answering, Mcp!AnsweredOnce, Tos

\* A reply to a line that the server is done with only now.
LEMMA AnsweringGrows ==
    ASSUME Shape, Answering, NEW to \in Int, NEW how, NEW note, Mcp!Write(to, how, note),
           UNCHANGED <<heard, sent>>, Shape',
           to = Mcp!Null \/ (to = taken' /\ (pc = "running" \/ taken' = taken + 1)),
           Mcp!Dealt' = Mcp!Dealt \cup ({to} \ {Mcp!Null}), taken <= taken'
    PROVE  Answering'
<1>1. CASE ~heard
    <2>1. UNCHANGED replies /\ pc' = "over" /\ ~heard'
        BY <1>1 DEF Mcp!Write
    <2>2. Tos' = Tos
        BY <2>1 DEF Tos
    <2>3. \A n \in Tos : n \in 1 .. taken'
        BY DEF Answering, Shape
    <2>4. QED
        BY <2>1, <2>2, <2>3 DEF Answering, Mcp!AnsweredOnce
<1>2. CASE heard
    <2> DEFINE reply == [to |-> to, how |-> how, noted |-> note]
    <2>1. replies' = Append(replies, reply) /\ pc' = "reading"
        BY <1>2 DEF Mcp!Write
    <2>2. /\ Len(replies) \in Nat /\ DOMAIN replies = 1 .. Len(replies)
          /\ DOMAIN replies' = 1 .. Len(replies) + 1
          /\ \A i \in DOMAIN replies : replies'[i] = replies[i] /\ replies[i].to \in Int
          /\ replies'[Len(replies) + 1].to = to
        <3>1. replies \in Seq(ReplyKind)
            BY DEF Shape
        <3>2. ASSUME NEW i \in 1 .. Len(replies) PROVE replies[i].to \in Int
            <4>1. replies[i] \in ReplyKind
                BY <3>1
            <4>2. QED
                BY <4>1 DEF ReplyKind
        <3>3. /\ Len(replies) \in Nat /\ DOMAIN replies = 1 .. Len(replies)
              /\ DOMAIN replies' = 1 .. Len(replies) + 1
              /\ \A i \in 1 .. Len(replies) : replies'[i] = replies[i]
              /\ replies'[Len(replies) + 1] = reply
            BY <2>1, <3>1
        <3>4. QED
            BY <3>2, <3>3
    <2>3. Tos' = Tos \cup ({to} \ {Mcp!Null})
        BY <2>2 DEF Tos
    <2>4. \A n \in Tos : n \in 1 .. taken' /\ (to # Mcp!Null => n < to)
        BY DEF Answering, Shape
    <2>5. \A i, j \in DOMAIN replies' :
              i < j /\ Mcp!Null \notin {replies'[i].to, replies'[j].to} => replies'[i].to < replies'[j].to
        <3> SUFFICES ASSUME NEW i \in DOMAIN replies', NEW j \in DOMAIN replies', i < j,
                            replies'[i].to # Mcp!Null, replies'[j].to # Mcp!Null
                     PROVE  replies'[i].to < replies'[j].to
            OBVIOUS
        <3>1. i \in DOMAIN replies /\ replies'[i].to = replies[i].to
            BY <2>2
        <3>2. CASE j \in DOMAIN replies
            BY <2>2, <3>1, <3>2 DEF Answering, Mcp!AnsweredOnce
        <3>3. CASE j = Len(replies) + 1
            BY <2>2, <2>4, <3>1, <3>3 DEF Tos
        <3>4. QED
            BY <2>2, <3>2, <3>3
    <2>6. \A n \in Tos' : n \in 1 .. taken'
        BY <2>3, <2>4 DEF Mcp!Dealt
    <2>7. Tos' = Mcp!Dealt'
        BY <1>2, <2>3 DEF Answering, Mcp!AnsweredOnce, Tos
    <2>8. QED
        BY <2>1, <2>5, <2>6, <2>7 DEF Answering, Mcp!AnsweredOnce, Tos
<1>3. QED
    BY <1>1, <1>2

LEMMA AnsweringStep ==
    ASSUME McpIInv, McpIInv', Answering, [Mcp!Next]_(Mcp!vars)
    PROVE  Answering'
<1> USE DEF Mcp!client, Mcp!call, Mcp!plane
<1>1. Shape /\ Shape' /\ sent \in Seq(Lines) /\ taken \in Nat /\ taken <= Len(sent)
    BY DEF McpIInv, Shape
<1>2. CASE Mcp!Tick \/ Mcp!Close \/ Mcp!Probe \/ UNCHANGED Mcp!vars
    <2>1. UNCHANGED <<taken, pc, replies, sent>> /\ (heard' => heard)
        BY <1>2 DEF Mcp!Tick, Mcp!Close, Mcp!Probe, Mcp!vars
    <2>2. QED
        BY <1>1, <2>1, AnsweringKept
<1>3. CASE Mcp!Send
    <2>1. UNCHANGED <<taken, pc, replies, heard>> /\ \E line \in Lines : sent' = Append(sent, line)
        BY <1>3 DEF Mcp!Send
    <2>2. \A n \in 1 .. taken : sent'[n] = sent[n]
        BY <1>1, <2>1
    <2>3. QED
        BY <1>1, <2>1, <2>2, AnsweringKept
<1>4. CASE Mcp!Handle
    <2> DEFINE line == sent[taken + 1]
    <2>1. /\ taken' = taken + 1 /\ taken' \in 1 .. Len(sent) /\ pc = "reading"
          /\ UNCHANGED <<sent, heard>> /\ Mcp!Answered(taken + 1) /\ ~Mcp!Runs(line)
        BY <1>1, <1>4, ReadsALine DEF Mcp!Handle, Mcp!ReadLine
    <2>2. pc' # "running"
        BY <1>1, <1>4, <2>1, AnsweredShape DEF Mcp!Handle
    <2>3. Mcp!Dealt' = IF Mcp!Asking(taken + 1) THEN Mcp!Dealt \cup {taken + 1} ELSE Mcp!Dealt
        BY <1>1, <2>1, <2>2 DEF Mcp!Dealt, Mcp!Asking
    <2>4. CASE line.kind = "garbage" \/ (line.kind = "malformed" /\ ~line.id)
        <3>1. Mcp!Write(Mcp!Null, "error", FALSE)
            BY <2>1, <2>4, Zenon DEF Mcp!Answered, Mcp!Reply
        <3>2. Mcp!Null \in Int /\ Mcp!Dealt' = Mcp!Dealt \cup ({Mcp!Null} \ {Mcp!Null}) /\ taken <= taken'
            BY <1>1, <2>1, <2>3, <2>4 DEF Mcp!Asking, Mcp!Null
        <3>3. QED
            BY <1>1, <2>1, <3>1, <3>2, AnsweringGrows
    <2>5. CASE line.id /\ line.kind \in {"malformed", "other"}
        <3>1. PICK how \in {"result", "error"} : Mcp!Write(taken + 1, how, FALSE)
            BY <2>1, <2>5 DEF Mcp!Answered, Mcp!Reply
        <3>2. /\ taken + 1 \in Int /\ Mcp!Dealt' = Mcp!Dealt \cup ({taken + 1} \ {Mcp!Null})
              /\ taken <= taken'
            BY <1>1, <2>1, <2>3, <2>5 DEF Mcp!Asking, Mcp!Null
        <3>3. QED
            BY <1>1, <2>1, <3>1, <3>2, AnsweringGrows
    <2>6. CASE ~line.id /\ line.kind \in {"other", "call"}
        <3>1. UNCHANGED <<pc, replies>> /\ ~Mcp!Asking(taken + 1)
            BY <2>1, <2>6 DEF Mcp!Answered, Mcp!Asking
        <3>2. Tos' = Tos /\ Mcp!Dealt' = Mcp!Dealt
            BY <2>3, <3>1 DEF Tos
        <3>3. Mcp!AnsweredOnce'
            BY <2>1, <3>1, <3>2 DEF Answering, Mcp!AnsweredOnce, Tos
        <3>4. \A n \in Tos' : n \in 1 .. taken'
            BY <1>1, <2>1, <3>2 DEF Answering
        <3>5. QED
            BY <2>1, <3>1, <3>3, <3>4 DEF Answering
    <2>7. line \in Mcp!LineKinds
        BY <1>1, <2>1 DEF McpIInv, Mcp!McpAssumption
    <2>8. QED
        BY <2>1, <2>4, <2>5, <2>6, <2>7 DEF Mcp!LineKinds, Mcp!Runs
<1>5. CASE Mcp!Call
    <2>1. /\ taken' = taken + 1 /\ taken' \in 1 .. Len(sent) /\ pc = "reading" /\ pc' = "running"
          /\ UNCHANGED <<sent, heard, replies>>
        BY <1>1, <1>5, ReadsALine DEF Mcp!Call, Mcp!ReadLine
    <2>2. Mcp!Dealt' = Mcp!Dealt /\ Tos' = Tos
        BY <1>1, <2>1 DEF Mcp!Dealt, Mcp!Asking, Tos
    <2>3. \A n \in Tos : n < taken'
        BY <1>1, <2>1 DEF Answering
    <2>4. QED
        BY <1>1, <2>1, <2>2, <2>3 DEF Answering, Mcp!AnsweredOnce
<1>6. CASE Mcp!Finish
    <2>1. /\ Mcp!Write(taken, "result", noted) /\ UNCHANGED <<sent, heard, taken>> /\ pc = "running"
        BY <1>6 DEF Mcp!Finish
    <2>2. taken > 0 /\ Mcp!Runs(Mcp!Line)
        BY <2>1 DEF McpIInv, Aware
    <2>3. pc' # "running"
        BY <2>1 DEF Mcp!Write
    <2>4. Mcp!Dealt' = Mcp!Dealt \cup {taken}
        BY <1>1, <2>1, <2>2, <2>3 DEF Mcp!Dealt, Mcp!Asking, Mcp!Runs, Mcp!Line
    <2>5. QED
        BY <1>1, <2>1, <2>2, <2>4, AnsweringGrows DEF Mcp!Null
<1>7. CASE Mcp!End
    <2>1. UNCHANGED <<taken, replies, heard, sent>> /\ pc = "reading" /\ pc' = "over"
        BY <1>7 DEF Mcp!End
    <2>2. Mcp!Dealt' = Mcp!Dealt /\ Tos' = Tos
        BY <2>1 DEF Mcp!Dealt, Mcp!Asking, Tos
    <2>3. QED
        BY <2>1, <2>2 DEF Answering, Mcp!AnsweredOnce
<1>8. QED
    BY <1>2, <1>3, <1>4, <1>5, <1>6, <1>7 DEF Mcp!Next, Mcp!Server, Mcp!Over

\* Every request that has been dealt with has exactly one reply, in order, however
\* many lines of whichever kinds the client sends.
THEOREM RepliesAreOrdered == Mcp!McpAssumption /\ Mcp!Spec => []AnsweredOnce
<1>1. Mcp!Init => Answering
    BY DEF Mcp!Init, Answering, Mcp!AnsweredOnce, Mcp!Dealt, Tos
<1>2. McpIInv /\ McpIInv' /\ Answering /\ [Mcp!Next]_(Mcp!vars) => Answering'
    BY AnsweringStep
<1>3. Answering => AnsweredOnce
    BY DEF Answering, AnsweredOnce, Dealt, Asking, Null, Mcp!AnsweredOnce, Mcp!Dealt, Mcp!Asking, Mcp!Null
<1>4. QED
    BY <1>1, <1>2, <1>3, McpInvariant, PTL DEF Mcp!Spec

\* An answer carries the note if and only if its command was kept from asking a
\* control plane that it would have asked.
THEOREM DowngradesAreSaid == Mcp!McpAssumption /\ Mcp!Spec => DowngradeSaid
<1>1. McpIInv /\ [Mcp!Next]_(Mcp!vars)
          => [pc = "running" /\ pc' = "reading" =>
                 replies'[Len(replies')].noted = (Line.probes /\ ~Line.declared /\ ~asking)]_<<pc, replies>>
    <2> SUFFICES ASSUME McpIInv, Mcp!Next, pc = "running", pc' = "reading"
                 PROVE  replies'[Len(replies')].noted = (Line.probes /\ ~Line.declared /\ ~asking)
        BY DEF Mcp!vars
    <2>1. Mcp!Finish
        BY DEF Mcp!Next, Mcp!Tick, Mcp!Send, Mcp!Close, Mcp!Probe, Mcp!Over, Mcp!Server, Mcp!Handle, Mcp!Call, Mcp!ReadLine, Mcp!End, Mcp!vars
    <2>2. replies'[Len(replies')].noted = noted
        <3>1. Shape /\ taken \in Int /\ noted \in BOOLEAN
            BY DEF McpIInv, Shape
        <3>2. Mcp!Write(taken, "result", noted)
            BY <2>1 DEF Mcp!Finish
        <3>3. QED
            BY <3>1, <3>2, WriteShape
    <2>3. noted = (Line.probes /\ ~Line.declared /\ ~asking)
        BY DEF McpIInv, Aware, Shape, Line, Mcp!Line
    <2>4. QED
        BY <2>2, <2>3
<1>2. QED
    BY <1>1, McpInvariant, PTL DEF Mcp!Spec, DowngradeSaid

-----------------------------------------------------------------------------
(* Types.                                                                  *)

ReplyOf(lines) == [to : 0 .. lines, how : {"result", "error"}, noted : BOOLEAN]

\* Moments are of the clock, and replies are to lines that were sent.
Typed ==
    /\ now \in 0 .. MaxTime /\ open \in BOOLEAN /\ heard \in BOOLEAN
    /\ Len(sent) <= MaxLines
    /\ began \in Mcp!Moments /\ last \in Mcp!Moments /\ planeAsked \in Mcp!Moments /\ burst \in Mcp!Moments
    /\ replies \in Seq(ReplyOf(Len(sent)))

\* A reply that is written is to a line that was sent, or to none.
LEMMA WriteTyped ==
    ASSUME Typed, NEW to \in 0 .. Len(sent), NEW how \in {"result", "error"}, NEW note \in BOOLEAN,
           Mcp!Write(to, how, note)
    PROVE  replies' \in Seq(ReplyOf(Len(sent)))
<1>1. [to |-> to, how |-> how, noted |-> note] \in ReplyOf(Len(sent))
    BY DEF ReplyOf
<1>2. QED
    BY <1>1 DEF Mcp!Write, Typed

LEMMA TypedStep ==
    ASSUME McpIInv, Typed, [Mcp!Next]_(Mcp!vars)
    PROVE  Typed'
<1> USE DEF Mcp!client, Mcp!call, Mcp!plane
<1>1. Shape /\ Len(sent) \in Nat /\ taken \in Nat /\ taken <= Len(sent) /\ MaxTime \in Nat
    BY DEF McpIInv, Shape, Mcp!McpAssumption
<1>2. now \in Mcp!Moments
    BY DEF Typed, Mcp!Moments
<1>3. CASE Mcp!Tick
    BY <1>1, <1>3 DEF Mcp!Tick, Typed
<1>4. CASE Mcp!Send
    <2>1. /\ Len(sent') = Len(sent) + 1 /\ Len(sent) < MaxLines
          /\ UNCHANGED <<now, open, heard, began, last, planeAsked, burst, replies>>
        BY <1>1, <1>4 DEF Mcp!Send, Shape
    <2>2. ReplyOf(Len(sent)) \subseteq ReplyOf(Len(sent'))
        BY <1>1, <2>1 DEF ReplyOf
    <2>3. replies' \in Seq(ReplyOf(Len(sent')))
        BY <2>1, <2>2 DEF Typed
    <2>4. Len(sent') <= MaxLines
        BY <1>1, <2>1 DEF McpIInv, Mcp!McpAssumption
    <2>5. QED
        BY <2>1, <2>3, <2>4 DEF Typed
<1>5. CASE Mcp!Close
    BY <1>5 DEF Mcp!Close, Typed
<1>6. CASE Mcp!Probe
    BY <1>2, <1>6 DEF Mcp!Probe, Typed
<1>7. CASE Mcp!Handle
    <2>1. taken + 1 \in 0 .. Len(sent) /\ Mcp!Null \in 0 .. Len(sent)
        BY <1>1, <1>7, ReadsALine DEF Mcp!Handle, Mcp!Null
    <2>2. \/ UNCHANGED replies
          \/ \E to \in {Mcp!Null, taken + 1}, how \in {"result", "error"} : Mcp!Write(to, how, FALSE)
        BY <1>7, Zenon DEF Mcp!Handle, Mcp!Answered, Mcp!Reply
    <2>3. replies' \in Seq(ReplyOf(Len(sent)))
        BY <2>1, <2>2, WriteTyped DEF Typed
    <2>4. QED
        BY <1>7, <2>3 DEF Mcp!Handle, Typed
<1>8. CASE Mcp!Call
    <2>1. UNCHANGED <<now, open, heard, sent, planeAsked, burst, replies>> /\ began' = now /\ last' \in {now, last}
        BY <1>8 DEF Mcp!Call
    <2>2. QED
        BY <1>2, <2>1 DEF Typed
<1>9. CASE Mcp!Finish
    <2>1. taken \in 0 .. Len(sent) /\ noted \in BOOLEAN /\ Mcp!Write(taken, "result", noted)
        BY <1>1, <1>9 DEF Mcp!Finish, Shape
    <2>2. replies' \in Seq(ReplyOf(Len(sent)))
        BY <2>1, WriteTyped
    <2>3. QED
        BY <1>9, <2>2 DEF Mcp!Finish, Typed
<1>10. CASE Mcp!End \/ UNCHANGED Mcp!vars
    BY <1>10 DEF Mcp!End, Mcp!vars, Typed
<1>11. QED
    BY <1>3, <1>4, <1>5, <1>6, <1>7, <1>8, <1>9, <1>10 DEF Mcp!Next, Mcp!Server, Mcp!Over

\* A command may ask only for a line that is to be probed for.
Asks == asking => Mcp!Line.probes /\ ~Mcp!Line.declared

LEMMA AsksStep ==
    ASSUME McpIInv, Asks, [Mcp!Next]_(Mcp!vars)
    PROVE  Asks'
<1> USE DEF Mcp!client, Mcp!call, Mcp!plane
<1>1. /\ sent \in Seq(Lines) /\ taken \in Nat /\ taken <= Len(sent)
      /\ asking => pc = "running" /\ taken > 0
    BY DEF McpIInv, Shape, Spaced, Aware
<1>2. CASE Mcp!Tick \/ Mcp!Close \/ Mcp!Probe \/ Mcp!End \/ UNCHANGED Mcp!vars
    BY <1>2 DEF Mcp!Tick, Mcp!Close, Mcp!Probe, Mcp!End, Mcp!vars, Asks, Mcp!Line
<1>3. CASE Mcp!Send
    <2>1. UNCHANGED <<taken, asking>> /\ \E line \in Lines : sent' = Append(sent, line)
        BY <1>3 DEF Mcp!Send
    <2>2. asking => Mcp!Line' = Mcp!Line
        BY <1>1, <2>1 DEF Mcp!Line
    <2>3. QED
        BY <2>1, <2>2 DEF Asks
<1>4. CASE Mcp!Handle
    BY <1>1, <1>4 DEF Mcp!Handle, Mcp!ReadLine, Asks
<1>5. CASE Mcp!Call
    BY <1>5 DEF Mcp!Call, Mcp!ReadLine, Asks, Mcp!Line
<1>6. CASE Mcp!Finish
    BY <1>6 DEF Mcp!Finish, Asks
<1>7. QED
    BY <1>2, <1>3, <1>4, <1>5, <1>6 DEF Mcp!Next, Mcp!Server, Mcp!Over

\* Every variable keeps its type: a reply is to a line that was sent, and a command runs
\* only for a line that asked, and may ask only where that line does not forbid it.
THEOREM McpTypeCorrect == Mcp!McpAssumption /\ Mcp!Spec => []Mcp!TypeOK
<1>1. Mcp!McpAssumption /\ Mcp!Init => Typed /\ Asks
    BY DEF Mcp!McpAssumption, Mcp!Init, Typed, Mcp!Moments, Asks
<1>2. McpIInv /\ Typed /\ Asks => Mcp!TypeOK
    <2> SUFFICES ASSUME McpIInv, Typed, Asks PROVE Mcp!TypeOK
        OBVIOUS
    <2>1. sent \in Seq(Lines) /\ taken \in 0 .. Len(sent)
        BY DEF McpIInv, Shape
    <2>2. ASSUME NEW i \in DOMAIN replies PROVE replies[i] \in ReplyOf(Len(sent))
        BY <2>2 DEF Typed
    <2>3. QED
        BY <2>1, <2>2 DEF Mcp!TypeOK, McpIInv, Shape, Aware, Typed, Asks, ReplyOf
<1>3. McpIInv /\ Typed /\ Asks /\ [Mcp!Next]_(Mcp!vars) => (Typed /\ Asks)'
    BY TypedStep, AsksStep
<1>4. QED
    BY <1>1, <1>2, <1>3, McpInvariant, PTL DEF Mcp!Spec
=============================================================================
