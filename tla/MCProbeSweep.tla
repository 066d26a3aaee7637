---------------------------- MODULE MCProbeSweep ----------------------------
(* An instance of ProbeSweep for TLC: three queues that are walked, one that *)
(* is ruled out without asking, unless `check` asks, and three accounts.    *)
EXTENDS ProbeSweep

CONSTANTS narrow, wide, wider, shut, a1, a2, a3

MCNameOrder == [q \in Queues |-> CASE q = narrow -> 2 [] q = wide -> 1 [] q = wider -> 3 [] q = shut -> 0]

MCPosition ==
    [a \in Accounts \cup {NoAccount} |->
        CASE a = a1 -> 1 [] a = a2 -> 2 [] a = a3 -> 3 [] a = NoAccount -> 0]

\* Two queues list a single account, the last in the caller's list, one lists two,
\* and one publishes no allowlist.
MCAllowAccounts ==
    [q \in Queues |-> CASE q \in {narrow, shut} -> {a3} [] q = wide -> {a2, a3} [] OTHER -> {}]
=============================================================================
