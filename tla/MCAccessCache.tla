---------------------------- MODULE MCAccessCache ----------------------------
(* Directories of AccessCache for TLC.  Partitions, questions and runs are  *)
(* interchangeable: nothing in the cache tells one from another, and the    *)
(* directories below are of any of them.                                    *)
EXTENDS AccessCache, TLC

\* Two runs told different things about two partitions of one question, across
\* the TTL.
Shared ==
    {[keys |-> {k}, runs |-> Everyone, answers |-> {"yes"}, stored |-> {"no"}, keep |-> 3,
      maxTime |-> 3, maxSpan |-> 1, maxKills |-> 0] : k \in Questions}

\* More questions than the directory keeps, one run at a time, two of them killed.
Crowded ==
    {[keys |-> Questions, runs |-> {r}, answers |-> {"yes"}, stored |-> {"yes"}, keep |-> 1,
      maxTime |-> 0, maxSpan |-> 1, maxKills |-> 2] : r \in Everyone}

MCSites == Shared \cup Crowded

Alike == Permutations(Partitions) \cup Permutations(Questions) \cup Permutations(Everyone)
=============================================================================
