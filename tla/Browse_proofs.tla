----------------------------- MODULE Browse_proofs -----------------------------
(***************************************************************************)
(* What holds of the browse's screen, of its cursor, and of the levels one *)
(* may step out to and the rows one comes out at, for every reading of a   *)
(* cluster, every number of reloads and every sequence of keys.            *)
(***************************************************************************)
EXTENDS Browse, SequenceTheorems, FiniteSetTheorems, TLAPS

\* What a select has on the screen is known to it; a reload leaves that standing,
\* and says how much it is.
IInv ==
    /\ snap \in 1 .. Len(Snapshots)
    /\ pc = "browsing" => screen = Block(snap, Top) /\ painted = Len(screen)
    /\ pc = "reloading" =>
          /\ snap < Len(Snapshots) /\ standing = Len(screen)
          /\ screen = Block(snap, Top)

-----------------------------------------------------------------------------
\* A block is as high as the reading says.
LEMMA BlockLines ==
    ASSUME NEW v \in 1 .. Len(Snapshots), NEW level
    PROVE  /\ Block(v, level) \in Seq({<<v, level>>})
           /\ Len(Block(v, level)) = Snapshots[v].height
<1>1. Snapshots[v].height \in Nat \ {0}
    <2>1. DOMAIN Snapshots = 1 .. Len(Snapshots)
        BY BrowseAssumption, LenProperties
    <2>2. QED
        BY <2>1, BrowseAssumption
<1>2. QED
    BY <1>1 DEF Block

\* Overwriting as many lines as there are leaves nothing of them.
LEMMA OverAll ==
    ASSUME NEW S, NEW old \in Seq(S), NEW T, NEW new \in Seq(T)
    PROVE  /\ Over(old, Len(old), new) = new
           /\ Over(<<>>, 0, new) = new
<1>1. SubSeq(old, 1, Len(old) - Len(old)) = <<>>
    BY LenProperties, SubSeqEmpty
<1>2. SubSeq(<<>>, 1, 0 - 0) = <<>>
    BY SubSeqEmpty
<1>3. <<>> \o new = new
    BY ConcatEmptySeq
<1>4. QED
    BY <1>1, <1>2, <1>3 DEF Over

\* Nothing is left standing, or all of it is known.
Settles(old, n) ==
    \/ old = <<>> /\ n = 0
    \/ old = screen /\ screen = Block(snap, Top) /\ n = Len(screen)

\* A select that starts over such a screen leaves one block on it.
LEMMA ShowsOne ==
    ASSUME IInv, NEW v \in 1 .. Len(Snapshots), NEW levels, NEW where, NEW old, NEW n,
           Show(v, levels, where, old, n),
           Settles(old, n)
    PROVE  IInv'
<1> DEFINE top == Last(Settled(v, levels))
<1>1. stack' = Settled(v, levels) /\ snap' = v /\ pc' = "browsing"
    BY DEF Show
<1>2. painted' = Len(Block(v, top)) /\ screen' = Over(old, n, Block(v, top))
    BY DEF Show
<1>3. Block(snap, Top) \in Seq({<<snap, Top>>}) /\ Block(v, top) \in Seq({<<v, top>>})
    BY BlockLines DEF IInv
<1>4. Block(snap', Top') = Block(v, top)
    BY <1>1 DEF Top, Block
<1> HIDE DEF top
<1>5. screen' = Block(v, top)
    BY <1>2, <1>3, OverAll DEF Settles
<1>6. QED
    BY <1>1, <1>2, <1>4, <1>5 DEF IInv

\* A browse opens on one block.
LEMMA InitInvariant == Init => IInv
<1> SUFFICES ASSUME Init PROVE IInv
    OBVIOUS
<1>1. 1 \in 1 .. Len(Snapshots)
    BY BrowseAssumption, LenProperties
<1>2. Top = Root
    BY DEF Init, Top, Last
<1>3. Len(Block(1, Root)) = Snapshots[1].height
    BY <1>1, BlockLines
<1>4. QED
    BY <1>1, <1>2, <1>3 DEF Init, IInv

\* Moving the cursor paints the block over itself.
LEMMA MovesOne ==
    ASSUME IInv, Key, NEW i, MoveTo(i)
    PROVE  IInv'
<1>1. /\ stack' = stack /\ snap' = snap /\ pc = "browsing" /\ pc' = "browsing"
      /\ painted' = Len(Block(snap, Top))
      /\ screen' = Over(screen, painted, Block(snap, Top))
    BY DEF MoveTo, Key
<1>2. Block(snap, Top) \in Seq({<<snap, Top>>})
    BY BlockLines DEF IInv
<1>3. screen' = Block(snap, Top)
    BY <1>1, <1>2, OverAll DEF IInv
<1>4. Block(snap', Top') = Block(snap, Top)
    BY <1>1 DEF Block, Top
<1>5. QED
    BY <1>1, <1>3, <1>4 DEF IInv

\* Opening a row or stepping out erases the block first.
LEMMA LevelsOne ==
    ASSUME IInv, Key, NEW levels, NEW where, Show(snap, levels, where, Erased, 0)
    PROVE  IInv'
<1>1. screen = Block(snap, Top) /\ painted = Len(screen) /\ snap \in 1 .. Len(Snapshots)
    BY DEF IInv, Key
<1>2. screen \in Seq({<<snap, Top>>})
    BY <1>1, BlockLines
<1>3. <<>> \in Seq({<<snap, Top>>})
    BY EmptySeq
<1>4. Over(screen, Len(screen), <<>>) = <<>>
    BY <1>2, <1>3, OverAll
<1>5. Erased = <<>>
    BY <1>1, <1>4 DEF Erased
<1>6. Show(snap, levels, where, <<>>, 0)
    BY <1>5
<1>7. Settles(<<>>, 0)
    BY DEF Settles
<1>8. QED
    BY <1>1, <1>6, <1>7, ShowsOne

\* Every key, every reload and every reading that comes back leaves one block.
LEMMA StepInvariant == IInv /\ [Next]_vars => IInv'
<1> SUFFICES ASSUME IInv, [Next]_vars PROVE IInv'
    OBVIOUS
<1>1. ASSUME Key, NEW i, MoveTo(i) PROVE IInv'
    BY <1>1, MovesOne
<1>2. ASSUME Key, Back PROVE IInv'
    BY <1>2, LevelsOne DEF Back
<1>3. ASSUME Key, Open PROVE IInv'
    BY <1>3, LevelsOne DEF Open
<1>4. ASSUME NEW rest, Ended(rest) PROVE IInv'
    BY <1>4 DEF Ended, IInv, shown
<1>5. CASE Up \/ Down \/ ToTop \/ Bottom
    BY <1>1, <1>5 DEF Up, Down, ToTop, Bottom
<1>6. CASE Left
    BY <1>1, <1>2, <1>6 DEF Left
<1>7. CASE Right \/ Enter
    BY <1>1, <1>3, <1>7 DEF Right, Enter
<1>8. CASE Escape \/ Quit
    BY <1>2, <1>4, <1>8 DEF Escape, Quit
<1>9. CASE Reload
    <2>1. /\ snap < Len(Snapshots) /\ pc = "browsing" /\ pc' = "reloading"
          /\ standing' = painted /\ screen' = screen /\ stack' = stack /\ snap' = snap
        BY <1>9 DEF Reload, Key, LeaveStanding, shown
    <2>2. QED
        BY <2>1 DEF IInv, Top
<1>10. CASE Resume
    <2>1. snap + 1 \in 1 .. Len(Snapshots)
        BY <1>10 DEF Resume, IInv
    <2>2. Settles(screen, standing)
        BY <1>10 DEF Resume, IInv, Settles
    <2>3. QED
        BY <1>10, <2>1, <2>2, ShowsOne DEF Resume, Adopt
<1>11. CASE Rest \/ UNCHANGED vars
    BY <1>11 DEF Rest, vars, shown, lines, IInv, Top
<1>12. QED
    BY <1>5, <1>6, <1>7, <1>8, <1>9, <1>10, <1>11 DEF Next

-----------------------------------------------------------------------------
\* There is one screen: whatever is opened, left, moved over or reloaded, and
\* however high the frames of the readings are, what stands below the prompt is
\* the block of the level on top and nothing else.
THEOREM OneScreen == Spec => []OneBlock
<1>1. Init => IInv
    BY InitInvariant
<1>2. IInv /\ [Next]_vars => IInv'
    BY StepInvariant
<1>3. IInv => OneBlock
    BY DEF IInv, OneBlock
<1>4. QED
    BY <1>1, <1>2, <1>3, PTL DEF Spec

-----------------------------------------------------------------------------
(* The levels.                                                             *)

\* How deep a level of each kind is.
Depth(level) ==
    CASE level[1] = "partitions" -> 1
      [] level[1] \in {"all", "excluded"} -> 2
      [] level[1] = "nodes" -> 3
      [] level[1] = "jobs" -> 4
      [] level[1] = "job" -> 5

\* A stack that starts at the overview and goes deeper with each level, through
\* nothing that is not in the reading.
Standing(v, levels) ==
    /\ levels \in Seq(Levels) /\ levels # <<>> /\ levels[1] = Root
    /\ \A d, e \in DOMAIN levels : d < e => Depth(levels[d]) < Depth(levels[e])
    /\ \A d \in DOMAIN levels : Known(v, levels[d])

\* The stack is such a one, also while it is saved, with the cursor on a row.
Placed ==
    /\ snap \in DOMAIN Snapshots /\ pc \in {"browsing", "reloading", "ended"}
    /\ Standing(snap, stack)
    /\ index \in 1 .. Count(snap, Top)
    /\ \A level \in DOMAIN cursors : cursors[level] \in Nat \ {0}
    /\ pc = "reloading" => snap < Len(Snapshots) /\ saved = <<stack, cursors>>
    /\ painted \in Nat /\ standing \in Nat /\ keyed \in 0 .. MaxKeys

\* The places of a list that are kept, in their order: the first is kept first.
LEMMA RankedOrder ==
    ASSUME NEW N \in Nat, NEW K \in SUBSET (1 .. N)
    PROVE  /\ Cardinality(K) \in Nat
           /\ \A n \in 1 .. Cardinality(K) : Ranked(K, n) \in K
           /\ \A n, m \in 1 .. Cardinality(K) : n < m => Ranked(K, n) < Ranked(K, m)
           /\ 1 \in K => 1 \in 1 .. Cardinality(K) /\ Ranked(K, 1) = 1
           /\ \A i \in K : \E n \in 1 .. Cardinality(K) : Ranked(K, n) = i
<1> DEFINE UpTo(n) == {j \in K : j <= n}
           place(n) == Cardinality(UpTo(n))
           R == 1 .. Cardinality(K)
           f == [i \in K |-> place(i)]
<1>1. \A i \in K : i \in Nat /\ 1 <= i
    OBVIOUS
<1>2. IsFiniteSet(K) /\ Cardinality(K) \in Nat
    <2>1. IsFiniteSet(1 .. N)
        BY FS_Interval
    <2>2. QED
        BY <2>1, FS_Subset, FS_CardinalityType
<1>3. \A n : UpTo(n) \in SUBSET K
    OBVIOUS
<1>4. \A i \in K : i \in UpTo(i)
    BY <1>1
<1>5. \A i, j \in K : i < j => UpTo(i) \in SUBSET UpTo(j) /\ j \notin UpTo(i)
    <2> SUFFICES ASSUME NEW i \in K, NEW j \in K, i < j
                 PROVE  UpTo(i) \in SUBSET UpTo(j) /\ j \notin UpTo(i)
        OBVIOUS
    <2>1. ASSUME NEW k \in K, k <= i PROVE k <= j
        BY <1>1, <2>1
    <2>2. ~(j <= i)
        BY <1>1
    <2>3. QED
        BY <2>1, <2>2
<1>6. \A n : Ranked(K, n) = CHOOSE i \in K : place(i) = n
    BY DEF Ranked
<1> HIDE DEF UpTo
<1>7. \A i \in K : IsFiniteSet(UpTo(i)) /\ place(i) \in R
    <2> SUFFICES ASSUME NEW i \in K PROVE IsFiniteSet(UpTo(i)) /\ place(i) \in R
        OBVIOUS
    <2>1. IsFiniteSet(UpTo(i)) /\ place(i) <= Cardinality(K) /\ place(i) \in Nat
        BY <1>2, <1>3, FS_Subset, FS_CardinalityType
    <2>2. place(i) # 0
        BY <1>4, <2>1, FS_EmptySet
    <2> HIDE DEF place
    <2>3. QED
        BY <1>2, <2>1, <2>2
<1>8. \A i, j \in K : i < j => place(i) < place(j)
    <2> SUFFICES ASSUME NEW i \in K, NEW j \in K, i < j PROVE place(i) < place(j)
        OBVIOUS
    <2>1. IsFiniteSet(UpTo(j)) /\ UpTo(i) \in SUBSET UpTo(j) /\ UpTo(i) # UpTo(j)
        BY <1>4, <1>5, <1>7
    <2>2. place(i) <= place(j) /\ place(i) # place(j)
        BY <2>1, FS_Subset
    <2> HIDE DEF place
    <2>3. QED
        BY <1>2, <1>7, <2>2
<1> HIDE DEF place
<1>9. f \in Injection(K, R)
    <2>1. \A i, j \in K : place(i) = place(j) => i = j
        <3> SUFFICES ASSUME NEW i \in K, NEW j \in K, i # j PROVE place(i) # place(j)
            OBVIOUS
        <3>1. i < j \/ j < i
            BY <1>1
        <3>2. QED
            BY <1>2, <1>7, <1>8, <3>1
    <2>2. QED
        BY <1>7, <2>1 DEF Injection, IsInjective
<1>10. f \in Surjection(K, R)
    <2>1. IsFiniteSet(R) /\ Cardinality(R) = Cardinality(K)
        BY <1>2, FS_Interval
    <2> HIDE DEF f, R
    <2>2. QED
        BY <1>9, <2>1, FS_Injection
<1>11. \A n \in R : Ranked(K, n) \in K /\ place(Ranked(K, n)) = n
    <2>1. \A n \in R : \E i \in K : place(i) = n
        BY <1>10 DEF Surjection
    <2>2. QED
        BY <1>6, <2>1
<1>12. \A n, m \in R : n < m => Ranked(K, n) < Ranked(K, m)
    <2> SUFFICES ASSUME NEW n \in R, NEW m \in R, n < m PROVE Ranked(K, n) < Ranked(K, m)
        OBVIOUS
    <2>1. /\ Ranked(K, n) \in K /\ place(Ranked(K, n)) = n
          /\ Ranked(K, m) \in K /\ place(Ranked(K, m)) = m
        BY <1>11
    <2>2. Ranked(K, m) # Ranked(K, n) /\ ~(Ranked(K, m) < Ranked(K, n))
        <3>1. n \in Nat /\ m \in Nat
            BY <1>2
        <3>2. ~(m < n) /\ n # m
            BY <3>1
        <3>3. QED
            BY <1>8, <2>1, <3>2
    <2>3. Ranked(K, m) \in Nat /\ Ranked(K, n) \in Nat
        BY <1>1, <2>1
    <2>4. QED
        BY <2>2, <2>3
<1>13. ASSUME 1 \in K PROVE 1 \in R /\ Ranked(K, 1) = 1
    <2>1. 1 \in R
        BY <1>2, <1>7, <1>13
    <2>2. Ranked(K, 1) \in K /\ place(Ranked(K, 1)) = 1
        BY <1>11, <2>1
    <2>3. ASSUME 1 < Ranked(K, 1) PROVE FALSE
        <3>1. place(1) < 1 /\ place(1) \in 1 .. Cardinality(K)
            BY <1>7, <1>8, <1>13, <2>2, <2>3
        <3>2. QED
            BY <1>2, <3>1
    <2>4. Ranked(K, 1) \in Nat /\ 1 <= Ranked(K, 1)
        BY <1>1, <2>2
    <2>5. QED
        BY <2>1, <2>3, <2>4
<1>14. \A i \in K : \E n \in R : Ranked(K, n) = i
    <2> SUFFICES ASSUME NEW i \in K, Ranked(K, place(i)) # i PROVE FALSE
        BY <1>7
    <2> DEFINE j == Ranked(K, place(i))
    <2>1. j \in K /\ place(j) = place(i) /\ place(i) \in Nat
        BY <1>2, <1>7, <1>11
    <2>2. i < j \/ j < i
        <3>1. i \in Nat /\ j \in Nat /\ i # j
            BY <1>1, <2>1
        <3> HIDE DEF j
        <3>2. QED
            BY <3>1
    <2> HIDE DEF j
    <2>3. place(i) < place(j) \/ place(j) < place(i)
        BY <1>8, <2>1, <2>2
    <2>4. QED
        BY <2>1, <2>3
<1>15. QED
    BY <1>2, <1>11, <1>12, <1>13, <1>14

\* A level is what its kind says.
LEMMA LevelKinds ==
    ASSUME NEW level \in Levels
    PROVE  /\ level[1] \in {"partitions", "all", "excluded", "nodes", "jobs", "job"}
           /\ level[1] = "partitions" <=> level = Root
           /\ level[1] = "all" <=> level = Every
           /\ level[1] = "excluded" <=> level = Excluded
           /\ level # First /\ Depth(level) \in 1 .. 5
           /\ Depth(level) = 1 => level = Root
<1>1. Root[1] = "partitions" /\ Every[1] = "all" /\ Excluded[1] = "excluded" /\ First[1] = "open"
    BY DEF Root, Every, Excluded, First
<1>2. \/ level \in {Root, Every, Excluded}
      \/ level[1] = "nodes"
      \/ level[1] = "jobs"
      \/ level[1] = "job"
    BY DEF Levels
<1>3. QED
    BY <1>1, <1>2 DEF Depth

\* What a row of a level may open: the next kind of level, about what is in the
\* reading; only the overview has the entry that moves the cursor.
Below(v, level) ==
    {r \in Levels : Known(v, r) /\ Depth(level) < Depth(r)} \cup {r \in {First} : level = Root}

LEMMA ReadingShape ==
    ASSUME NEW v \in DOMAIN Snapshots
    PROVE  /\ Snapshots[v].height \in Nat \ {0}
           /\ Snapshots[v].queues \in Seq(DOMAIN Snapshots[v].nodes)
           /\ Snapshots[v].excluded \in Seq(DOMAIN Snapshots[v].nodes)
           /\ DOMAIN Snapshots[v].nodes \in SUBSET Queues
           /\ \A q \in DOMAIN Snapshots[v].nodes : Snapshots[v].nodes[q] \in Seq(Nodes(v))
           /\ Nodes(v) \in SUBSET Machines
           /\ \A n : JobsOn(v, n) \in Seq(Range(JobsOn(v, n)))
<1> DEFINE s == Snapshots[v]
<1>1. /\ s.height \in Nat \ {0}
      /\ s.queues \in Seq(Range(s.queues)) /\ s.excluded \in Seq(Range(s.excluded))
      /\ \A q \in DOMAIN s.nodes : s.nodes[q] \in Seq(Range(s.nodes[q]))
      /\ \A n \in DOMAIN s.jobs : s.jobs[n] \in Seq(Range(s.jobs[n]))
      /\ Range(s.queues) \in SUBSET DOMAIN s.nodes /\ Range(s.excluded) \in SUBSET DOMAIN s.nodes
    BY BrowseAssumption
<1>2. \A q \in DOMAIN s.nodes : Range(s.nodes[q]) \in SUBSET Nodes(v)
    BY BrowseAssumption DEF Nodes
<1>3. DOMAIN s.nodes \in SUBSET Queues /\ Nodes(v) \in SUBSET Machines
    BY DEF Queues, Machines
<1>4. \A n : JobsOn(v, n) \in Seq(Range(JobsOn(v, n)))
    <2>1. <<>> \in Seq(Range(<<>>))
        OBVIOUS
    <2>2. QED
        BY <1>1, <2>1 DEF JobsOn
<1> HIDE DEF s
<1>5. \A q \in DOMAIN s.nodes : s.nodes[q] \in Seq(Nodes(v))
    BY <1>1, <1>2
<1>6. s.queues \in Seq(DOMAIN s.nodes) /\ s.excluded \in Seq(DOMAIN s.nodes)
    BY <1>1
<1>7. QED
    BY <1>1, <1>3, <1>4, <1>5, <1>6 DEF s

\* The depths of the kinds.
LEMMA KindDepths ==
    ASSUME NEW level
    PROVE  /\ level[1] = "partitions" => Depth(level) = 1
           /\ level[1] \in {"all", "excluded"} => Depth(level) = 2
           /\ level[1] = "nodes" => Depth(level) = 3
           /\ level[1] = "jobs" => Depth(level) = 4
           /\ level[1] = "job" => Depth(level) = 5
BY DEF Depth

LEMMA RowsShape ==
    ASSUME NEW v \in DOMAIN Snapshots, NEW level \in Levels
    PROVE  /\ Rows(v, level) \in Seq(Below(v, level))
           /\ level = Root => Len(Rows(v, level)) >= 3
<1> DEFINE s == Snapshots[v]
<1>1. /\ s.queues \in Seq(DOMAIN s.nodes) /\ s.excluded \in Seq(DOMAIN s.nodes)
      /\ DOMAIN s.nodes \in SUBSET Queues /\ Nodes(v) \in SUBSET Machines
      /\ \A q \in DOMAIN s.nodes : s.nodes[q] \in Seq(Nodes(v))
      /\ \A n : JobsOn(v, n) \in Seq(Range(JobsOn(v, n)))
    BY ReadingShape
<1>2. /\ Root[1] = "partitions" /\ Every[1] = "all" /\ Excluded[1] = "excluded"
      /\ Every \in Levels /\ Excluded \in Levels /\ Known(v, Every) /\ Known(v, Excluded)
      /\ Depth(Root) = 1 /\ Depth(Every) = 2 /\ Depth(Excluded) = 2
    BY DEF Root, Every, Excluded, Levels, Known, Depth
<1>3. \A q \in DOMAIN s.nodes :
         <<"nodes", q>> \in Levels /\ Known(v, <<"nodes", q>>) /\ Depth(<<"nodes", q>>) = 3
    BY <1>1 DEF Levels, Known, Depth
<1>4. \A n \in Nodes(v) :
         <<"jobs", n>> \in Levels /\ Known(v, <<"jobs", n>>) /\ Depth(<<"jobs", n>>) = 4
    BY <1>1 DEF Levels, Known, Depth
<1>5. ASSUME NEW queues \in Seq(DOMAIN s.nodes), level[1] \in {"partitions", "all", "excluded"}
      PROVE  Listing(queues) \in Seq(Below(v, level)) /\ Len(Listing(queues)) = Len(queues)
    <2>1. Depth(level) < 3
        BY <1>5, KindDepths
    <2>2. \A q \in DOMAIN s.nodes : <<"nodes", q>> \in Below(v, level)
        BY <1>3, <2>1 DEF Below
    <2> HIDE DEF s
    <2>3. QED
        BY <1>5, <2>2 DEF Listing
<1>6. CASE level = Root
    <2>1. Rows(v, level) = <<Every, First, Excluded>> \o Listing(s.queues)
        <3>1. Rows(v, Root) = <<Every, First, Excluded>> \o Listing(Snapshots[v].queues)
            BY <1>2, ZenonT(30) DEF Rows
        <3>2. QED
            BY <1>6, <3>1
    <2>2. Every \in Below(v, level) /\ First \in Below(v, level) /\ Excluded \in Below(v, level)
        BY <1>2, <1>6 DEF Below
    <2>3. Listing(s.queues) \in Seq(Below(v, level))
        BY <1>1, <1>2, <1>5, <1>6
    <2> HIDE DEF s
    <2>4. QED
        BY <2>1, <2>2, <2>3
<1>7. CASE level = Every
    <2>1. Rows(v, level) = Listing(s.queues \o s.excluded)
        BY <1>2, <1>7 DEF Rows
    <2>2. s.queues \o s.excluded \in Seq(DOMAIN s.nodes)
        <3> HIDE DEF s
        <3>1. QED
            BY <1>1, ConcatProperties
    <2>3. QED
        BY <1>2, <1>5, <1>7, <2>1, <2>2
<1>8. CASE level = Excluded
    <2>1. Rows(v, level) = Listing(s.excluded)
        BY <1>2, <1>8 DEF Rows
    <2>2. QED
        BY <1>1, <1>2, <1>5, <1>8, <2>1
<1>9. CASE level[1] = "nodes"
    <2> DEFINE nodes == IF level[2] \in DOMAIN s.nodes THEN s.nodes[level[2]] ELSE <<>>
    <2>1. Rows(v, level) = [i \in DOMAIN nodes |-> <<"jobs", nodes[i]>>]
        BY <1>2, <1>9 DEF Rows
    <2>2. nodes \in Seq(Nodes(v))
        BY <1>1
    <2>3. \A n \in Nodes(v) : <<"jobs", n>> \in Below(v, level)
        <3>1. Depth(level) < 4
            BY <1>9, KindDepths
        <3>2. QED
            BY <1>4, <3>1 DEF Below
    <2> HIDE DEF nodes
    <2>4. QED
        BY <1>2, <1>9, <2>1, <2>2, <2>3
<1>10. CASE level[1] = "jobs"
    <2> DEFINE jobs == JobsOn(v, level[2])
    <2>1. Rows(v, level) = [i \in DOMAIN jobs |-> <<"job", level[2], jobs[i]>>]
        BY <1>2, <1>10 DEF Rows
    <2>2. jobs \in Seq(Range(jobs)) /\ level[2] \in Machines
        BY <1>1, <1>2, <1>10 DEF Levels
    <2>3. ASSUME NEW j \in Range(jobs) PROVE <<"job", level[2], j>> \in Below(v, level)
        <3>1. j \in Jobs
            BY <2>2, <2>3 DEF Jobs
        <3>2. <<"job", level[2], j>> \in Levels
            BY <2>2, <3>1 DEF Levels
        <3>3. QED
            BY <1>10, <3>2 DEF Below, Known, Depth
    <2> HIDE DEF jobs
    <2>4. QED
        BY <1>2, <1>10, <2>1, <2>2, <2>3
<1>11. CASE level[1] = "job"
    BY <1>2, <1>11 DEF Rows
<1>12. QED
    BY <1>6, <1>7, <1>8, <1>9, <1>10, <1>11, LevelKinds

\* How many rows there are to stand on.
LEMMA CountShape ==
    ASSUME NEW v \in DOMAIN Snapshots, NEW level \in Levels
    PROVE  /\ Count(v, level) \in Nat
           /\ level = Root => Count(v, level) >= 3
           /\ Stays(v, Root)
           /\ Stays(v, level) => Count(v, level) >= 1
           /\ Openable(v, level) => Count(v, level) = Len(Rows(v, level))
<1>1. Root \in Levels
    BY DEF Levels
<1>2. /\ Len(Rows(v, level)) \in Nat /\ Len(Rows(v, Root)) \in Nat
      /\ level = Root => Len(Rows(v, level)) >= 3
      /\ Len(Rows(v, Root)) >= 3
    BY <1>1, RowsShape
<1>3. Root[1] = "partitions"
    BY DEF Root
<1>4. Count(v, level) \in Nat /\ (level = Root => Count(v, level) >= 3)
      /\ Count(v, Root) \in Nat /\ Count(v, Root) >= 3
    BY <1>2, <1>3 DEF Count
<1>5. Stays(v, Root)
    <2>1. Count(v, Root) > 0
        BY <1>4
    <2>2. QED
        BY <1>3, <2>1, Zenon DEF Stays
<1>6. Stays(v, level) => Count(v, level) >= 1
    BY <1>4 DEF Stays
<1>7. Openable(v, level) => Count(v, level) = Len(Rows(v, level))
    BY DEF Openable, Count
<1>8. QED
    BY <1>4, <1>5, <1>6, <1>7

\* No stack is deeper than there are kinds.
LEMMA StackDepth ==
    ASSUME NEW v, NEW levels, Standing(v, levels)
    PROVE  Len(levels) \in 1 .. 5 /\ DOMAIN levels = 1 .. Len(levels) /\ Last(levels) = levels[Len(levels)]
<1>1. levels \in Seq(Levels) /\ levels # <<>>
    BY DEF Standing
<1>2. Len(levels) \in Nat \ {0} /\ DOMAIN levels = 1 .. Len(levels)
    BY <1>1
<1>3. \A d \in 1 .. Len(levels) : Depth(levels[d]) \in 1 .. 5
    BY <1>1, <1>2, LevelKinds
<1>4. \A d, e \in 1 .. Len(levels) : d < e => Depth(levels[d]) < Depth(levels[e])
    BY <1>2 DEF Standing
<1>5. ASSUME Len(levels) >= 6 PROVE FALSE
    <2>1. \A d \in 1 .. 6 : d \in 1 .. Len(levels)
        BY <1>2, <1>5
    <2>2. /\ Depth(levels[1]) \in 1 .. 5 /\ Depth(levels[1]) < Depth(levels[2])
          /\ Depth(levels[2]) \in 1 .. 5 /\ Depth(levels[2]) < Depth(levels[3])
          /\ Depth(levels[3]) \in 1 .. 5 /\ Depth(levels[3]) < Depth(levels[4])
          /\ Depth(levels[4]) \in 1 .. 5 /\ Depth(levels[4]) < Depth(levels[5])
          /\ Depth(levels[5]) \in 1 .. 5 /\ Depth(levels[5]) < Depth(levels[6])
          /\ Depth(levels[6]) \in 1 .. 5
        BY <1>3, <1>4, <2>1
    <2>3. QED
        BY <2>2
<1>6. QED
    BY <1>2, <1>5 DEF Last

\* The start of a stack is one.
LEMMA StackStarts ==
    ASSUME NEW v, NEW levels, Standing(v, levels), NEW d \in 1 .. Len(levels)
    PROVE  /\ Standing(v, SubSeq(levels, 1, d)) /\ Len(SubSeq(levels, 1, d)) = d
           /\ Last(SubSeq(levels, 1, d)) = levels[d] /\ levels[d] \in Levels
<1> DEFINE s == SubSeq(levels, 1, d)
<1>1. levels \in Seq(Levels) /\ Len(levels) \in 1 .. 5 /\ DOMAIN levels = 1 .. Len(levels)
    BY StackDepth DEF Standing
<1>2. s \in Seq(Levels) /\ Len(s) = d /\ \A i \in 1 .. d : s[i] = levels[i]
    BY <1>1
<1> HIDE DEF s
<1>3. DOMAIN s = 1 .. d /\ d \in Nat \ {0} /\ \A i \in 1 .. d : i \in DOMAIN levels
    BY <1>1, <1>2
<1>4. s # <<>>
    BY <1>2, <1>3
<1>5. Standing(v, s)
    BY <1>2, <1>3, <1>4 DEF Standing
<1>6. QED
    BY <1>1, <1>2, <1>3, <1>5 DEF s, Last

\* The levels that do not stay are popped, down to one that does: the overview does.
LEMMA SettledShape ==
    ASSUME NEW v \in DOMAIN Snapshots, NEW levels, Standing(v, levels)
    PROVE  LET kept == Settled(v, levels) IN
           /\ Standing(v, kept) /\ Stays(v, Last(kept)) /\ Last(kept) \in Levels
           /\ \E d \in 1 .. Len(levels) : kept = SubSeq(levels, 1, d) /\ Last(kept) = levels[d]
<1> DEFINE Is(d) == Stays(v, levels[d]) /\ \A e \in d + 1 .. Len(levels) : ~Stays(v, levels[e])
           depth == CHOOSE d \in DOMAIN levels : Is(d)
<1>1. Len(levels) \in 1 .. 5 /\ DOMAIN levels = 1 .. Len(levels)
    BY StackDepth
<1>2. Stays(v, levels[1])
    <2>1. levels[1] = Root /\ Root \in Levels
        BY DEF Standing, Levels
    <2>2. QED
        BY <2>1, CountShape
<1>3. \E d \in DOMAIN levels : Is(d)
    <2> DEFINE S(d) == Stays(v, levels[d])
    <2>1. S(1)
        BY <1>2
    <2> HIDE DEF S
    <2>2. \E d \in 1 .. Len(levels) : S(d) /\ \A e \in d + 1 .. Len(levels) : ~S(e)
        <3>1. CASE Len(levels) = 1
            BY <2>1, <3>1
        <3>2. CASE Len(levels) = 2
            BY <2>1, <3>2
        <3>3. CASE Len(levels) = 3
            BY <2>1, <3>3
        <3>4. CASE Len(levels) = 4
            BY <2>1, <3>4
        <3>5. CASE Len(levels) = 5
            BY <2>1, <3>5
        <3>6. QED
            BY <1>1, <3>1, <3>2, <3>3, <3>4, <3>5
    <2>3. QED
        BY <1>1, <2>2 DEF S
<1> HIDE DEF Is
<1>4. depth \in DOMAIN levels /\ Is(depth)
    BY <1>3
<1>5. Settled(v, levels) = SubSeq(levels, 1, depth)
    BY DEF Settled, Is
<1> HIDE DEF depth
<1>6. depth \in 1 .. Len(levels) /\ Stays(v, levels[depth])
    BY <1>1, <1>4 DEF Is
<1>7. QED
    BY <1>5, <1>6, StackStarts

\* Of two numbers.
LEMMA LeastOfTwo ==
    ASSUME NEW m \in Nat, NEW n \in Nat
    PROVE  Least({m, n}) \in {m, n} /\ Least({m, n}) <= m /\ Least({m, n}) <= n
<1>1. \E i \in {m, n} : \A j \in {m, n} : i <= j
    OBVIOUS
<1>2. QED
    BY <1>1 DEF Least

\* The entries that share a row stand side by side.
LEMMA RowShape ==
    ASSUME NEW v \in DOMAIN Snapshots, NEW level \in Levels, Count(v, level) >= 1,
           NEW row \in 1 .. RowOf(level, Count(v, level))
    PROVE  LET S == Siblings(v, level, row) IN
           /\ Least(S) \in 1 .. Count(v, level) /\ Greatest(S) \in 1 .. Count(v, level)
           /\ \A i \in S : Least(S) <= i /\ i <= Greatest(S) /\ i \in 1 .. Count(v, level)
<1> DEFINE n == Count(v, level)
           S == Siblings(v, level, row)
<1>1. n \in Nat /\ (level = Root => n >= 3)
    BY CountShape
<1>2. S = {i \in 1 .. n : RowOf(level, i) = row}
    BY DEF Siblings
<1>3. \A i : RowOf(level, i) = IF level # Root THEN i ELSE IF i <= 3 THEN 1 ELSE i - 2
    BY DEF RowOf
<1>4. row \in 1 .. RowOf(level, n)
    OBVIOUS
<1> HIDE DEF n, S
<1>5. PICK a \in 1 .. n, b \in 1 .. n : a <= b /\ S = a .. b
    <2>1. CASE level # Root
        <3>1. row \in 1 .. n
            BY <1>3, <1>4, <2>1
        <3>2. S = row .. row
            BY <1>1, <1>2, <1>3, <2>1, <3>1
        <3>3. QED
            BY <3>1, <3>2
    <2>2. CASE level = Root /\ row = 1
        <3>1. S = 1 .. 3
            BY <1>1, <1>2, <1>3, <2>2
        <3>2. QED
            BY <1>1, <2>2, <3>1
    <2>3. CASE level = Root /\ row # 1
        <3>1. row \in Nat /\ row >= 2 /\ row + 2 \in 1 .. n
            BY <1>1, <1>3, <1>4, <2>3
        <3>2. S = row + 2 .. row + 2
            BY <1>1, <1>2, <1>3, <2>3, <3>1
        <3>3. QED
            BY <3>1, <3>2
    <2>4. QED
        BY <2>1, <2>2, <2>3
<1>6. a \in S /\ b \in S /\ \A i \in S : a <= i /\ i <= b /\ i \in 1 .. n
    BY <1>1, <1>5
<1>7. Least(S) \in S /\ \A j \in S : Least(S) <= j
    BY <1>6 DEF Least
<1>8. Greatest(S) \in S /\ \A j \in S : j <= Greatest(S)
    BY <1>6 DEF Greatest
<1>9. QED
    BY <1>6, <1>7, <1>8 DEF n, S

\* Where the arrows lead is on the level.
LEMMA StepStays ==
    ASSUME NEW v \in DOMAIN Snapshots, NEW level \in Levels, NEW i \in 1 .. Count(v, level),
           NEW delta \in {-1, 1}
    PROVE  StepRow(v, level, i, delta) \in 1 .. Count(v, level)
<1> DEFINE n == Count(v, level)
           rows == RowOf(level, n)
           row == ((RowOf(level, i) + delta - 1 + rows) % rows) + 1
           mine == Siblings(v, level, RowOf(level, i))
           there == Siblings(v, level, row)
           column == i - Least(mine)
<1>1. n \in Nat /\ n >= 1 /\ i \in 1 .. n /\ (level = Root => n >= 3)
    BY CountShape
<1>2. rows \in Nat \ {0} /\ RowOf(level, i) \in 1 .. rows
    <2> HIDE DEF n
    <2>1. QED
        BY <1>1 DEF RowOf
<1>3. row \in 1 .. rows
    <2> DEFINE x == RowOf(level, i) + delta - 1 + rows
    <2>1. x \in Int
        BY <1>2
    <2> HIDE DEF x, rows
    <2>2. x % rows \in 0 .. rows - 1
        BY <1>2, <2>1
    <2>3. (x % rows) + 1 \in 1 .. rows
        BY <1>2, <2>2
    <2>4. QED
        BY <2>3 DEF x
<1>4. Least(mine) \in Nat /\ Least(mine) <= i
    <2>1. i \in mine
        BY <1>1 DEF Siblings
    <2>2. QED
        BY <1>1, <1>2, <2>1, RowShape
<1>5. Least(there) \in 1 .. n /\ Greatest(there) \in 1 .. n
    <2> HIDE DEF row
    <2>1. QED
        BY <1>1, <1>3, RowShape
<1>6. StepRow(v, level, i, delta) = Least({Least(there) + column, Greatest(there)})
    BY DEF StepRow
<1> HIDE DEF n, mine, there
<1>7. Least(there) + column \in Nat \ {0} /\ Greatest(there) \in Nat
    BY <1>1, <1>4, <1>5
<1>8. Least({Least(there) + column, Greatest(there)}) \in {Least(there) + column, Greatest(there)}
      /\ Least({Least(there) + column, Greatest(there)}) <= Greatest(there)
    BY <1>7, LeastOfTwo
<1>9. QED
    BY <1>1, <1>5, <1>6, <1>7, <1>8 DEF n

LEMMA RowOfShape ==
    ASSUME NEW v \in DOMAIN Snapshots, NEW level \in Levels, NEW i \in 1 .. Count(v, level)
    PROVE  /\ RowOf(level, i) \in 1 .. RowOf(level, Count(v, level))
           /\ RowOf(level, Count(v, level)) \in 1 .. RowOf(level, Count(v, level))
           /\ i \in Siblings(v, level, RowOf(level, i)) /\ Count(v, level) >= 1
<1> DEFINE n == Count(v, level)
<1>1. n \in Nat /\ n >= 1 /\ i \in 1 .. n /\ (level = Root => n >= 3)
    BY CountShape
<1>2. i \in Siblings(v, level, RowOf(level, i))
    BY <1>1 DEF Siblings
<1> HIDE DEF n
<1>3. RowOf(level, i) \in 1 .. RowOf(level, n) /\ RowOf(level, n) \in 1 .. RowOf(level, n)
    BY <1>1 DEF RowOf
<1>4. QED
    BY <1>1, <1>2, <1>3 DEF n

\* What is left of a stack over another reading is a stack.
LEMMA ResumedShape ==
    ASSUME NEW v, NEW u, NEW levels, Standing(u, levels)
    PROVE  Standing(v, Resumed(v, levels))
<1> DEFINE T == {level \in Range(levels) : Known(v, level)}
           K == {i \in DOMAIN levels : levels[i] \in T}
           s == Resumed(v, levels)
<1>1. /\ levels \in Seq(Levels) /\ DOMAIN levels = 1 .. Len(levels) /\ Len(levels) \in 1 .. 5
      /\ levels[1] = Root
    BY StackDepth DEF Standing
<1>2. \A i \in K : i \in DOMAIN levels /\ Known(v, levels[i])
    OBVIOUS
<1>3. 1 \in K
    <2>1. levels[1] \in Range(levels)
        BY <1>1 DEF Range
    <2>2. Known(v, Root)
        BY DEF Known, Root
    <2>3. QED
        BY <1>1, <2>1, <2>2
<1>4. s = [n \in 1 .. Cardinality(K) |-> levels[Ranked(K, n)]]
    BY DEF Resumed, Picked
<1> HIDE DEF K, s
<1>5. K \in SUBSET (1 .. Len(levels)) /\ Len(levels) \in Nat
    BY <1>1, <1>2
<1>6. /\ Cardinality(K) \in Nat /\ 1 \in 1 .. Cardinality(K) /\ Ranked(K, 1) = 1
      /\ \A n \in 1 .. Cardinality(K) : Ranked(K, n) \in K
      /\ \A n, m \in 1 .. Cardinality(K) : n < m => Ranked(K, n) < Ranked(K, m)
    BY <1>3, <1>5, RankedOrder
<1>7. s \in Seq(Levels) /\ DOMAIN s = 1 .. Cardinality(K)
    <2>1. \A n \in 1 .. Cardinality(K) : levels[Ranked(K, n)] \in Levels
        BY <1>1, <1>2, <1>6
    <2>2. QED
        BY <1>4, <1>6, <2>1
<1>8. s # <<>> /\ s[1] = Root
    BY <1>1, <1>4, <1>6, <1>7
<1>9. \A d, e \in DOMAIN s : d < e => Depth(s[d]) < Depth(s[e])
    <2>1. \A d, e \in DOMAIN levels : d < e => Depth(levels[d]) < Depth(levels[e])
        BY DEF Standing
    <2>2. QED
        BY <1>2, <1>4, <1>6, <1>7, <2>1
<1>10. \A d \in DOMAIN s : Known(v, s[d])
    BY <1>2, <1>4, <1>6, <1>7
<1>11. QED
    BY <1>7, <1>8, <1>9, <1>10 DEF Standing, s

\* What a row opens goes on top.
LEMMA PushShape ==
    ASSUME NEW v, NEW levels, Standing(v, levels),
           NEW target \in Levels, Known(v, target), Depth(Last(levels)) < Depth(target)
    PROVE  Standing(v, Append(levels, target))
<1> DEFINE s == Append(levels, target)
           n == Len(levels)
<1>1. levels \in Seq(Levels) /\ DOMAIN levels = 1 .. n /\ n \in 1 .. 5 /\ Last(levels) = levels[n]
    BY StackDepth DEF Standing
<1>2. /\ s \in Seq(Levels) /\ DOMAIN s = 1 .. n + 1 /\ s # <<>>
      /\ s[n + 1] = target /\ \A d \in 1 .. n : s[d] = levels[d]
    BY <1>1
<1> HIDE DEF s, n
<1>3. \A d \in 1 .. n : Depth(levels[d]) \in 1 .. 5 /\ Depth(levels[d]) <= Depth(levels[n])
    <2>1. \A d \in 1 .. n : Depth(levels[d]) \in 1 .. 5
        BY <1>1, LevelKinds
    <2>2. \A d, e \in 1 .. n : d < e => Depth(levels[d]) < Depth(levels[e])
        BY <1>1 DEF Standing
    <2>3. QED
        BY <1>1, <2>1, <2>2
<1>4. Depth(target) \in 1 .. 5
    BY LevelKinds
<1>5. \A d, e \in DOMAIN s : d < e => Depth(s[d]) < Depth(s[e])
    <2> SUFFICES ASSUME NEW d \in 1 .. n + 1, NEW e \in 1 .. n + 1, d < e
                 PROVE  Depth(s[d]) < Depth(s[e])
        BY <1>2
    <2>1. d \in 1 .. n /\ n \in Nat
        BY <1>1
    <2>2. CASE e \in 1 .. n
        <3>1. Depth(levels[d]) < Depth(levels[e])
            BY <1>1, <2>1, <2>2 DEF Standing
        <3>2. QED
            BY <1>2, <2>1, <2>2, <3>1
    <2>3. CASE e = n + 1
        BY <1>1, <1>2, <1>3, <1>4, <2>1, <2>3
    <2>4. QED
        BY <1>1, <2>2, <2>3
<1>6. s[1] = Root /\ \A d \in DOMAIN s : Known(v, s[d])
    BY <1>1, <1>2 DEF Standing
<1>7. QED
    BY <1>2, <1>5, <1>6 DEF Standing, s

\* Where a select starts.
LEMMA ShowsPlaced ==
    ASSUME NEW v \in DOMAIN Snapshots, NEW levels, NEW where, NEW old, NEW n,
           Standing(v, levels), \A level \in DOMAIN where : where[level] \in Nat \ {0},
           Show(v, levels, where, old, n),
           keyed' \in 0 .. MaxKeys
    PROVE  Placed'
<1> DEFINE kept == Settled(v, levels)
           top == Last(kept)
<1>1. Standing(v, kept) /\ Stays(v, top) /\ top \in Levels
    BY SettledShape
<1>2. /\ stack' = kept /\ snap' = v /\ cursors' = where /\ index' = At(v, top, where)
      /\ painted' = Len(Block(v, top)) /\ standing' = 0 /\ pc' = "browsing"
    BY DEF Show
<1>3. Top' = top
    BY <1>2 DEF Top
<1> HIDE DEF kept, top
<1>4. Count(v, top) \in Nat /\ Count(v, top) >= 1
    BY <1>1, CountShape
<1>5. At(v, top, where) \in 1 .. Count(v, top)
    <2>1. CASE top \in DOMAIN where
        <3> DEFINE w == where[top]
                   c == Count(v, top)
        <3>1. w \in Nat \ {0} /\ c \in Nat \ {0}
            BY <1>4, <2>1
        <3>2. At(v, top, where) = Least({w, c})
            BY <2>1 DEF At
        <3> HIDE DEF w, c
        <3>3. Least({w, c}) \in {w, c} /\ Least({w, c}) <= c
            BY <3>1, LeastOfTwo
        <3>4. Least({w, c}) \in 1 .. c
            BY <3>1, <3>3
        <3>5. QED
            BY <3>2, <3>4 DEF c
    <2>2. CASE top \notin DOMAIN where
        BY <1>4, <2>2 DEF At
    <2>3. QED
        BY <2>1, <2>2
<1>6. Len(Block(v, top)) \in Nat
    <2>1. v \in 1 .. Len(Snapshots)
        BY BrowseAssumption, LenProperties
    <2>2. QED
        BY <2>1, BlockLines, LenProperties
<1>7. Count(snap', Top') = Count(v, top)
    BY <1>2, <1>3
<1>8. Standing(v, stack') /\ snap' = v
    BY <1>1, <1>2
<1>9. QED
    BY <1>2, <1>3, <1>5, <1>6, <1>7, <1>8 DEF Placed

LEMMA StartsPlaced == Init => Placed
<1> SUFFICES ASSUME Init PROVE Placed
    OBVIOUS
<1>1. /\ snap = 1 /\ stack = <<Root>> /\ index = 1 /\ cursors = <<>> /\ pc = "browsing"
      /\ painted = Snapshots[1].height /\ standing = 0 /\ keyed = 0
    BY DEF Init
<1>2. 1 \in DOMAIN Snapshots /\ MaxKeys \in Nat
    BY BrowseAssumption, LenProperties
<1>3. Root \in Levels /\ Known(1, Root)
    BY DEF Levels, Known, Root
<1>4. Standing(1, <<Root>>)
    BY <1>3 DEF Standing
<1>5. Top = Root
    BY <1>1 DEF Top, Last
<1>6. Count(1, Root) \in Nat /\ Count(1, Root) >= 3 /\ Snapshots[1].height \in Nat
    BY <1>2, <1>3, CountShape, ReadingShape
<1>7. index \in 1 .. Count(snap, Top)
    BY <1>1, <1>5, <1>6
<1>8. QED
    BY <1>1, <1>2, <1>4, <1>6, <1>7 DEF Placed

\* A key that moves the cursor to a row of the level.
LEMMA MovesPlaced ==
    ASSUME Placed, Key, NEW i \in 1 .. Count(snap, Top), MoveTo(i)
    PROVE  Placed'
<1>1. /\ index' = i /\ UNCHANGED <<snap, stack, cursors, standing, pc, saved>>
      /\ painted' = Len(Block(snap, Top)) /\ pc = "browsing" /\ keyed < MaxKeys /\ keyed' = keyed + 1
    BY DEF MoveTo, Key
<1>2. Len(Block(snap, Top)) \in Nat
    <2>1. snap \in 1 .. Len(Snapshots)
        BY BrowseAssumption, LenProperties DEF Placed
    <2>2. QED
        BY <2>1, BlockLines, LenProperties
<1>3. keyed' \in 0 .. MaxKeys
    BY <1>1, BrowseAssumption DEF Placed
<1>4. Top' = Top
    BY <1>1 DEF Top
<1>5. QED
    BY <1>1, <1>2, <1>3, <1>4 DEF Placed

LEMMA BackPlaced ==
    ASSUME Placed, Key, Top # Root, Back
    PROVE  Placed'
<1>1. Standing(snap, stack) /\ snap \in DOMAIN Snapshots
    BY DEF Placed
<1>2. Len(stack) \in 1 .. 5 /\ Top = stack[Len(stack)] /\ stack[1] = Root
    BY <1>1, StackDepth DEF Top, Standing
<1>3. Len(stack) - 1 \in 1 .. Len(stack)
    BY <1>2
<1>4. Standing(snap, Front(stack))
    BY <1>1, <1>3, StackStarts DEF Front
<1>5. keyed' \in 0 .. MaxKeys
    BY BrowseAssumption DEF Placed, Key
<1>6. QED
    BY <1>1, <1>4, <1>5, ShowsPlaced DEF Back, Placed

\* The row under the cursor can go on top, unless it only moves the cursor.
LEMMA OpenShape ==
    ASSUME Placed, Openable(snap, Top)
    PROVE  LET target == Rows(snap, Top)[index] IN
           /\ index \in DOMAIN Rows(snap, Top) /\ target \in Below(snap, Top) /\ index \in Nat \ {0}
           /\ Top \in Levels /\ Standing(snap, IF target = First THEN stack ELSE Append(stack, target))
<1> DEFINE target == Rows(snap, Top)[index]
<1>1. Standing(snap, stack) /\ snap \in DOMAIN Snapshots /\ index \in 1 .. Count(snap, Top)
    BY DEF Placed
<1>2. Top \in Levels
    <2>1. Len(stack) \in 1 .. Len(stack)
        <3>1. Len(stack) \in 1 .. 5
            BY <1>1, StackDepth
        <3>2. QED
            BY <3>1
    <2>2. QED
        BY <1>1, <2>1, StackDepth, StackStarts DEF Top
<1>3. index \in DOMAIN Rows(snap, Top) /\ target \in Below(snap, Top) /\ index \in Nat \ {0}
    <2>1. Count(snap, Top) = Len(Rows(snap, Top)) /\ Count(snap, Top) \in Nat
        BY <1>1, <1>2, CountShape
    <2>2. Rows(snap, Top) \in Seq(Below(snap, Top))
        BY <1>1, <1>2, RowsShape
    <2>3. QED
        BY <1>1, <2>1, <2>2
<1> HIDE DEF target
<1>4. CASE target = First
    BY <1>1, <1>2, <1>3, <1>4 DEF target
<1>5. CASE target # First
    <2>1. target \in Levels /\ Known(snap, target) /\ Depth(Last(stack)) < Depth(target)
        BY <1>3, <1>5 DEF Below, Top
    <2>2. Standing(snap, Append(stack, target))
        BY <1>1, <2>1, PushShape
    <2>3. QED
        BY <1>2, <1>3, <1>5, <2>2 DEF target
<1>6. QED
    BY <1>4, <1>5

LEMMA OpenPlaced ==
    ASSUME Placed, Key, Openable(snap, Top), Open
    PROVE  Placed'
<1> DEFINE target == Rows(snap, Top)[index]
           row == IF target = First /\ Count(snap, Top) > 3 THEN 4 ELSE index
           left == [level \in DOMAIN cursors \cup {Top} |->
                       IF level = Top THEN row ELSE cursors[level]]
           levels == IF target = First THEN stack ELSE Append(stack, target)
<1>1. Show(snap, levels, left, Erased, 0)
    BY DEF Open
<1>2. /\ snap \in DOMAIN Snapshots /\ \A level \in DOMAIN cursors : cursors[level] \in Nat \ {0}
      /\ index \in Nat \ {0} /\ Standing(snap, levels)
    BY OpenShape DEF Placed
<1> HIDE DEF target
<1>3. row \in Nat \ {0}
    BY <1>2
<1> HIDE DEF row
<1>4. \A level \in DOMAIN left : left[level] \in Nat \ {0}
    BY <1>2, <1>3
<1>5. keyed' \in 0 .. MaxKeys
    BY BrowseAssumption DEF Placed, Key
<1> HIDE DEF levels, left
<1>6. QED
    BY <1>1, <1>2, <1>4, <1>5, ShowsPlaced

\* Every key, every reload and every reading that comes back.
LEMMA StepsPlaced == Placed /\ [Next]_vars => Placed'
<1> SUFFICES ASSUME Placed, [Next]_vars PROVE Placed'
    OBVIOUS
<1>1. /\ Standing(snap, stack) /\ snap \in DOMAIN Snapshots /\ index \in 1 .. Count(snap, Top)
      /\ Count(snap, Top) \in Nat /\ Top \in Levels
    <2>1. Standing(snap, stack) /\ snap \in DOMAIN Snapshots /\ index \in 1 .. Count(snap, Top)
        BY DEF Placed
    <2>2. Len(stack) \in 1 .. Len(stack)
        <3>1. Len(stack) \in 1 .. 5
            BY <2>1, StackDepth
        <3>2. QED
            BY <3>1
    <2>3. Top \in Levels
        BY <2>1, <2>2, StackDepth, StackStarts DEF Top
    <2>4. QED
        BY <2>1, <2>3, CountShape
<1>2. /\ Least(Here) \in 1 .. Count(snap, Top) /\ Greatest(Here) \in 1 .. Count(snap, Top)
      /\ Least(Here) <= index /\ index <= Greatest(Here)
    <2>1. /\ RowOf(Top, index) \in 1 .. RowOf(Top, Count(snap, Top))
          /\ index \in Siblings(snap, Top, RowOf(Top, index)) /\ Count(snap, Top) >= 1
        BY <1>1, RowOfShape
    <2>2. QED
        BY <1>1, <2>1, RowShape DEF Here
<1>3. ASSUME Key, NEW i \in 1 .. Count(snap, Top), MoveTo(i) PROVE Placed'
    BY <1>3, MovesPlaced
<1>4. ASSUME Key, Top # Root, Back PROVE Placed'
    BY <1>4, BackPlaced
<1>5. ASSUME Key, Openable(snap, Top), Open PROVE Placed'
    BY <1>5, OpenPlaced
<1>6. ASSUME Key, NEW rest, Ended(rest) PROVE Placed'
    <2>1. UNCHANGED <<snap, stack, index, cursors, painted, standing, saved>> /\ pc' = "ended"
        BY <1>6 DEF Ended, shown
    <2>2. keyed' \in 0 .. MaxKeys
        BY <1>6, BrowseAssumption DEF Placed, Key
    <2>3. Top' = Top
        BY <2>1 DEF Top
    <2>4. QED
        BY <2>1, <2>2, <2>3 DEF Placed
<1>7. CASE Up \/ Down
    <2>1. StepRow(snap, Top, index, -1) \in 1 .. Count(snap, Top)
          /\ StepRow(snap, Top, index, 1) \in 1 .. Count(snap, Top)
        BY <1>1, StepStays
    <2>2. QED
        BY <1>3, <1>7, <2>1 DEF Up, Down
<1>8. CASE ToTop
    <2>1. 1 \in 1 .. Count(snap, Top)
        BY <1>1
    <2>2. QED
        BY <1>3, <1>8, <2>1 DEF ToTop
<1>9. CASE Bottom
    <2> DEFINE i == Least(Siblings(snap, Top, RowOf(Top, Count(snap, Top))))
    <2>1. /\ RowOf(Top, Count(snap, Top)) \in 1 .. RowOf(Top, Count(snap, Top))
          /\ Count(snap, Top) >= 1
        BY <1>1, RowOfShape
    <2>2. i \in 1 .. Count(snap, Top)
        BY <1>1, <2>1, RowShape
    <2>3. Key /\ MoveTo(i)
        BY <1>9 DEF Bottom
    <2> HIDE DEF i
    <2>4. QED
        BY <1>3, <2>2, <2>3
<1>10. CASE Left
    <2>1. index > Least(Here) => index - 1 \in 1 .. Count(snap, Top)
        BY <1>1, <1>2
    <2>2. QED
        BY <1>1, <1>3, <1>4, <1>10, <2>1 DEF Left
<1>11. CASE Right
    <2>1. index < Greatest(Here) => index + 1 \in 1 .. Count(snap, Top)
        BY <1>1, <1>2
    <2>2. QED
        BY <1>1, <1>3, <1>5, <1>11, <2>1 DEF Right
<1>12. CASE Enter
    BY <1>1, <1>3, <1>5, <1>12 DEF Enter
<1>13. CASE Escape \/ Quit
    BY <1>4, <1>6, <1>13 DEF Escape, Quit
<1>14. CASE Reload
    <2>1. /\ UNCHANGED <<snap, stack, index, cursors, painted>> /\ pc' = "reloading"
          /\ standing' = painted /\ saved' = <<stack, cursors>> /\ snap < Len(Snapshots) /\ Key
        BY <1>14 DEF Reload, LeaveStanding, shown
    <2>2. keyed' \in 0 .. MaxKeys
        BY <2>1, BrowseAssumption DEF Placed, Key
    <2>3. Top' = Top
        BY <2>1 DEF Top
    <2>4. QED
        BY <2>1, <2>2, <2>3 DEF Placed
<1>15. CASE Resume
    <2>1. /\ pc = "reloading" /\ keyed' = keyed
          /\ Show(snap + 1, Resumed(snap + 1, saved[1]), saved[2], screen, Adopt)
        BY <1>15 DEF Resume
    <2>2. snap < Len(Snapshots) /\ saved[1] = stack /\ saved[2] = cursors
        BY <2>1 DEF Placed
    <2>3. snap + 1 \in DOMAIN Snapshots
        BY <1>1, <2>2, BrowseAssumption, LenProperties
    <2>4. Standing(snap + 1, Resumed(snap + 1, stack))
        BY <1>1, ResumedShape
    <2>5. keyed' \in 0 .. MaxKeys /\ \A level \in DOMAIN cursors : cursors[level] \in Nat \ {0}
        BY <2>1 DEF Placed
    <2>6. QED
        BY <2>1, <2>2, <2>3, <2>4, <2>5, ShowsPlaced
<1>16. CASE Rest \/ UNCHANGED vars
    <2>1. UNCHANGED <<snap, stack, index, cursors, painted, standing, pc, saved, keyed>> /\ Top' = Top
        BY <1>16 DEF Rest, vars, shown, lines, Top
    <2>2. QED
        BY <2>1 DEF Placed
<1>17. QED
    BY <1>7, <1>8, <1>9, <1>10, <1>11, <1>12, <1>13, <1>14, <1>15, <1>16 DEF Next

\* The stack is never deeper than the kinds of levels and starts at the overview, and
\* the cursor is on a row of the level it is in: wherever the keys led, and however
\* much shorter the lists of the reading are that a reload came back with.
THEOREM TypeCorrect == Spec => []TypeOK
<1>1. Placed => TypeOK
    <2> SUFFICES ASSUME Placed PROVE TypeOK
        OBVIOUS
    <2>1. Len(stack) \in 1 .. 5
        BY StackDepth DEF Placed
    <2>2. QED
        BY <2>1 DEF Placed, Standing, TypeOK
<1>2. QED
    BY <1>1, StartsPlaced, StepsPlaced, PTL DEF Spec

\* Whatever a reader may step out to is in the reading on the screen: a queue or a
\* node that a reload no longer found is dropped from the stack, with what is left of
\* it still a stack.
THEOREM WhatVanishedIsDropped == Spec => []NothingVanished
<1>1. Placed => NothingVanished
    BY DEF Placed, Standing, NothingVanished
<1>2. QED
    BY <1>1, StartsPlaced, StepsPlaced, PTL DEF Spec

-----------------------------------------------------------------------------
(* Where one comes out.                                                    *)

\* If a row may be listed at a level, the cursor kept for the level is where it was
\* opened.
Followed(level, row, where) ==
    (\E w \in DOMAIN Snapshots : row \in Range(Rows(w, level))) =>
        /\ level \in DOMAIN where
        /\ \E v \in DOMAIN Snapshots :
              /\ where[level] \in DOMAIN Rows(v, level) /\ Rows(v, level)[where[level]] = row
              /\ Stays(v, row)

Tracked(levels, where) ==
    \A d \in 1 .. Len(levels) - 1 : Followed(levels[d], levels[d + 1], where)

\* Rows are of the next kind.
LEMMA RowKinds ==
    ASSUME NEW v \in DOMAIN Snapshots, NEW level \in Levels, NEW row \in Levels,
           row \in Range(Rows(v, level))
    PROVE  /\ Depth(level) <= 2 => Depth(row) <= 3
           /\ Depth(level) = 3 => Depth(row) = 4
<1> DEFINE s == Snapshots[v]
<1>1. PICK i \in DOMAIN Rows(v, level) : row = Rows(v, level)[i]
    BY DEF Range
<1>2. /\ Root[1] = "partitions" /\ Every[1] = "all" /\ Excluded[1] = "excluded"
      /\ Depth(Root) = 1 /\ Depth(Every) = 2 /\ Depth(Excluded) = 2
      /\ Depth(row) \in 1 .. 5 /\ Depth(level) \in 1 .. 5 /\ row # First
    BY LevelKinds DEF Root, Every, Excluded, Depth
<1>3. ASSUME NEW queues, queues \in Seq(Range(queues)), row \in Range(Listing(queues)) PROVE Depth(row) = 3
    <2>1. row[1] = "nodes"
        BY <1>3 DEF Listing, Range
    <2>2. QED
        BY <2>1, KindDepths
<1>4. s.queues \in Seq(Range(s.queues)) /\ s.excluded \in Seq(Range(s.excluded))
    BY BrowseAssumption
<1>5. CASE level = Root
    <2>1. Rows(v, level) = <<Every, First, Excluded>> \o Listing(s.queues)
        <3>1. Rows(v, Root) = <<Every, First, Excluded>> \o Listing(Snapshots[v].queues)
            BY <1>2, ZenonT(30) DEF Rows
        <3>2. QED
            BY <1>5, <3>1
    <2> DEFINE q == s.queues
    <2>2. q \in Seq(Range(q))
        BY <1>4
    <2> HIDE DEF q, s
    <2>3. Listing(q) \in Seq({<<"nodes", x>> : x \in Range(q)})
        BY <2>2 DEF Listing
    <2>4. i \in {1, 2, 3} \/ Rows(v, level)[i] \in Range(Listing(q))
        BY <1>1, <2>1, <2>3 DEF Range, q
    <2>5. i \in {1, 2, 3} => Rows(v, level)[i] \in {Every, First, Excluded}
        BY <2>1, <2>3 DEF q
    <2>6. QED
        BY <1>1, <1>2, <1>3, <1>5, <2>2, <2>4, <2>5
<1>6. CASE level = Every \/ level = Excluded
    <2>1. Rows(v, level) \in {Listing(s.queues \o s.excluded), Listing(s.excluded)}
        BY <1>2, <1>6 DEF Rows
    <2>2. row[1] = "nodes"
        <3>1. ASSUME NEW queues, Rows(v, level) = Listing(queues) PROVE row[1] = "nodes"
            BY <1>1, <3>1 DEF Listing
        <3>2. QED
            BY <2>1, <3>1
    <2>3. QED
        BY <1>2, <1>6, <2>2, KindDepths
<1>7. CASE level[1] = "nodes"
    <2>1. row[1] = "jobs"
        BY <1>1, <1>2, <1>7 DEF Rows
    <2>2. QED
        BY <1>7, <2>1, KindDepths
<1>8. CASE level[1] \in {"jobs", "job"}
    BY <1>8, KindDepths
<1>9. QED
    BY <1>5, <1>6, <1>7, <1>8, LevelKinds

\* A level of a stack that keeps its row's place leads back to it.
LEMMA LandsOnRow ==
    ASSUME KeepTheirPlaces, NEW v \in DOMAIN Snapshots, NEW level \in Levels, NEW row \in Levels,
           NEW where, Followed(level, row, where), row \in Range(Rows(v, level))
    PROVE  Rows(v, level)[At(v, level, where)] = row
<1> DEFINE c == where[level]
           n == Len(Rows(v, level))
<1>1. Rows(v, level) \in Seq(Below(v, level))
    BY RowsShape
<1>2. PICK j \in 1 .. n : Rows(v, level)[j] = row
    BY <1>1 DEF Range
<1>3. level \in DOMAIN where
    BY DEF Followed
<1>4. PICK u \in DOMAIN Snapshots : c \in DOMAIN Rows(u, level) /\ Rows(u, level)[c] = row /\ Stays(u, row)
    BY DEF Followed
<1>5. DOMAIN Rows(v, level) = 1 .. n /\ n \in Nat
    BY <1>1
<1>6. c = j
    BY <1>2, <1>4, <1>5 DEF KeepTheirPlaces
<1>7. Count(v, level) = n
    <2>1. Rows(v, level) # <<>>
        BY <1>2
    <2>2. QED
        BY <2>1 DEF Count
<1>8. At(v, level, where) = Least({c, n})
    BY <1>3, <1>7 DEF At
<1> HIDE DEF c, n
<1>9. Least({c, n}) = c
    <2>1. c \in Nat /\ n \in Nat /\ c <= n
        BY <1>2, <1>5, <1>6
    <2>2. Least({c, n}) \in {c, n} /\ Least({c, n}) <= c /\ Least({c, n}) <= n
        BY <2>1, LeastOfTwo
    <2>3. QED
        BY <2>1, <2>2
<1>10. QED
    BY <1>2, <1>6, <1>8, <1>9

\* What a stack is tracked by tracks the start of it.
LEMMA StartTracked ==
    ASSUME NEW v, NEW levels, Standing(v, levels), NEW where, NEW d \in 1 .. Len(levels),
           \A e \in 1 .. d - 1 : Followed(levels[e], levels[e + 1], where)
    PROVE  Tracked(SubSeq(levels, 1, d), where)
<1>1. levels \in Seq(Levels) /\ Len(levels) \in 1 .. 5
    BY StackDepth DEF Standing
<1>2. Len(SubSeq(levels, 1, d)) = d /\ \A i \in 1 .. d : SubSeq(levels, 1, d)[i] = levels[i]
    BY <1>1
<1>3. \A e \in 1 .. d - 1 : e \in 1 .. d /\ e + 1 \in 1 .. d
    BY <1>1
<1>4. QED
    BY <1>2, <1>3 DEF Tracked

\* What is left of a stack over another reading is tracked as it was: a row is of the
\* kind next to its level, so that it is none where a level between has gone.
LEMMA ResumedTracked ==
    ASSUME NEW v, NEW u, NEW levels, Standing(u, levels), NEW where, Tracked(levels, where)
    PROVE  Tracked(Resumed(v, levels), where)
<1> DEFINE T == {level \in Range(levels) : Known(v, level)}
           K == {i \in DOMAIN levels : levels[i] \in T}
           s == Resumed(v, levels)
<1>1. levels \in Seq(Levels) /\ DOMAIN levels = 1 .. Len(levels) /\ Len(levels) \in 1 .. 5
    BY StackDepth DEF Standing
<1>2. \A i \in DOMAIN levels : i \in K <=> Known(v, levels[i])
    BY DEF Range
<1>3. s = [n \in 1 .. Cardinality(K) |-> levels[Ranked(K, n)]]
    BY DEF Resumed, Picked
<1>4. K \in SUBSET (1 .. Len(levels))
    BY <1>1
<1> HIDE DEF K, s
<1>5. /\ Cardinality(K) \in Nat
      /\ \A n \in 1 .. Cardinality(K) : Ranked(K, n) \in K
      /\ \A n, m \in 1 .. Cardinality(K) : n < m => Ranked(K, n) < Ranked(K, m)
      /\ \A i \in K : \E n \in 1 .. Cardinality(K) : Ranked(K, n) = i
    <2>1. Len(levels) \in Nat
        BY <1>1
    <2>2. QED
        BY <1>4, <2>1, RankedOrder
<1>6. Len(s) = Cardinality(K)
    BY <1>3, <1>5
<1> SUFFICES ASSUME NEW d \in 1 .. Cardinality(K) - 1 PROVE Followed(s[d], s[d + 1], where)
    BY <1>6 DEF Tracked, s
<1> DEFINE p == Ranked(K, d)
           q == Ranked(K, d + 1)
<1>7. /\ d \in 1 .. Cardinality(K) /\ d + 1 \in 1 .. Cardinality(K)
      /\ p \in K /\ q \in K /\ p < q /\ s[d] = levels[p] /\ s[d + 1] = levels[q]
    <2>1. d \in 1 .. Cardinality(K) /\ d + 1 \in 1 .. Cardinality(K) /\ d < d + 1
        BY <1>5
    <2>2. QED
        BY <1>3, <1>5, <2>1
<1>8. \A i \in K : ~(p < i /\ i < q)
    <2> SUFFICES ASSUME NEW i \in K, p < i, i < q PROVE FALSE
        OBVIOUS
    <2>1. PICK n \in 1 .. Cardinality(K) : Ranked(K, n) = i
        BY <1>5
    <2>2. p \in Nat /\ q \in Nat /\ i \in Nat
        <3>1. \A k \in K : k \in Nat
            BY <1>1, <1>4
        <3> HIDE DEF p, q
        <3>2. QED
            BY <1>7, <3>1
    <2> HIDE DEF p, q
    <2>3. ~(n < d) /\ n # d
        BY <1>5, <1>7, <2>1, <2>2 DEF p
    <2>4. ~(d + 1 < n) /\ n # d + 1
        BY <1>5, <1>7, <2>1, <2>2 DEF q
    <2>5. QED
        BY <1>5, <2>3, <2>4
<1> HIDE DEF p, q
<1>9. p \in 1 .. Len(levels) /\ q \in 1 .. Len(levels) /\ p < q
    BY <1>4, <1>7
<1>10. CASE q = p + 1
    <2>1. p \in 1 .. Len(levels) - 1
        BY <1>1, <1>9, <1>10
    <2>2. QED
        BY <1>7, <1>10, <2>1 DEF Tracked
<1>11. CASE q # p + 1
    <2> DEFINE m == p + 1
    <2>1. m \in 1 .. Len(levels) /\ p < m /\ m < q
        BY <1>1, <1>9, <1>11
    <2>2. m \notin K
        BY <1>8, <2>1
    <2> HIDE DEF m
    <2>3. levels[m] \in Levels /\ levels[p] \in Levels /\ levels[q] \in Levels
        BY <1>1, <1>9, <2>1
    <2>4. levels[m][1] \in {"nodes", "jobs"}
        BY <1>1, <1>2, <2>1, <2>2 DEF Known
    <2>5. Depth(levels[m]) \in {3, 4} /\ Depth(levels[p]) \in 1 .. 5 /\ Depth(levels[q]) \in 1 .. 5
        BY <2>3, <2>4, KindDepths, LevelKinds
    <2>6. Depth(levels[p]) < Depth(levels[m]) /\ Depth(levels[m]) < Depth(levels[q])
        BY <1>1, <1>9, <2>1 DEF Standing
    <2>7. \A w \in DOMAIN Snapshots : levels[q] \notin Range(Rows(w, levels[p]))
        <3> SUFFICES ASSUME NEW w \in DOMAIN Snapshots, levels[q] \in Range(Rows(w, levels[p]))
                     PROVE  FALSE
            OBVIOUS
        <3>1. /\ Depth(levels[p]) <= 2 => Depth(levels[q]) <= 3
              /\ Depth(levels[p]) = 3 => Depth(levels[q]) = 4
            BY <2>3, RowKinds
        <3>2. QED
            BY <2>5, <2>6, <3>1
    <2>8. QED
        BY <1>7, <2>7 DEF Followed
<1>12. QED
    BY <1>10, <1>11

\* Where a select starts it has what the start of its stack was opened from; that is
\* asked of the last level only if it stays.
LEMMA ShowsTracked ==
    ASSUME NEW v \in DOMAIN Snapshots, NEW levels, NEW where, NEW old, NEW n,
           Standing(v, levels), Show(v, levels, where, old, n),
           \A e \in 1 .. Len(levels) - 1 :
               (e + 1 = Len(levels) => Stays(v, levels[e + 1])) =>
                   Followed(levels[e], levels[e + 1], where)
    PROVE  Tracked(stack', cursors')
<1>1. stack' = Settled(v, levels) /\ cursors' = where
    BY DEF Show
<1>2. PICK d \in 1 .. Len(levels) :
          stack' = SubSeq(levels, 1, d) /\ Stays(v, levels[d])
    BY <1>1, SettledShape
<1>3. \A e \in 1 .. d - 1 : Followed(levels[e], levels[e + 1], where)
    <2> SUFFICES ASSUME NEW e \in 1 .. d - 1 PROVE Followed(levels[e], levels[e + 1], where)
        OBVIOUS
    <2>1. Len(levels) \in 1 .. 5
        BY StackDepth
    <2>2. e \in 1 .. Len(levels) - 1 /\ (e + 1 = Len(levels) => e + 1 = d)
        BY <2>1
    <2>3. QED
        BY <1>2, <2>2
<1>4. QED
    BY <1>1, <1>2, <1>3, StartTracked

\* Stepping out of levels the way they were opened leads to the row of the first of
\* them.
LEMMA ShowsRow ==
    ASSUME KeepTheirPlaces, Placed, NEW levels, NEW where, NEW old, NEW n,
           Standing(snap, levels), Show(snap, levels, where, old, n), Tracked(stack, where),
           \A d \in 1 .. Len(levels) : d \in 1 .. Len(stack) => levels[d] = stack[d],
           Len(stack') < Len(stack),
           stack[Len(stack') + 1] \in Range(Rows(snap, Last(stack')))
    PROVE  Rows(snap, Last(stack'))[index'] = stack[Len(stack') + 1]
<1>1. /\ stack' = Settled(snap, levels) /\ index' = At(snap, Last(Settled(snap, levels)), where)
      /\ snap \in DOMAIN Snapshots /\ Standing(snap, stack)
    BY DEF Show, Placed
<1>2. PICK d \in 1 .. Len(levels) : stack' = SubSeq(levels, 1, d) /\ Last(stack') = levels[d]
    BY <1>1, SettledShape
<1>3. Len(levels) \in 1 .. 5 /\ Len(stack) \in 1 .. 5
    BY <1>1, StackDepth
<1>4. Len(stack') = d
    BY <1>2, StackStarts
<1>5. d \in 1 .. Len(stack) - 1 /\ d \in 1 .. Len(stack) /\ d + 1 \in 1 .. Len(stack)
    BY <1>3, <1>4
<1>6. Last(stack') = stack[d] /\ stack[d] \in Levels /\ stack[d + 1] \in Levels
    BY <1>1, <1>2, <1>5, StackStarts
<1>7. Followed(stack[d], stack[d + 1], where)
    BY <1>5 DEF Tracked
<1>8. QED
    BY <1>1, <1>4, <1>6, <1>7, LandsOnRow

\* Opening a row keeps what the levels below it were opened from.
LEMMA OpenKeeps ==
    ASSUME Placed, Tracked(stack, cursors), NEW row
    PROVE  Tracked(stack, [level \in DOMAIN cursors \cup {Top} |->
                              IF level = Top THEN row ELSE cursors[level]])
<1> DEFINE left == [level \in DOMAIN cursors \cup {Top} |->
                       IF level = Top THEN row ELSE cursors[level]]
<1>1. Standing(snap, stack)
    BY DEF Placed
<1>2. Len(stack) \in 1 .. 5 /\ Top = stack[Len(stack)] /\ DOMAIN stack = 1 .. Len(stack)
    BY <1>1, StackDepth DEF Top
<1> SUFFICES ASSUME NEW d \in 1 .. Len(stack) - 1 PROVE Followed(stack[d], stack[d + 1], left)
    BY DEF Tracked
<1>3. stack[d] # Top
    <2>1. d \in 1 .. Len(stack) /\ Len(stack) \in 1 .. Len(stack) /\ d < Len(stack)
        BY <1>2
    <2>2. Depth(stack[d]) < Depth(Top) /\ Depth(Top) \in 1 .. 5
        <3>1. Top \in Levels
            BY <1>1, <1>2, <2>1, StackStarts
        <3>2. QED
            BY <1>1, <1>2, <2>1, <3>1, LevelKinds DEF Standing
    <2>3. QED
        BY <2>2
<1>4. stack[d] \in DOMAIN cursors => stack[d] \in DOMAIN left /\ left[stack[d]] = cursors[stack[d]]
    BY <1>3
<1> HIDE DEF left
<1>5. Followed(stack[d], stack[d + 1], cursors)
    BY DEF Tracked
<1>6. QED
    BY <1>4, <1>5 DEF Followed

\* What the way to every level was, and where it leads back to.
Follows ==
    /\ Tracked(stack, cursors)'
    /\ pc = "browsing" /\ pc' = "browsing" /\ Len(stack') < Len(stack) =>
          LET left == stack[Len(stack') + 1]
              rows == Rows(snap, Last(stack'))
          IN  left \in Range(rows) => rows[index'] = left

LEMMA BackFollows ==
    ASSUME KeepTheirPlaces, Placed, Tracked(stack, cursors), Top # Root, Back
    PROVE  Follows
<1>1. Standing(snap, stack) /\ snap \in DOMAIN Snapshots
    BY DEF Placed
<1>2. Len(stack) \in 1 .. 5 /\ Top = stack[Len(stack)] /\ stack[1] = Root /\ stack \in Seq(Levels)
    BY <1>1, StackDepth DEF Top, Standing
<1>3. Len(stack) - 1 \in 1 .. Len(stack)
    BY <1>2
<1>4. /\ Standing(snap, Front(stack)) /\ Len(Front(stack)) = Len(stack) - 1
      /\ \A d \in 1 .. Len(stack) - 1 : Front(stack)[d] = stack[d]
    BY <1>1, <1>2, <1>3, StackStarts DEF Front
<1>5. Show(snap, Front(stack), cursors, Erased, 0)
    BY DEF Back
<1>6. Tracked(stack', cursors')
    <2>1. \A e \in 1 .. Len(Front(stack)) - 1 : Followed(Front(stack)[e], Front(stack)[e + 1], cursors)
        <3> SUFFICES ASSUME NEW e \in 1 .. Len(stack) - 2
                     PROVE  Followed(Front(stack)[e], Front(stack)[e + 1], cursors)
            BY <1>2, <1>4
        <3>1. e \in 1 .. Len(stack) - 1 /\ e + 1 \in 1 .. Len(stack) - 1
            BY <1>2
        <3>2. QED
            BY <1>4, <3>1 DEF Tracked
    <2>2. QED
        BY <1>1, <1>4, <1>5, <2>1, ShowsTracked
<1>7. ASSUME Len(stack') < Len(stack), stack[Len(stack') + 1] \in Range(Rows(snap, Last(stack')))
      PROVE  Rows(snap, Last(stack'))[index'] = stack[Len(stack') + 1]
    BY <1>4, <1>5, <1>7, ShowsRow
<1>8. QED
    BY <1>6, <1>7 DEF Follows

LEMMA OpenFollows ==
    ASSUME KeepTheirPlaces, Placed, Tracked(stack, cursors), Openable(snap, Top), Open
    PROVE  Follows
<1> DEFINE target == Rows(snap, Top)[index]
           row == IF target = First /\ Count(snap, Top) > 3 THEN 4 ELSE index
           left == [level \in DOMAIN cursors \cup {Top} |->
                       IF level = Top THEN row ELSE cursors[level]]
           levels == IF target = First THEN stack ELSE Append(stack, target)
<1>1. Show(snap, levels, left, Erased, 0)
    BY DEF Open
<1>2. Standing(snap, levels) /\ Standing(snap, stack) /\ snap \in DOMAIN Snapshots
    BY OpenShape DEF Placed
<1>3. Tracked(stack, left)
    <2> HIDE DEF row
    <2>1. QED
        BY OpenKeeps
<1>4. Len(stack) \in 1 .. 5 /\ Top = stack[Len(stack)] /\ stack \in Seq(Levels)
    BY <1>2, StackDepth DEF Top, Standing
<1>5. ASSUME target # First, Stays(snap, target) PROVE Followed(Top, target, left)
    <2>1. Top \in DOMAIN left /\ left[Top] = index
        BY <1>5
    <2>2. index \in DOMAIN Rows(snap, Top)
        BY OpenShape
    <2> HIDE DEF left
    <2>3. QED
        BY <1>2, <1>5, <2>1, <2>2 DEF Followed
<1> HIDE DEF target, left
<1>6. /\ Len(levels) \in {Len(stack), Len(stack) + 1} /\ \A d \in 1 .. Len(stack) : levels[d] = stack[d]
      /\ Len(levels) = Len(stack) + 1 => target # First /\ levels[Len(stack) + 1] = target
    <2>1. CASE target = First
        BY <1>4, <2>1
    <2>2. CASE target # First
        BY <1>4, <2>2
    <2>3. QED
        BY <2>1, <2>2
<1> HIDE DEF levels
<1>7. \A e \in 1 .. Len(levels) - 1 :
          (e + 1 = Len(levels) => Stays(snap, levels[e + 1])) => Followed(levels[e], levels[e + 1], left)
    <2> SUFFICES ASSUME NEW e \in 1 .. Len(levels) - 1, e + 1 = Len(levels) => Stays(snap, levels[e + 1])
                 PROVE  Followed(levels[e], levels[e + 1], left)
        OBVIOUS
    <2>1. CASE e \in 1 .. Len(stack) - 1
        <3>1. e \in 1 .. Len(stack) /\ e + 1 \in 1 .. Len(stack)
            BY <1>4, <2>1
        <3>2. QED
            BY <1>3, <1>6, <2>1, <3>1 DEF Tracked
    <2>2. CASE e \notin 1 .. Len(stack) - 1
        <3>1. e = Len(stack) /\ e + 1 = Len(levels) /\ Len(levels) = Len(stack) + 1
            BY <1>4, <1>6, <2>2
        <3>2. levels[e] = Top /\ levels[e + 1] = target /\ target # First /\ Stays(snap, target)
            BY <1>4, <1>6, <3>1
        <3>3. QED
            BY <1>5, <3>2
    <2>3. QED
        BY <2>1, <2>2
<1>8. Tracked(stack', cursors')
    BY <1>1, <1>2, <1>7, ShowsTracked
<1>9. ASSUME Len(stack') < Len(stack), stack[Len(stack') + 1] \in Range(Rows(snap, Last(stack')))
      PROVE  Rows(snap, Last(stack'))[index'] = stack[Len(stack') + 1]
    BY <1>1, <1>2, <1>3, <1>6, <1>9, ShowsRow
<1>10. QED
    BY <1>8, <1>9 DEF Follows

LEMMA StepsFollow == KeepTheirPlaces /\ Placed /\ Tracked(stack, cursors) /\ [Next]_vars => Follows
<1> SUFFICES ASSUME KeepTheirPlaces, Placed, Tracked(stack, cursors), [Next]_vars PROVE Follows
    OBVIOUS
<1>1. Standing(snap, stack) /\ Len(stack) \in 1 .. 5
    BY StackDepth DEF Placed
<1>2. ASSUME UNCHANGED <<stack, cursors>> PROVE Follows
    BY <1>1, <1>2 DEF Follows
<1>3. ASSUME NEW i, MoveTo(i) PROVE Follows
    BY <1>2, <1>3 DEF MoveTo
<1>4. ASSUME NEW rest, Ended(rest) PROVE Follows
    BY <1>2, <1>4 DEF Ended, shown
<1>5. CASE Up \/ Down \/ ToTop \/ Bottom
    BY <1>3, <1>5 DEF Up, Down, ToTop, Bottom
<1>6. CASE Left
    BY <1>3, <1>6, BackFollows DEF Left
<1>7. CASE Right
    BY <1>3, <1>7, OpenFollows DEF Right
<1>8. CASE Enter
    BY <1>3, <1>8, OpenFollows DEF Enter
<1>9. CASE Escape \/ Quit
    BY <1>4, <1>9, BackFollows DEF Escape, Quit
<1>10. CASE Reload
    BY <1>2, <1>10 DEF Reload, shown
<1>11. CASE Resume
    <2>1. /\ pc = "reloading"
          /\ Show(snap + 1, Resumed(snap + 1, saved[1]), saved[2], screen, Adopt)
        BY <1>11 DEF Resume
    <2>2. snap < Len(Snapshots) /\ saved[1] = stack /\ saved[2] = cursors /\ snap \in DOMAIN Snapshots
        BY <2>1 DEF Placed
    <2>3. snap + 1 \in DOMAIN Snapshots
        BY <2>2, BrowseAssumption, LenProperties
    <2> DEFINE levels == Resumed(snap + 1, stack)
    <2>4. Standing(snap + 1, levels) /\ Tracked(levels, cursors)
        BY <1>1, ResumedShape, ResumedTracked
    <2>5. Show(snap + 1, levels, cursors, screen, Adopt)
        BY <2>1, <2>2
    <2> HIDE DEF levels
    <2>6. Tracked(stack', cursors')
        BY <2>3, <2>4, <2>5, ShowsTracked DEF Tracked
    <2>7. QED
        BY <2>1, <2>6 DEF Follows
<1>12. CASE Rest \/ UNCHANGED vars
    BY <1>2, <1>12 DEF Rest, vars, shown
<1>13. QED
    BY <1>5, <1>6, <1>7, <1>8, <1>9, <1>10, <1>11, <1>12 DEF Next

\* Stepping out lands on the row one came from, through any reloads and with any
\* levels dropped by them, wherever that row is still listed: the cursor a level was
\* left at is where the row was listed when it was opened.
THEOREM OutLandsOnItsRow == ASSUME KeepTheirPlaces PROVE Spec => StepsOutToItsRow
<1>1. Init => Tracked(stack, cursors)
    <2> SUFFICES ASSUME Init PROVE Tracked(stack, cursors)
        OBVIOUS
    <2>1. stack = <<Root>>
        BY DEF Init
    <2>2. QED
        BY <2>1 DEF Tracked
<1>2. Placed /\ Tracked(stack, cursors) /\ [Next]_vars => Placed' /\ Tracked(stack, cursors)'
    BY StepsPlaced, StepsFollow DEF Follows
<1>3. Placed /\ Tracked(stack, cursors) /\ [Next]_vars =>
          [pc = "browsing" /\ pc' = "browsing" /\ Len(stack') < Len(stack) =>
              LET left == stack[Len(stack') + 1]
                  rows == Rows(snap, Last(stack'))
              IN  left \in Range(rows) => rows[index'] = left]_vars
    BY StepsFollow DEF Follows
<1>4. QED
    BY <1>1, <1>2, <1>3, StartsPlaced, PTL DEF Spec, StepsOutToItsRow
=============================================================================
