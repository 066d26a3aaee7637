------------------------------- MODULE Hostlist -------------------------------
(***************************************************************************)
(* Bracket notation for sets of nodes (hostlist.py): what a list of groups *)
(* such as  cn-[0001-0003,7],gn[1-4]  expands to, and how names collapse   *)
(* into one.                                                               *)
(*                                                                         *)
(* A text is a sequence of tokens: brackets, commas, dashes, words, and    *)
(* runs of digits with their value and the width they are written in.  A   *)
(* name is a text without brackets and commas.  Spaces are left out.       *)
(***************************************************************************)
EXTENDS Integers, Sequences, SequencesExt

CONSTANT MaxExpansion \* the most names an expression may come to

Open == <<"[">>
Close == <<"]">>
Comma == <<",">>
Dash == <<"-">>
Word(w) == <<"word", w>>
Digits(value, width) == <<"digits", value, width>>

IsDigits(t) == t[1] = "digits"
Lesser(a, b) == IF a < b THEN a ELSE b

\* A run of digits never stands beside another: two are read as one.
Glue(a, b) ==
    IF a # <<>> /\ b # <<>> /\ IsDigits(Last(a)) /\ IsDigits(Head(b))
    THEN Front(a) \o <<Digits(Last(a)[2] * 10 ^ Head(b)[3] + Head(b)[2], Last(a)[3] + Head(b)[3])>> \o Tail(b)
    ELSE a \o b

\* The width a number is padded to, which is never less than it needs.
Width(value) == CHOOSE w \in 1 .. 9 : value < 10 ^ w /\ (w = 1 \/ value >= 10 ^ (w - 1))
Padded(value, width) == Digits(value, IF Width(value) > width THEN Width(value) ELSE width)

-----------------------------------------------------------------------------
(* Splitting.                                                              *)

\* The pieces between commas; an empty piece is none.
SplitCommas(text) ==
    LET step(s, t) == IF t = Comma THEN [current |-> <<>>, groups |-> Append(s.groups, s.current)]
                      ELSE [s EXCEPT !.current = Append(@, t)]
        all == FoldLeft(step, [current |-> <<>>, groups |-> <<>>], text)
    IN  SelectSeq(Append(all.groups, all.current), LAMBDA g : g # <<>>)

\* Seeded bug: a comma is a comma, inside brackets too.
SplitGroupsNaive(text) == SplitCommas(text)

\* The pieces between the commas that stand outside brackets.  A bracket that
\* closes nothing is tolerated.
SplitGroups(text) ==
    LET step(s, t) ==
            IF t = Comma /\ s.depth = 0
            THEN [depth |-> 0, current |-> <<>>, groups |-> Append(s.groups, s.current)]
            ELSE [s EXCEPT !.current = Append(@, t),
                           !.depth = IF t = Open THEN @ + 1
                                     ELSE IF t = Close /\ @ > 0 THEN @ - 1 ELSE @]
        all == FoldLeft(step, [depth |-> 0, current |-> <<>>, groups |-> <<>>], text)
    IN  SelectSeq(Append(all.groups, all.current), LAMBDA g : g # <<>>)

-----------------------------------------------------------------------------
(* Expanding.                                                              *)

\* piece.partition("-"), where both sides are numbers.
IsRange(piece) == Len(piece) = 3 /\ IsDigits(piece[1]) /\ piece[2] = Dash /\ IsDigits(piece[3])

\* Seeded bug: a range that runs down is padded like the end written first.
ExpandRangeAsWritten(piece, room) ==
    LET lo == Lesser(piece[1][2], piece[3][2])
        hi == piece[1][2] + piece[3][2] - lo
    IN  [i \in 1 .. (Lesser(hi, lo + room - 1) - lo + 1) |-> <<Padded(lo + i - 1, piece[1][3])>>]

\* The numbers of a range, padded like its lower end, whichever was written
\* first; no more of them than there is room for.
ExpandRange(piece, room) ==
    LET lo == IF piece[3][2] < piece[1][2] THEN piece[3] ELSE piece[1]
        hi == IF piece[3][2] < piece[1][2] THEN piece[1] ELSE piece[3]
    IN  [i \in 1 .. (Lesser(hi[2], lo[2] + room - 1) - lo[2] + 1) |-> <<Padded(lo[2] + i - 1, lo[3])>>]

\* The inside of a pair of brackets, up to the range there is no room for.
ExpandRangeBody(body) ==
    LET step(s, piece) ==
            IF s.full THEN s
            ELSE IF ~IsRange(piece) THEN [s EXCEPT !.out = Append(@, piece)]
            ELSE IF Len(s.out) >= MaxExpansion THEN [s EXCEPT !.full = TRUE]
            ELSE [s EXCEPT !.out = @ \o ExpandRange(piece, MaxExpansion - Len(@))]
    IN  FoldLeft(step, [out |-> <<>>, full |-> FALSE], SplitCommas(body)).out

\* Literal text and brackets, in turn, each with what it may stand for; a bracket
\* that is never closed is literal.
Sections(group) ==
    LET literal(s) == IF s.text = <<>> THEN s.parts ELSE Append(s.parts, <<s.text>>)
        step(s, t) ==
            IF ~s.inside /\ t = Open THEN [s EXCEPT !.inside = TRUE]
            ELSE IF ~s.inside THEN [s EXCEPT !.text = Append(@, t)]
            ELSE IF t # Close THEN [s EXCEPT !.body = Append(@, t)]
            ELSE [parts |-> Append(literal(s), ExpandRangeBody(s.body)),
                  text |-> <<>>, body |-> <<>>, inside |-> FALSE]
        all == FoldLeft(step, [parts |-> <<>>, text |-> <<>>, body |-> <<>>, inside |-> FALSE], group)
    IN  IF all.inside THEN Append(all.parts, <<all.text \o <<Open>> \o all.body>>) ELSE literal(all)

Cut(s) == SubSeq(s, 1, Lesser(Len(s), MaxExpansion))

\* The product of the sections, cut while it is made.
ExpandGroup(group) ==
    FoldLeft(LAMBDA names, section :
                 Cut(FlattenSeq([i \in DOMAIN names |-> [j \in DOMAIN section |-> Glue(names[i], section[j])]])),
             << <<>> >>, Sections(group))

\* The names of a text, in order.
Expand(text) ==
    IF ~Contains(text, Open) THEN Cut(SplitCommas(text))
    ELSE Cut(FoldLeft(LAMBDA names, group :
                          IF Len(names) >= MaxExpansion THEN names ELSE names \o ExpandGroup(group),
                      <<>>, SplitGroups(text)))

-----------------------------------------------------------------------------
(* Collapsing.                                                             *)

Numbered(name) == name # <<>> /\ IsDigits(Last(name))
Bucket(name) == <<Front(name), Last(name)[3]>>

\* Each of a sequence, where it first stands.
Firsts(s) == FoldLeft(LAMBDA seen, x : IF Contains(seen, x) THEN seen ELSE Append(seen, x), <<>>, s)

\* The ends of the runs of consecutive numbers, in order.
Runs(nums) ==
    LET ordered(ends) == SetToSortSeq(ends, LAMBDA a, b : a < b)
        starts == ordered({n \in nums : n - 1 \notin nums})
        stops == ordered({n \in nums : n + 1 \notin nums})
    IN  [i \in DOMAIN starts |-> <<starts[i], stops[i]>>]

Run(ends, width) ==
    IF ends[1] = ends[2] THEN <<Padded(ends[1], width)>>
    ELSE <<Padded(ends[1], width), Dash, Padded(ends[2], width)>>

Joined(parts, separator) ==
    FoldLeft(LAMBDA line, part : IF line = <<>> THEN part ELSE line \o <<separator>> \o part, <<>>, parts)

\* The numbers of one prefix and one width: a single one needs no brackets.
CollapseBucket(bucket, nums) ==
    LET runs == Runs(nums)
        written == [i \in DOMAIN runs |-> Run(runs[i], bucket[2])]
    IN  IF Len(runs) = 1 /\ runs[1][1] = runs[1][2] THEN bucket[1] \o written[1]
        ELSE bucket[1] \o <<Open>> \o Joined(written, Comma) \o <<Close>>

\* Names without a number first, then the buckets as they were first seen.
Collapse(names) ==
    LET numbered == SelectSeq(names, Numbered)
        order == Firsts([i \in DOMAIN numbered |-> Bucket(numbered[i])])
        nums(b) == {Last(numbered[i])[2] : i \in {j \in DOMAIN numbered : Bucket(numbered[j]) = b}}
    IN  Joined(Firsts(SelectSeq(names, LAMBDA n : ~Numbered(n)))
                   \o [i \in DOMAIN order |-> CollapseBucket(order[i], nums(order[i]))], Comma)

-----------------------------------------------------------------------------
(* What the notation means to the scheduler it is from.  A list is a        *)
(* sequence of groups, a group of sections, a section literal text or the   *)
(* ends of ranges as they are written.                                      *)

Literal(text) == [text |-> text, ranges |-> <<>>]
Ranges(ranges) == [text |-> <<>>, ranges |-> ranges]

Denoted(section) ==
    IF section.ranges = <<>> THEN {section.text}
    ELSE UNION {LET a == section.ranges[i][1] b == section.ranges[i][2] IN
                {<<Padded(v, IF a[2] <= b[2] THEN a[3] ELSE b[3])>> :
                     v \in Lesser(a[2], b[2]) .. (IF a[2] <= b[2] THEN b[2] ELSE a[2])} :
                i \in DOMAIN section.ranges}

Names(list) ==
    UNION {FoldLeft(LAMBDA names, section : {Glue(n, s) : n \in names, s \in Denoted(section)},
                    {<<>>}, list[i]) : i \in DOMAIN list}

\* How it is written.
WrittenRange(r) == IF r[1] = r[2] THEN <<r[1]>> ELSE <<r[1], Dash, r[2]>>
WrittenSection(section) ==
    IF section.ranges = <<>> THEN section.text
    ELSE <<Open>> \o Joined([i \in DOMAIN section.ranges |-> WrittenRange(section.ranges[i])], Comma) \o <<Close>>
Written(list) ==
    Joined([i \in DOMAIN list |->
               FlattenSeq([j \in DOMAIN list[i] |-> WrittenSection(list[i][j])])], Comma)
=============================================================================
