------------------------------ MODULE MCJobView ------------------------------
(* Instances of JobView for TLC.                                            *)
EXTENDS JobView

CONSTANTS w1, w2, reader

MCTwo == {w1, w2}

\* Two nodes whose names are of different widths; a third runs nothing.
Numbered(n, w) == <<Hosts!Word("gn"), Hosts!Digits(n, w)>>
MCNodes == {Numbered(9, 1), Numbered(10, 2), Numbered(11, 2)}

Both == << <<Hosts!Literal(<<Hosts!Word("gn")>>), Hosts!Ranges(<< <<Hosts!Digits(9, 1), Hosts!Digits(10, 2)>> >>)>> >>
One(n, w) == << <<Hosts!Literal(Numbered(n, w))>> >>

Group(hosts, cores, devices) == [list |-> hosts, cores |-> cores, devices |-> devices]
Job(id, array, groups) == [id |-> id, array |-> array, groups |-> groups]

\* A job on both nodes, alike or not; a task of an array, which moves; another on both
\* nodes, which begins; and a job that ends.
MCHistory == <<
    {Job(1, <<>>, <<Group(Both, << <<0, 2>>, <<5, 5>> >>, <<0, 3>>)>>),
     Job(2, <<7, 1>>, <<Group(One(9, 1), << <<3, 4>> >>, <<2>>)>>),
     Job(3, <<>>, <<Group(One(10, 2), << <<3, 3>> >>, <<>>)>>)},
    {Job(1, <<>>, <<Group(One(9, 1), << <<0, 2>> >>, <<>>), Group(One(10, 2), << <<1, 1>> >>, <<1>>)>>),
     Job(2, <<7, 1>>, <<Group(One(10, 2), << <<4, 7>> >>, <<3, 0>>)>>),
     Job(4, <<7, 2>>, <<Group(Both, << <<8, 8>> >>, <<>>)>>)}>>
ASSUME ListsAreTrue
=============================================================================
