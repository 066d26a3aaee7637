------------------------------- MODULE MCBrowse -------------------------------
(* Readings of a small cluster for Browse.  What comes and goes between them *)
(* is at the end of its list: a row that stays is where it was.              *)
EXTENDS Browse, TLC

\* Two queues, with a node in both, and an excluded one without nodes; jobs on
\* two of the nodes.
MCFirst ==
    [height |-> 2, queues |-> <<"gpu", "cpu">>, excluded |-> <<"old">>,
     machines |-> {"n1", "n2", "n3"},
     nodes |-> "gpu" :> <<"n1", "n2">> @@ "cpu" :> <<"n2", "n3">> @@ "old" :> <<>>,
     jobs |-> "n1" :> <<"j1", "j2">> @@ "n2" :> <<>> @@ "n3" :> <<"j4">>]

\* A queue is gone, and a node that only it had, with a job that still names the
\* node; the node in both queues has a job, another job is over, and the frame is
\* higher.
MCSmaller ==
    [height |-> 3, queues |-> <<"gpu">>, excluded |-> <<"old">>, machines |-> {"n1", "n2"},
     nodes |-> "gpu" :> <<"n1", "n2">> @@ "old" :> <<>>,
     jobs |-> "n1" :> <<"j1">> @@ "n2" :> <<"j2">> @@ "n3" :> <<"j4">>]

\* They are back, with other jobs, and the frame is lower.
MCLater ==
    [MCFirst EXCEPT !.height = 1,
                    !.jobs = "n1" :> <<"j1", "j3">> @@ "n2" :> <<"j2">> @@ "n3" :> <<>>]

MCReadings == <<MCFirst, MCSmaller, MCLater>>

ASSUME KeepTheirPlaces
=============================================================================
