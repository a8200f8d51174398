----------------------------- MODULE MCTaskQueue -----------------------------
(* TaskQueue on small instances. *)
EXTENDS TaskQueue

Cold(p) == [prio |-> p, warm |-> FALSE, writes |-> FALSE]
Warm(p) == [prio |-> p, warm |-> TRUE, writes |-> FALSE]
WarmWrites(p) == [prio |-> p, warm |-> TRUE, writes |-> TRUE]

MCRequests == {Cold(2), Warm(1), WarmWrites(2)}
MCOneRequest == {Cold(1)}
=============================================================================
