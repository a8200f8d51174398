------------------------------ MODULE TaskLedger ------------------------------
(***************************************************************************)
(* What the task queue promises its users, without memory, files or         *)
(* flushes: every task goes from pending to active to over, or from pending *)
(* straight to over when it is cancelled; over is final; a task is worked   *)
(* on only after it was started; a crash takes the workers away and the     *)
(* recovery puts every active task back to pending, none lost and no        *)
(* finished one among them.                                                 *)
(***************************************************************************)
CONSTANT Tasks

VARIABLES
  phase,    \* what is durably known of each task
  workers   \* the tasks being worked on

vars == <<phase, workers>>

Phases == {"unknown", "pending", "active", "over"}

TypeOK == phase \in [Tasks -> Phases] /\ workers \subseteq Tasks

Init == phase = [t \in Tasks |-> "unknown"] /\ workers = {}

Moves == {<<"unknown", "pending">>, <<"pending", "active">>,
          <<"pending", "over">>, <<"active", "over">>}

Move(t, p) ==
  /\ <<phase[t], p>> \in Moves
  /\ phase' = [phase EXCEPT ![t] = p]

Accept(t) == Move(t, "pending") /\ UNCHANGED workers

Start(t) ==
  /\ t \notin workers
  /\ Move(t, "active")
  /\ workers' = workers \cup {t}

(* Cancelled, or completed or failed by its worker. *)
End(t) == Move(t, "over") /\ workers' \in {workers, workers \ {t}}

(* The worker is done but its outcome was not recorded, or had been decided *)
(* already by a cancellation.                                               *)
Drop(t) == t \in workers /\ workers' = workers \ {t} /\ UNCHANGED phase

(* A crash may hit while one last move becomes durable. *)
Crash ==
  /\ workers' = {}
  /\ \/ UNCHANGED phase
     \/ \E t \in Tasks, p \in Phases : Move(t, p)

Recover ==
  /\ workers = {}
  /\ phase' = [t \in Tasks |-> IF phase[t] = "active" THEN "pending" ELSE phase[t]]
  /\ UNCHANGED workers

Next ==
  \/ \E t \in Tasks : Accept(t) \/ Start(t) \/ End(t) \/ Drop(t)
  \/ Crash
  \/ Recover

Spec == Init /\ [][Next]_vars
=============================================================================
