---------------------------- MODULE MCWorkerPool -----------------------------
(* WorkerPool on small instances. *)
EXTENDS WorkerPool

Ask(p, w, a, r) == [prio |-> p, warm |-> w, writes |-> a, reply |-> r]

WarmTelegram == Ask(1, TRUE, FALSE, "telegram")
ColdBoth == Ask(2, FALSE, FALSE, "both")

MCWarmAndCold == {WarmTelegram, ColdBoth}
MCWarmOnly == {WarmTelegram}

(***************************************************************************)
(* Progress takes four tasks to go wrong, too many to check from PoolInit.   *)
(* It is checked from two states of such a run, in which the tasks before    *)
(* are over and pruned: the last two wait, with no warm slot started yet;    *)
(* and the last one waits while two others that had shared a process, as in  *)
(* WorkerPool_crossed, have each stopped it and are each about to start it.  *)
(***************************************************************************)
Waiting(S) == [i \in Ids |-> IF i \in S THEN NewTask ELSE NoTask]

AllWarm == [i \in Ids |-> WarmTelegram]

TwoWait ==
  /\ req = [AllWarm EXCEPT ![4] = ColdBoth]
  /\ mem = Waiting({3, 4}) /\ attempted = {1, 2}
  /\ slot = [w \in Slots |-> NewSlot] /\ booted = 0
  /\ job = [i \in Ids |-> NoJob]

TwoRespawn ==
  /\ req = AllWarm
  /\ mem = Waiting({4}) /\ attempted = {1, 2, 3}
  /\ slot = [w \in Slots |-> [NewSlot EXCEPT !.listed = TRUE, !.flapping = TRUE]]
  /\ booted = WarmCount
  /\ job = [i \in Ids |-> IF i \in {2, 3} THEN [WarmJob(1) EXCEPT !.pc = "start"] ELSE NoJob]

MidwayInit ==
  /\ TwoWait \/ TwoRespawn
  /\ disk = mem /\ settled = attempted /\ reported = attempted
  /\ stage = [i \in Ids |-> "idle"] /\ answer = [i \in Ids |-> "accepted"]
  /\ submitted = MaxTasks /\ up = TRUE /\ now = 0 /\ crashes = 0
  /\ loop = Idle /\ active = 0 /\ spaced = TRUE

MidwaySpec == MidwayInit /\ [][PoolNext]_allVars /\ PoolFairness
=============================================================================
