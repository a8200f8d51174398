------------------------------ MODULE TaskQueue ------------------------------
(***************************************************************************)
(* The persistent task queue of the gobrrr daemon (internal/daemon/queue.go *)
(* over internal/atomicfs): a slice of tasks in memory, a JSON file that    *)
(* every mutating method rewrites as a whole, and the recovery done when    *)
(* the daemon starts again.                                                 *)
(*                                                                         *)
(* A task is named by its place in the order of submissions.  Submit reads  *)
(* the clock and appends under the queue lock, so that order is the order   *)
(* of CreatedAt and of the slice.  Every method holds the lock from its     *)
(* first read to the end of its flush, so each is one step; what happens    *)
(* inside the flush is the outcome it is given (see Flush) or a crash in    *)
(* the middle (CrashInSubmit, CrashInUpdate).                               *)
(*                                                                         *)
(* The users of the queue are abstract here: any client submits, cancels;   *)
(* a dispatcher holds each task Next or NextWarm returned, calls Complete   *)
(* or Fail for it once, then reports the result.  WorkerPool refines them.  *)
(***************************************************************************)
EXTENDS Integers

CONSTANTS
  MaxTasks,       \* bound: submissions
  MaxCrashes,     \* bound: daemon crashes
  MaxClock,       \* bound: clock, in the unit of Retention
  Requests,       \* what clients ask for: records with prio, warm, writes
  Retention,      \* cfg.LogRetentionDays
  FlushOutcomes,  \* outcomes of flush while the daemon serves
  LoadOutcomes    \* outcomes of the flush in LoadQueue

Ids == 1..MaxTasks
Outcomes == {"ok", "unwritten", "unsynced"}

ASSUME BoundsAssumption == MaxTasks \in Nat /\ MaxCrashes \in Nat /\ MaxClock \in Nat
ASSUME RequestsAssumption ==
  /\ Requests # {}
  /\ \A r \in Requests : r.prio \in Int /\ r.warm \in BOOLEAN /\ r.writes \in BOOLEAN
ASSUME RetentionAssumption == Retention \in Int
ASSUME OutcomesAssumption ==
  /\ FlushOutcomes \subseteq Outcomes
  /\ LoadOutcomes \subseteq Outcomes

VARIABLES
  mem,        \* q.tasks: the tasks in memory (none while the daemon is down)
  disk,       \* queue.json
  req,        \* Priority, Warm and AllowWrites: fixed by Submit, so kept once
  up,         \* the daemon runs
  now,        \* the clock CompletedAt and the pruning cutoff are read from
  crashes,
  submitted,  \* calls of Submit so far
  stage,      \* the dispatcher of a task: "idle" (none), "working", "reporting"
  answer,     \* what Submit told the client: "none", "accepted", "refused"
  attempted,  \* tasks Complete, Fail or Cancel has been called for
  settled     \* tasks for which one of them returned without error

store == <<mem, disk>>
clients == <<req, submitted, answer>>
vars == <<mem, disk, req, up, now, crashes, submitted, stage, answer, attempted, settled>>

-----------------------------------------------------------------------------
Terminal == {"completed", "failed", "cancelled"}
Live == {"queued", "running"}
Status == {"absent"} \cup Live \cup Terminal
Never == -1          \* CompletedAt = nil
Task == [status: Status, completedAt: Int, delivered: BOOLEAN]

NoTask == [status |-> "absent", completedAt |-> Never, delivered |-> FALSE]
NewTask == [NoTask EXCEPT !.status = "queued"]
NoTasks == [i \in Ids |-> NoTask]

Present(i) == mem[i].status # "absent"

(* Fault: equal priorities last in, first out. *)
BeforeByNewest(i, j) ==
  \/ req[i].prio < req[j].prio
  \/ req[i].prio = req[j].prio /\ i > j

(* Priority first (a lower number is more urgent), then CreatedAt. *)
Before(i, j) ==
  \/ req[i].prio < req[j].prio
  \/ req[i].prio = req[j].prio /\ i < j

Queued == {i \in Ids : mem[i].status = "queued"}
WarmQueued == {i \in Queued : req[i].warm /\ ~req[i].writes}
IsBest(i, S) == i \in S /\ \A j \in S \ {i} : Before(i, j)

-----------------------------------------------------------------------------
(* Faults: Next leaves the status alone, Complete and Fail write a status   *)
(* no other method knows, Prune takes a task on the day its retention ends, *)
(* LoadQueue touches the wrong tasks.                                       *)
StartedUnmarked(i) == mem
FinishedAsDone(i, st) == [mem EXCEPT ![i].status = "done", ![i].completedAt = now]
RecoveredAsTheyWere(d) == d
RecoveredWithoutInterrupted(d) == [i \in Ids |-> IF d[i].status = "running" THEN NoTask ELSE d[i]]
RecoveredUnlessCompleted(d) ==
  [i \in Ids |-> IF d[i].status \in {"running", "failed"}
                   THEN [d[i] EXCEPT !.status = "queued"] ELSE d[i]]

(* The contents each method hands to flush. *)
Submitted(i) == [mem EXCEPT ![i] = NewTask]
Started(i) == [mem EXCEPT ![i].status = "running"]
Finished(i, st) == [mem EXCEPT ![i].status = st, ![i].completedAt = now]
Cancelled(i) == [mem EXCEPT ![i].status = "cancelled"]
Marked(i) == [mem EXCEPT ![i].delivered = TRUE]

ExpiredOnTheDay(t) ==
  /\ t.status \in Terminal
  /\ \/ Retention <= 0
     \/ t.completedAt # Never /\ t.completedAt <= now - Retention

Expired(t) ==
  /\ t.status \in Terminal
  /\ \/ Retention <= 0
     \/ t.completedAt # Never /\ t.completedAt < now - Retention
Pruned == [i \in Ids |-> IF Expired(mem[i]) THEN NoTask ELSE mem[i]]

Recovered(d) ==
  [i \in Ids |-> IF d[i].status = "running" THEN [d[i] EXCEPT !.status = "queued"] ELSE d[i]]

(***************************************************************************)
(* flush writes queue.json.tmp, renames it over queue.json and fsyncs the   *)
(* directory.  It fails before the rename ("unwritten": the file is as it   *)
(* was) or after it ("unsynced": the file is new although flush returned an *)
(* error).                                                                  *)
(***************************************************************************)
Flush(new, o) ==
  /\ o \in FlushOutcomes
  /\ disk' = IF o = "unwritten" THEN disk ELSE new

(* Fault: no rollback. *)
FlushWithoutRollBack(new, o) == Flush(new, o) /\ mem' = new

(* Methods that restore the memory when flush fails. *)
FlushOrRollBack(new, o) ==
  /\ Flush(new, o)
  /\ mem' = IF o = "ok" THEN new ELSE mem

(* Methods that keep the new memory whatever flush returns. *)
FlushRegardless(new, o) ==
  /\ Flush(new, o)
  /\ mem' = new

-----------------------------------------------------------------------------
Init ==
  /\ mem = NoTasks
  /\ disk = NoTasks
  /\ req = [i \in Ids |-> CHOOSE r \in Requests : TRUE]
  /\ up = TRUE
  /\ now = 0
  /\ crashes = 0
  /\ submitted = 0
  /\ stage = [i \in Ids |-> "idle"]
  /\ answer = [i \in Ids |-> "none"]
  /\ attempted = {}
  /\ settled = {}

(* POST /tasks and the scheduler. *)
Submit(r, o) ==
  LET i == submitted + 1
  IN /\ up
     /\ submitted < MaxTasks
     /\ FlushOrRollBack(Submitted(i), o)
     /\ submitted' = i
     /\ req' = [req EXCEPT ![i] = r]
     /\ answer' = [answer EXCEPT ![i] = IF o = "ok" THEN "accepted" ELSE "refused"]
     /\ UNCHANGED <<up, now, crashes, stage, attempted, settled>>

(* Fault: Next does not save. *)
HandOutUnsaved(i, o) ==
  /\ up /\ o = "ok"
  /\ mem' = Started(i)
  /\ stage' = [stage EXCEPT ![i] = "working"]
  /\ UNCHANGED <<disk, clients, up, now, crashes, attempted, settled>>

HandOut(i, o) ==
  /\ up
  /\ FlushOrRollBack(Started(i), o)
  /\ stage' = IF o = "ok" THEN [stage EXCEPT ![i] = "working"] ELSE stage
  /\ UNCHANGED <<clients, up, now, crashes, attempted, settled>>

(* Queue.Next and Queue.NextWarm. *)
NextCold(i, o) == IsBest(i, Queued) /\ HandOut(i, o)
NextWarm(i, o) == IsBest(i, WarmQueued) /\ HandOut(i, o)

Settle(i, new, o) ==
  /\ attempted' = attempted \cup {i}
  /\ \/ /\ Present(i)
        /\ FlushOrRollBack(new, o)
        /\ settled' = IF o = "ok" THEN settled \cup {i} ELSE settled
     \/ /\ ~Present(i)          \* "task not found": nothing is written
        /\ o = "ok"
        /\ UNCHANGED <<store, settled>>

(* Complete and Fail, called by the task's dispatcher, which ignores their  *)
(* error.  Neither looks at the status the task has by then.                *)
Finish(i, st, o) ==
  /\ up
  /\ stage[i] = "working"
  /\ Settle(i, Finished(i, st), o)
  /\ stage' = [stage EXCEPT ![i] = "reporting"]
  /\ UNCHANGED <<clients, up, now, crashes>>

(* DELETE /tasks/{id}, at any time and in any status.  The dispatcher is    *)
(* not told and CompletedAt is not set.                                     *)
Cancel(i, o) ==
  /\ up
  /\ Present(i)
  /\ Settle(i, Cancelled(i), o)
  /\ UNCHANGED <<clients, up, now, crashes, stage>>

(* The dispatcher reports the result; on the "channel" route it also marks  *)
(* the task delivered, without rolling back when flush fails.               *)
ReportDelivered(i, o) ==
  /\ up
  /\ stage[i] = "reporting"
  /\ Present(i)
  /\ FlushRegardless(Marked(i), o)
  /\ stage' = [stage EXCEPT ![i] = "idle"]
  /\ UNCHANGED <<clients, up, now, crashes, attempted, settled>>

ReportUnmarked(i) ==
  /\ up
  /\ stage[i] = "reporting"
  /\ stage' = [stage EXCEPT ![i] = "idle"]
  /\ UNCHANGED <<store, clients, up, now, crashes, attempted, settled>>

(* The hourly pruning; an error of flush is ignored. *)
Prune(o) ==
  /\ up
  /\ \E i \in Ids : Expired(mem[i])
  /\ FlushRegardless(Pruned, o)
  /\ UNCHANGED <<clients, up, now, crashes, stage, attempted, settled>>

Tick ==
  /\ now < MaxClock
  /\ now' = now + 1
  /\ UNCHANGED <<store, clients, up, crashes, stage, attempted, settled>>

-----------------------------------------------------------------------------
GoDown ==
  /\ up
  /\ crashes < MaxCrashes
  /\ up' = FALSE
  /\ crashes' = crashes + 1
  /\ mem' = NoTasks
  /\ stage' = [i \in Ids |-> "idle"]

Crash == GoDown /\ UNCHANGED <<disk, clients, now, attempted, settled>>

(* The daemon dies after the rename and before Submit answers. *)
CrashInSubmit(r) ==
  LET i == submitted + 1
  IN /\ submitted < MaxTasks
     /\ disk' = Submitted(i)
     /\ submitted' = i
     /\ req' = [req EXCEPT ![i] = r]
     /\ GoDown
     /\ UNCHANGED <<answer, now, attempted, settled>>

(* The daemon dies after the rename of any other method. *)
CrashInUpdate(i) ==
  /\ \/ /\ IsBest(i, Queued) \/ IsBest(i, WarmQueued)
        /\ disk' = Started(i)
        /\ UNCHANGED attempted
     \/ /\ stage[i] = "working" /\ Present(i)
        /\ \E st \in {"completed", "failed"} : disk' = Finished(i, st)
        /\ attempted' = attempted \cup {i}
     \/ /\ Present(i)
        /\ disk' = Cancelled(i)
        /\ attempted' = attempted \cup {i}
     \/ /\ stage[i] = "reporting" /\ Present(i)
        /\ disk' = Marked(i)
        /\ UNCHANGED attempted
     \/ /\ Expired(mem[i])
        /\ disk' = Pruned
        /\ UNCHANGED attempted
  /\ GoDown
  /\ UNCHANGED <<clients, now, settled>>

(* daemon.New: LoadQueue, or an empty queue on the same path if it fails.   *)
(* LoadQueue writes only if some task was running.                          *)
Restart(o) ==
  /\ ~up
  /\ up' = TRUE
  /\ \/ /\ \A i \in Ids : disk[i].status # "running"
        /\ o = "ok"
        /\ mem' = disk
        /\ UNCHANGED disk
     \/ /\ \E i \in Ids : disk[i].status = "running"
        /\ o \in LoadOutcomes
        /\ disk' = IF o = "unwritten" THEN disk ELSE Recovered(disk)
        /\ mem' = IF o = "ok" THEN Recovered(disk) ELSE NoTasks
  /\ UNCHANGED <<clients, now, crashes, stage, attempted, settled>>

-----------------------------------------------------------------------------
ClientStep(o) ==
  \/ \E r \in Requests : Submit(r, o)
  \/ \E i \in Ids : Cancel(i, o)

DispatcherStep(i, o) ==
  \/ NextCold(i, o)
  \/ NextWarm(i, o)
  \/ \E st \in {"completed", "failed"} : Finish(i, st, o)
  \/ ReportDelivered(i, o)
  \/ ReportUnmarked(i)

CrashStep ==
  \/ Crash
  \/ \E r \in Requests : CrashInSubmit(r)
  \/ \E i \in Ids : CrashInUpdate(i)

Next ==
  \/ \E o \in Outcomes :
       \/ ClientStep(o)
       \/ \E i \in Ids : DispatcherStep(i, o)
       \/ Prune(o)
       \/ Restart(o)
  \/ CrashStep
  \/ Tick

Spec == Init /\ [][Next]_vars

-----------------------------------------------------------------------------
(* Properties *)

TypeOK ==
  /\ mem \in [Ids -> Task] /\ disk \in [Ids -> Task]
  /\ req \in [Ids -> Requests]
  /\ up \in BOOLEAN
  /\ now \in 0..MaxClock /\ crashes \in 0..MaxCrashes /\ submitted \in 0..MaxTasks
  /\ stage \in [Ids -> {"idle", "working", "reporting"}]
  /\ answer \in [Ids -> {"none", "accepted", "refused"}]
  /\ attempted \subseteq Ids /\ settled \subseteq Ids

(* A task some dispatcher still holds is never back in the queue, where a   *)
(* second one could take it: whatever flushes fail, whoever cancels, the    *)
(* rollbacks of Next, Complete, Fail and Cancel never requeue it.           *)
InFlightNotQueued == \A i \in Ids : stage[i] # "idle" => mem[i].status # "queued"

(* A task the queue calls running has a worker, unless Complete or Fail was *)
(* called for it and its flush failed (the dispatcher drops that error and  *)
(* the task stays "running" with nobody at work until the next restart).    *)
RunningIsOwned ==
  \A i \in Ids : mem[i].status = "running" => stage[i] # "idle" \/ i \in attempted

(* Equal priority is FIFO: no task runs while an earlier one, at least as   *)
(* urgent and open to the same workers, still waits - also when both were   *)
(* recovered from disk, or when the flush that should have started the      *)
(* earlier one failed.                                                      *)
NoOvertaking ==
  \A i, j \in Ids :
    /\ i < j
    /\ req[i].prio <= req[j].prio
    /\ (req[j].warm /\ ~req[j].writes) => (req[i].warm /\ ~req[i].writes)
    /\ mem[j].status = "running"
    => mem[i].status # "queued"

(* Once Complete, Fail or Cancel has returned without error, the task is    *)
(* never handed to a worker again, in this life of the daemon or a later    *)
(* one: results are not recomputed, a cancelled task does not start.        *)
SettledNeverRuns ==
  [][\A i \in settled : stage[i] = "idle" => stage'[i] = "idle"]_vars

(* A task whose submission was confirmed is on disk, waiting or running,    *)
(* until somebody has tried to complete, fail or cancel it; a crash at any  *)
(* point and failing flushes do not lose it, and a running daemon knows it. *)
AcceptedSurvives ==
  \A i \in Ids : answer[i] = "accepted" /\ i \notin attempted =>
    /\ disk[i].status \in Live
    /\ up => mem[i].status \in Live

(* A task is overdue when it is over and either nothing is to be kept or it *)
(* ended more than the retention ago.                                       *)
Overdue(t) ==
  t.status \in Terminal /\ (Retention > 0 => t.completedAt # Never /\ now > t.completedAt + Retention)

(* A recorded outcome is lost to nobody before its retention is over: no    *)
(* rollback, failed flush, crash or pruning takes it out of the file, or    *)
(* out of the memory of a running daemon, where GET and RecentCompleted     *)
(* look.  When one is pruned, everything else that is overdue goes with it. *)
ResultKept ==
  [][\A i \in settled :
       /\ disk[i].status # "absent" /\ disk'[i].status = "absent" => Overdue(disk[i])
       /\ up' /\ mem[i].status # "absent" /\ mem'[i].status = "absent" =>
            Overdue(mem[i]) /\ \A j \in Ids : ~Overdue(mem'[j])]_vars

(* The inductive invariant behind InFlightNotQueued and SettledNeverRuns:   *)
(* a daemon that is down holds nothing, an identifier not yet given out is  *)
(* unknown everywhere, and a task with a recorded outcome is not live in    *)
(* memory or on disk, whichever of the two is newer.                        *)
DownIsEmpty == ~up => \A i \in Ids : mem[i].status = "absent" /\ stage[i] = "idle"

FreshIsUnknown ==
  \A i \in Ids : i > submitted =>
    /\ mem[i].status = "absent" /\ disk[i].status = "absent"
    /\ stage[i] = "idle" /\ i \notin settled

SettledIsOver ==
  \A i \in settled : mem[i].status \notin Live /\ disk[i].status \notin Live

QueueInv == DownIsEmpty /\ FreshIsUnknown /\ InFlightNotQueued /\ SettledIsOver

(* What RunningIsOwned and NoOvertaking need besides: whoever reports has    *)
(* called Complete or Fail.                                                 *)
ReportingIsAttempted == \A i \in Ids : stage[i] = "reporting" => i \in attempted

OrderInv == RunningIsOwned /\ ReportingIsAttempted /\ NoOvertaking

(* The inductive invariant behind ResultKept: a task has no CompletedAt      *)
(* before its dispatcher ends it, and a recorded outcome that memory has    *)
(* given up, or will once it has expired, is as old in the file.            *)
LiveHasNoEnd ==
  \A i \in Ids :
    /\ mem[i].status \in Live \/ stage[i] = "working" => mem[i].completedAt = Never
    /\ disk[i].status \in Live => disk[i].completedAt = Never

FileIsNoNewer ==
  up => \A i \in settled :
    /\ mem[i].status = "absent" => disk[i].status = "absent" \/ Expired(disk[i])
    /\ mem[i].completedAt # Never =>
         disk[i].status = "absent" \/ disk[i].completedAt = mem[i].completedAt

KeepInv == LiveHasNoEnd /\ FileIsNoNewer

(* A task whose submission was answered with an error is never run.  True   *)
(* as long as flush fails only before the rename.                           *)
RefusedNeverRuns == \A i \in Ids : answer[i] = "refused" => stage[i] = "idle"

(* The inductive invariant behind it: such a task is not known anywhere.    *)
RefusedIsUnknown ==
  \A i \in Ids :
    /\ answer[i] = "refused" =>
         mem[i].status = "absent" /\ disk[i].status = "absent" /\ stage[i] = "idle"
    /\ i > submitted => answer[i] = "none"

(***************************************************************************)
(* When flush fails only before the rename, the queue implements the        *)
(* ledger: what is durable is what the file says.  A task that has left the *)
(* file was pruned if anybody ever tried to end it, else it never was there.*)
(***************************************************************************)
PhaseOf(i) ==
  CASE disk[i].status = "queued" -> "pending"
    [] disk[i].status = "running" -> "active"
    [] disk[i].status \in Terminal -> "over"
    [] OTHER -> IF i \in attempted THEN "over" ELSE "unknown"

Working == {i \in Ids : stage[i] = "working"}

(* What the mapping needs: the file is never behind a running daemon, but   *)
(* for what was pruned; only attempted tasks are over, none that is not     *)
(* submitted is attempted, and a worker's task is active until somebody     *)
(* tries to end it.                                                         *)
LedgerInv ==
  \A i \in Ids :
    /\ up => mem[i].status \in {"absent", disk[i].status}
    /\ up /\ mem[i].status # disk[i].status => disk[i].status \in Terminal
    /\ disk[i].status \in Terminal => i \in attempted
    /\ i > submitted => i \notin attempted
    /\ stage[i] = "working" /\ i \notin attempted => mem[i].status = "running"

Ledger == INSTANCE TaskLedger WITH
  Tasks <- Ids,
  phase <- [i \in Ids |-> PhaseOf(i)],
  workers <- Working

(* The queue keeps the ledger's promise, crash and flush failures included. *)
ImplementsLedger == Ledger!Spec
=============================================================================
