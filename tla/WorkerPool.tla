----------------------------- MODULE WorkerPool ------------------------------
(***************************************************************************)
(* The worker pool of the gobrrr daemon (internal/daemon/worker.go and      *)
(* warm_worker.go) over the queue of TaskQueue: the dispatch loop of Run,   *)
(* one goroutine per dispatched task, and the warm slots, each a persistent *)
(* process with a mutex, a busy flag and an anti-flap guard.                *)
(*                                                                         *)
(* A step is one region under one lock (the queue's, the pool's or a        *)
(* slot's) or one event of a worker process.  Start holds the slot's lock   *)
(* from the spawn to the end of the handshake, so it is two steps.          *)
(***************************************************************************)
EXTENDS TaskQueue, FiniteSets

CONSTANTS
  MaxWorkers,     \* cfg.MaxWorkers
  WarmCount,      \* cfg.WarmWorkers
  RateLimited     \* whether SpawnIntervalSec > 0

Slots == 1..WarmCount
NoSlot == 0
NoId == 0

ASSUME PoolAssumption ==
  /\ MaxWorkers \in Nat /\ WarmCount \in Nat
  /\ RateLimited \in BOOLEAN
  /\ \A r \in Requests : r.reply \in {"none", "telegram", "channel", "both"}

VARIABLES
  loop,       \* Run: pc, the warm slot it looks at or holds, the task it took
  active,     \* wp.active
  spaced,     \* spawnInterval has passed since lastSpawn
  slot,       \* the warm workers
  booted,     \* slots StartWarm has been through
  job,        \* the dispatchCold or dispatchWarm goroutine of each task
  reported    \* tasks onResult was called for, in this life or an earlier one

pool == <<loop, active, spaced, slot, booted, job, reported>>
allVars == <<vars, pool>>

-----------------------------------------------------------------------------
NoJob == [kind |-> "none", pc |-> "none", slot |-> NoSlot]
ColdJob == [kind |-> "cold", pc |-> "run", slot |-> NoSlot]
WarmJob(w) == [kind |-> "warm", pc |-> "begin", slot |-> w]

NewSlot == [listed |-> FALSE, process |-> "none", ready |-> FALSE, busy |-> FALSE,
            disabled |-> FALSE, flapping |-> FALSE, starting |-> FALSE]

AtPc(pc, w, i) == [pc |-> pc, slot |-> w, task |-> i]
Idle == AtPc("idle", NoSlot, NoId)

PoolInit ==
  /\ Init
  /\ loop = Idle /\ active = 0 /\ spaced = TRUE
  /\ slot = [w \in Slots |-> NewSlot] /\ booted = 0
  /\ job = [i \in Ids |-> NoJob]
  /\ reported = {}

Goto(pc, w, i) == loop' = AtPc(pc, w, i)
JobPc(i, pc) == job' = [job EXCEPT ![i].pc = pc]
Unlocked(w) == ~slot[w].starting

-----------------------------------------------------------------------------
(* Run, pass 1: reserve a warm slot, then look for a warm task. *)
TickFires ==
  /\ up /\ loop.pc = "idle"
  /\ IF WarmCount = 0 THEN Goto("check", NoSlot, NoId) ELSE Goto("scan", 1, NoId)
  /\ UNCHANGED <<vars, active, spaced, slot, booted, job, reported>>

(* Fault: the scan goes one slot too far. *)
ScanNextTooFar(w) ==
  IF w > WarmCount THEN Goto("check", NoSlot, NoId) ELSE Goto("scan", w + 1, NoId)

ScanNext(w) ==
  IF w = WarmCount THEN Goto("check", NoSlot, NoId) ELSE Goto("scan", w + 1, NoId)

(* ww.Disabled(), which waits for the slot's lock. *)
ScanSlot ==
  /\ loop.pc = "scan"
  /\ LET w == loop.slot
     IN /\ Unlocked(w)
        /\ IF ~slot[w].listed \/ slot[w].disabled
             THEN ScanNext(w)
             ELSE Goto("reserve", w, NoId)
  /\ UNCHANGED <<vars, active, spaced, slot, booted, job, reported>>

Reserve ==
  /\ loop.pc = "reserve"
  /\ LET w == loop.slot
     IN /\ Unlocked(w)
        /\ IF slot[w].ready /\ ~slot[w].busy
             THEN /\ slot' = [slot EXCEPT ![w].busy = TRUE]
                  /\ Goto("fetch", w, NoId)
             ELSE /\ ScanNext(w)
                  /\ UNCHANGED slot
  /\ UNCHANGED <<vars, active, spaced, booted, job, reported>>

DispatchWarm(i, o) ==
  /\ loop.pc = "fetch"
  /\ NextWarm(i, o)
  /\ IF o = "ok"
       THEN /\ job' = [job EXCEPT ![i] = WarmJob(loop.slot)]
            /\ Goto("scan", 1, NoId)
       ELSE /\ Goto("release", loop.slot, NoId)
            /\ UNCHANGED job
  /\ UNCHANGED <<active, spaced, slot, booted, reported>>

NoWarmTask ==
  /\ loop.pc = "fetch"
  /\ WarmQueued = {}
  /\ Goto("release", loop.slot, NoId)
  /\ UNCHANGED <<vars, active, spaced, slot, booted, job, reported>>

GiveBack ==
  /\ loop.pc = "release"
  /\ Unlocked(loop.slot)
  /\ slot' = [slot EXCEPT ![loop.slot].busy = FALSE]
  /\ Goto("check", NoSlot, NoId)
  /\ UNCHANGED <<vars, active, spaced, booted, job, reported>>

(* Faults: the limit is off by one; a task is counted but never started. *)
CheckCapacityOffByOne ==
  /\ loop.pc = "check"
  /\ IF active <= MaxWorkers /\ spaced THEN Goto("take", NoSlot, NoId) ELSE loop' = Idle
  /\ UNCHANGED <<vars, active, spaced, slot, booted, job, reported>>

DispatchColdWithoutStart ==
  /\ loop.pc = "count"
  /\ active' = active + 1
  /\ spaced' = ~RateLimited
  /\ Goto("check", NoSlot, NoId)
  /\ UNCHANGED <<vars, slot, booted, job, reported>>

(* Run, pass 2: everything else, warm leftovers included, goes cold. *)
CheckCapacity ==
  /\ loop.pc = "check"
  /\ IF active < MaxWorkers /\ spaced THEN Goto("take", NoSlot, NoId) ELSE loop' = Idle
  /\ UNCHANGED <<vars, active, spaced, slot, booted, job, reported>>

TakeCold(i, o) ==
  /\ loop.pc = "take"
  /\ NextCold(i, o)
  /\ IF o = "ok" THEN Goto("count", NoSlot, i) ELSE loop' = Idle
  /\ UNCHANGED <<active, spaced, slot, booted, job, reported>>

NothingToTake ==
  /\ loop.pc = "take"
  /\ Queued = {}
  /\ loop' = Idle
  /\ UNCHANGED <<vars, active, spaced, slot, booted, job, reported>>

DispatchCold ==
  /\ loop.pc = "count"
  /\ active' = active + 1
  /\ spaced' = ~RateLimited
  /\ job' = [job EXCEPT ![loop.task] = ColdJob]
  /\ Goto("check", NoSlot, NoId)
  /\ UNCHANGED <<vars, slot, booted, reported>>

SpawnIntervalPasses ==
  /\ up /\ ~spaced
  /\ spaced' = TRUE
  /\ UNCHANGED <<vars, loop, active, slot, booted, job, reported>>

LoopStep ==
  \/ TickFires \/ ScanSlot \/ Reserve \/ NoWarmTask \/ GiveBack
  \/ CheckCapacity \/ NothingToTake \/ DispatchCold
  \/ \E i \in Ids, o \in Outcomes : DispatchWarm(i, o) \/ TakeCold(i, o)

-----------------------------------------------------------------------------
(* Both dispatchers. *)

(* How Run ends and what is recorded: a cold run, timeouts included, ends   *)
(* either way; a warm one as its exchange did.                              *)
Outcome == {<<"run", "completed">>, <<"run", "failed">>,
            <<"succeeded", "completed">>, <<"broke", "failed">>}

RecordOutcome(i, st, o) ==
  /\ <<job[i].pc, st>> \in Outcome
  /\ Finish(i, st, o)
  /\ JobPc(i, st)
  /\ UNCHANGED <<loop, active, spaced, slot, booted, reported>>

(* onResult is called for a result, and for an error only when reply_to is  *)
(* exactly "telegram".                                                      *)
Reports(i) ==
  \/ job[i].pc = "completed"
  \/ job[i].pc = "failed" /\ req[i].reply = "telegram"

AfterReport(i) ==
  JobPc(i, IF job[i].kind = "warm" /\ job[i].pc = "failed" THEN "respawn" ELSE "leave")

(* routeResult; the "channel" route may mark the task delivered. *)
Report(i, o) ==
  /\ Reports(i)
  /\ \/ ReportUnmarked(i) /\ o = "ok"
     \/ req[i].reply \in {"channel", "both"} /\ ReportDelivered(i, o)
  /\ reported' = reported \cup {i}
  /\ AfterReport(i)
  /\ UNCHANGED <<loop, active, spaced, slot, booted>>

SkipReport(i) ==
  /\ job[i].pc = "failed" /\ ~Reports(i)
  /\ ReportUnmarked(i)
  /\ AfterReport(i)
  /\ UNCHANGED <<loop, active, spaced, slot, booted, reported>>


LeaveWarmStillBusy(i) ==
  /\ job[i].kind = "warm" /\ job[i].pc = "leave"
  /\ job' = [job EXCEPT ![i] = NoJob]
  /\ UNCHANGED <<vars, loop, active, spaced, slot, booted, reported>>

(* The deferred active-- of dispatchCold and Release of dispatchWarm. *)
LeaveCold(i) ==
  /\ job[i].kind = "cold" /\ job[i].pc = "leave"
  /\ active' = active - 1
  /\ job' = [job EXCEPT ![i] = NoJob]
  /\ UNCHANGED <<vars, loop, spaced, slot, booted, reported>>

LeaveWarm(i) ==
  /\ job[i].kind = "warm" /\ job[i].pc = "leave"
  /\ Unlocked(job[i].slot)
  /\ slot' = [slot EXCEPT ![job[i].slot].busy = FALSE]
  /\ job' = [job EXCEPT ![i] = NoJob]
  /\ UNCHANGED <<vars, loop, active, spaced, booted, reported>>

-----------------------------------------------------------------------------
(* WarmWorker.Run: read the slot, write the prompt, set the timer and read    *)
(* until the result.  Nothing bounds the write: a process that does not read  *)
(* its input holds it for ever.                                               *)
BeginExchange(i) ==
  /\ job[i].pc = "begin"
  /\ LET w == job[i].slot
     IN /\ Unlocked(w)
        /\ JobPc(i, IF slot[w].ready THEN "writing" ELSE "broke")
  /\ UNCHANGED <<vars, loop, active, spaced, slot, booted, reported>>

WriteEnds(i) ==
  /\ \/ /\ job[i].pc = "writing"
        /\ JobPc(i, IF slot[job[i].slot].process = "alive" THEN "exchange" ELSE "broke")
     \/ job[i].pc = "astray" /\ JobPc(i, "orphaned")
     \/ job[i].pc \in {"writing", "astray"} /\ JobPc(i, "broke")
  /\ UNCHANGED <<vars, loop, active, spaced, slot, booted, reported>>

(* A result line; is_error makes it a failure. *)
Answer(i) ==
  /\ \/ job[i].pc = "exchange" /\ slot[job[i].slot].process = "alive"
     \/ job[i].pc = "orphaned"
  /\ \E pc \in {"succeeded", "broke"} : JobPc(i, pc)
  /\ UNCHANGED <<vars, loop, active, spaced, slot, booted, reported>>

(* The stream ends; one whose time is over returns the timeout whatever it  *)
(* reads.                                                                   *)
StreamEnds(i) ==
  /\ \/ job[i].pc = "exchange" /\ slot[job[i].slot].process = "dead"
     \/ job[i].pc \in {"orphaned", "deserted"}
  /\ JobPc(i, "broke")
  /\ UNCHANGED <<vars, loop, active, spaced, slot, booted, reported>>

(* The writes and reads open with the process of a slot, each gone on to     *)
(* where "to" says.                                                        *)
Attached == {"writing", "exchange"}
Killed == [writing |-> "broke", exchange |-> "broke"]
Replaced == [writing |-> "astray", exchange |-> "orphaned"]

CutOff(w, jobs, to) ==
  [i \in Ids |-> IF jobs[i].slot = w /\ jobs[i].pc \in Attached
                   THEN [jobs[i] EXCEPT !.pc = to[@]] ELSE jobs[i]]

(* Fault: the killed slot still counts as ready. *)
KillStaysReady(w, jobs) ==
  /\ Unlocked(w)
  /\ slot' = [slot EXCEPT ![w].process = "none", ![w].busy = FALSE]
  /\ job' = CutOff(w, jobs, Killed)

(* killLocked: what is written to or read from the process ends in an error. *)
Kill(w, jobs) ==
  /\ Unlocked(w)
  /\ slot' = [slot EXCEPT ![w].process = "none", ![w].ready = FALSE, ![w].busy = FALSE]
  /\ job' = CutOff(w, jobs, Killed)

(* Run stops the slot and waits for its reader.  Of an orphaned exchange it   *)
(* is another process that is stopped, and the reader still waits.          *)
ExchangeTimesOut(i) ==
  /\ job[i].pc \in {"exchange", "orphaned"}
  /\ Kill(job[i].slot,
          [job EXCEPT ![i].pc = IF job[i].pc = "orphaned" THEN "deserted" ELSE "exchange"])
  /\ UNCHANGED <<vars, loop, active, spaced, booted, reported>>

ProcessDies(w) ==
  /\ up /\ slot[w].process = "alive"
  /\ slot' = [slot EXCEPT ![w].process = "dead"]
  /\ UNCHANGED <<vars, loop, active, spaced, booted, job, reported>>

(* RecordRespawnAttempt: a second attempt within the window disables. *)
RecordRespawnAttempt(i) ==
  /\ job[i].pc = "respawn"
  /\ LET w == job[i].slot
     IN /\ Unlocked(w)
        /\ IF slot[w].flapping
             THEN /\ slot' = [slot EXCEPT ![w].disabled = TRUE]
                  /\ JobPc(i, "stop for good")
             ELSE /\ slot' = [slot EXCEPT ![w].flapping = TRUE]
                  /\ JobPc(i, "stop")
  /\ UNCHANGED <<vars, loop, active, spaced, booted, reported>>

Stop(i) ==
  /\ job[i].pc \in {"stop", "stop for good"}
  /\ Kill(job[i].slot,
          [job EXCEPT ![i].pc = IF job[i].pc = "stop" THEN "start" ELSE "leave"])
  /\ UNCHANGED <<vars, loop, active, spaced, booted, reported>>

(* Start takes the slot's lock, spawns and waits for the handshake, or fails  *)
(* before it has spawned.  It replaces the process the slot had, if another *)
(* Start came first, and what was exchanging with that is orphaned: it      *)
(* writes to or reads from a process nobody knows any more ...              *)
BeginStart(i) ==
  /\ job[i].pc = "start"
  /\ Unlocked(job[i].slot)
  /\ \/ /\ slot' = [slot EXCEPT ![job[i].slot].starting = TRUE]
        /\ job' = CutOff(job[i].slot, [job EXCEPT ![i].pc = "starting"], Replaced)
     \/ JobPc(i, "leave") /\ UNCHANGED slot
  /\ UNCHANGED <<vars, loop, active, spaced, booted, reported>>

(* ... and returns with the slot ready, or with the process killed. *)
EndStart(i) ==
  /\ job[i].pc = "starting"
  /\ LET w == job[i].slot
     IN \/ slot' = [slot EXCEPT ![w].starting = FALSE, ![w].ready = TRUE,
                                ![w].process = "alive"]
        \/ slot' = [slot EXCEPT ![w].starting = FALSE, ![w].ready = FALSE,
                                ![w].busy = FALSE, ![w].process = "none"]
  /\ JobPc(i, "leave")
  /\ UNCHANGED <<vars, loop, active, spaced, booted, reported>>

FlapWindowPasses(w) ==
  /\ up /\ slot[w].flapping
  /\ slot' = [slot EXCEPT ![w].flapping = FALSE]
  /\ UNCHANGED <<vars, loop, active, spaced, booted, job, reported>>

(* StartWarm: one slot after the other; one that fails to start is dropped. *)
StartWarm ==
  /\ up /\ booted < WarmCount
  /\ booted' = booted + 1
  /\ \/ slot' = [slot EXCEPT ![booted + 1] =
                   [NewSlot EXCEPT !.listed = TRUE, !.ready = TRUE, !.process = "alive"]]
     \/ UNCHANGED slot
  /\ UNCHANGED <<vars, loop, active, spaced, job, reported>>

-----------------------------------------------------------------------------
JobStep(i) ==
  \/ \E o \in Outcomes :
       \/ \E st \in {"completed", "failed"} : RecordOutcome(i, st, o)
       \/ Report(i, o)
  \/ SkipReport(i) \/ LeaveCold(i) \/ LeaveWarm(i)
  \/ BeginExchange(i) \/ ExchangeTimesOut(i)
  \/ RecordRespawnAttempt(i) \/ Stop(i) \/ BeginStart(i)

(* The rest of the daemon, while the pool stands still. *)
Around(o) ==
  /\ ClientStep(o) \/ Prune(o) \/ Restart(o)
  /\ UNCHANGED pool

PoolCrash ==
  /\ CrashStep
  /\ loop' = Idle /\ active' = 0 /\ spaced' = TRUE
  /\ slot' = [w \in Slots |-> NewSlot] /\ booted' = 0
  /\ job' = [i \in Ids |-> NoJob]
  /\ UNCHANGED reported

PoolNext ==
  \/ LoopStep
  \/ \E i \in Ids : JobStep(i) \/ WriteEnds(i) \/ Answer(i) \/ StreamEnds(i) \/ EndStart(i)
  \/ \E w \in Slots : ProcessDies(w) \/ FlapWindowPasses(w)
  \/ StartWarm \/ SpawnIntervalPasses
  \/ \E o \in Outcomes : Around(o)
  \/ PoolCrash

PoolSpec == PoolInit /\ [][PoolNext]_allVars

-----------------------------------------------------------------------------
(* Properties *)

PoolTypeOK ==
  /\ loop \in [pc: {"idle", "scan", "reserve", "fetch", "release", "check", "take", "count"},
               slot: Slots \cup {NoSlot}, task: Ids \cup {NoId}]
  /\ active \in Int /\ spaced \in BOOLEAN /\ booted \in 0..WarmCount
  /\ slot \in [Slots -> [listed: BOOLEAN, process: {"none", "alive", "dead"},
                         ready: BOOLEAN, busy: BOOLEAN, disabled: BOOLEAN,
                         flapping: BOOLEAN, starting: BOOLEAN]]
  /\ job \in [Ids -> [kind: {"none", "cold", "warm"}, slot: Slots \cup {NoSlot},
                      pc: {"none", "run", "begin", "writing", "astray", "exchange",
                           "orphaned", "deserted", "succeeded", "broke", "completed",
                           "failed", "respawn", "stop", "stop for good", "start",
                           "starting", "leave"}]]
  /\ reported \subseteq Ids

(* A dispatcher before Complete or Fail. *)
Recording == {"run", "begin", "writing", "astray", "exchange", "orphaned", "deserted",
              "succeeded", "broke"}

ColdJobs == {i \in Ids : job[i].kind = "cold"}
WarmJobs(w) == {i \in Ids : job[i].kind = "warm" /\ job[i].slot = w}

(* The cold workers never exceed the limit, although Run reads the count,   *)
(* takes a task and only then counts it, each under the lock on its own:    *)
(* tasks taken and not yet counted are included, and the count is exact.    *)
ColdWithinLimit ==
  /\ active = Cardinality(ColdJobs)
  /\ active <= MaxWorkers
  /\ loop.pc = "count" => active < MaxWorkers

(* A reservation is never leaked: a busy slot is held by the loop or by a   *)
(* dispatcher that will release it, whatever failed on the way.             *)
BusyIsHeld ==
  \A w \in Slots : slot[w].busy =>
    \/ loop.pc \in {"fetch", "release"} /\ loop.slot = w
    \/ WarmJobs(w) # {}

(* Who writes to the slot's process or waits for its answer does so with one *)
(* that is there, ready and not being replaced, so that its end or a kill   *)
(* wakes him: none is left with a process that was killed, and none with a  *)
(* slot in whose Start the handshake reads.  Whose process was replaced is  *)
(* not meant: a Stop of the slot does not reach him any more.               *)
ExchangeHasProcess ==
  \A i \in Ids : job[i].pc \in Attached =>
    LET w == slot[job[i].slot] IN w.ready /\ ~w.starting /\ w.process # "none"

(* No task is stranded between Next and its goroutine: a running task is in *)
(* the loop's hands or some dispatcher has yet to record its outcome, unless*)
(* recording it was tried and failed.                                       *)
RunningHasDispatcher ==
  \A i \in Ids : mem[i].status = "running" /\ i \notin attempted =>
    \/ loop.pc = "count" /\ loop.task = i
    \/ job[i].pc \in Recording

(* When flushes succeed, the outcome of a task is reported at most once,    *)
(* crashes and restarts included: a reported task is not run again.         *)
ReportedOnce == \A i \in Ids : Reports(i) => i \notin reported

(***************************************************************************)
(* The inductive invariants behind these.  The loop and the dispatchers are *)
(* where the stage of each task says, a task in the queue has neither, and  *)
(* all are gone when the daemon is.                                         *)
(***************************************************************************)
LoopHolds(i) == loop.pc = "count" /\ loop.task = i

LoopShape ==
  /\ loop.pc \in {"scan", "reserve", "fetch", "release"} => loop.slot \in Slots
  /\ loop.pc = "count" => loop.task \in Ids /\ job[loop.task] = NoJob

JobShape ==
  \A i \in Ids :
    \/ job[i] = NoJob
    \/ /\ job[i].kind = "cold" /\ job[i].slot = NoSlot
       /\ job[i].pc \in {"run", "completed", "failed", "leave"}
    \/ /\ job[i].kind = "warm" /\ job[i].slot \in Slots
       /\ job[i].pc \notin {"none", "run"}

StageShape ==
  \A i \in Ids :
    /\ stage[i] = "working" <=> LoopHolds(i) \/ job[i].pc \in Recording
    /\ stage[i] = "reporting" <=> job[i].pc \in {"completed", "failed"}

NobodyHas(i) == job[i] = NoJob /\ ~LoopHolds(i)

FreeWhenQueued ==
  /\ \A i \in Ids : mem[i].status = "queued" \/ i > submitted => NobodyHas(i)
  /\ ~up => loop.pc = "idle" /\ \A i \in Ids : job[i] = NoJob

ShapeInv == LoopShape /\ JobShape /\ StageShape /\ FreeWhenQueued

(* There is room from the check of the capacity to the count.               *)
CapacityInv == ColdWithinLimit /\ (loop.pc = "take" => active < MaxWorkers)

(* A slot that is ready has a process.                                      *)
ReadyHasProcess == \A w \in Slots : slot[w].ready => slot[w].process # "none"

(* Only a slot that was started once is used, ...                           *)
OnlyBooted ==
  /\ \A w \in Slots : slot[w].listed => w <= booted
  /\ loop.pc \in {"reserve", "fetch"} => loop.slot <= booted
  /\ \A i \in Ids : job[i].kind = "warm" => job[i].slot <= booted

(* ... and Start runs once at a time in each.                               *)
OneStart ==
  \A i \in Ids : job[i].pc = "starting" =>
    /\ slot[job[i].slot].starting
    /\ \A j \in Ids : job[j].pc = "starting" /\ job[j].slot = job[i].slot => j = i

SlotInv == BusyIsHeld /\ ReadyHasProcess /\ OnlyBooted /\ OneStart /\ ExchangeHasProcess

(* When flushes succeed: what is reported, or about to be, is over in memory *)
(* and on disk.                                                             *)
ReportInv ==
  \A i \in Ids :
    /\ i \in reported \/ stage[i] = "reporting" =>
         mem[i].status \notin Live /\ disk[i].status \notin Live
    /\ stage[i] = "working" /\ mem[i].status = "absent" => disk[i].status \notin Live
    /\ i \in reported => stage[i] = "idle" /\ i <= submitted

(* A dispatcher has its warm worker for itself from Reserve to the recorded *)
(* outcome.  (warm_worker.go:67, "Reserve atomically checks availability    *)
(* and marks the worker as busy", and the design's "result is the delimiter *)
(* between tasks".)  It does not: Stop clears busy and Start makes the slot *)
(* ready before the deferred Release of the failed dispatch, which then     *)
(* releases somebody else's reservation.                                    *)
Exchanging(i) == job[i].pc \in {"begin", "writing", "exchange"}
WarmExclusive ==
  \A w \in Slots : \A i, j \in WarmJobs(w) : Exchanging(i) /\ Exchanging(j) => i = j

(***************************************************************************)
(* Progress: the goroutines run, runWorker ends at its timeout, so does the *)
(* read of WarmWorker.Run, time passes and systemd restarts the daemon.     *)
(* Nothing is assumed of the calls that have no timeout: the write of the   *)
(* prompt, the handshake of Start, and the wait of an exchange whose time is *)
(* over for a reader whose process was replaced.                            *)
(***************************************************************************)
PoolFairness ==
  /\ WF_allVars(LoopStep)
  /\ \A i \in Ids : WF_allVars(JobStep(i))
  /\ WF_allVars(SpawnIntervalPasses)
  /\ WF_allVars(Restart("ok") /\ UNCHANGED pool)

PoolLiveSpec == PoolSpec /\ PoolFairness

Untimed == {"writing", "astray", "starting", "deserted"}


(* routes_tasks.go:17, "if no warm worker is free, the task falls through   *)
(* to cold spawn", and the design's "respawn in the background": a waiting  *)
(* task is taken even if a respawn never ends.  It is not: Start holds the  *)
(* slot's lock, and the loop waits for that lock in Disabled().             *)
WaitingTasksAreTaken ==
  \A i \in Ids : mem[i].status = "queued" ~> mem[i].status # "queued"
=============================================================================
