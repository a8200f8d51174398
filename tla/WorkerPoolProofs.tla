-------------------------- MODULE WorkerPoolProofs ---------------------------
(***************************************************************************)
(* Theorems about WorkerPool: the pool is one of the ways the queue's users *)
(* may behave, so all that TaskQueueProofs shows of Spec holds of it; and   *)
(* the invariants of the pool itself, for every number of tasks, slots,     *)
(* cold workers, crashes and failing flushes.                               *)
(***************************************************************************)
EXTENDS WorkerPool, TaskQueueProofs, FiniteSetTheorems

(* What a step of the pool does to the queue. *)
LEMMA PoolNextIsNext == PoolNext => Next \/ UNCHANGED vars
<1> SUFFICES ASSUME PoolNext PROVE Next \/ UNCHANGED vars
  OBVIOUS
<1>1. CASE LoopStep
  <2>1. ASSUME NEW i \in Ids, NEW o \in Outcomes, DispatchWarm(i, o) \/ TakeCold(i, o)
        PROVE  Next
    BY <2>1 DEF DispatchWarm, TakeCold, Next, DispatcherStep
  <2> QED
    BY <1>1, <2>1 DEF LoopStep, TickFires, ScanSlot, Reserve, NoWarmTask, GiveBack,
      CheckCapacity, NothingToTake, DispatchCold
<1>2. ASSUME NEW i \in Ids, JobStep(i) PROVE Next \/ UNCHANGED vars
  <2>1. ASSUME NEW o \in Outcomes, NEW st \in {"completed", "failed"}, RecordOutcome(i, st, o)
        PROVE  Next
    BY <2>1 DEF RecordOutcome, Next, DispatcherStep
  <2>2. ASSUME NEW o \in Outcomes, Report(i, o) PROVE Next
    BY <2>2 DEF Report, Next, DispatcherStep
  <2>3. CASE SkipReport(i)
    BY <2>3 DEF SkipReport, Next, DispatcherStep, Outcomes
  <2> QED
    BY <1>2, <2>1, <2>2, <2>3 DEF JobStep, LeaveCold, LeaveWarm, BeginExchange,
      ExchangeTimesOut, RecordRespawnAttempt, Stop, BeginStart
<1>3. ASSUME NEW o \in Outcomes, Around(o) PROVE Next
  BY <1>3 DEF Around, Next
<1>4. CASE PoolCrash
  BY <1>4 DEF PoolCrash, Next
<1>5. ASSUME NEW i \in Ids, WriteEnds(i) \/ Answer(i) \/ StreamEnds(i) \/ EndStart(i) PROVE UNCHANGED vars
  BY <1>5 DEF WriteEnds, Answer, StreamEnds, EndStart
<1>6. ASSUME NEW w \in Slots, ProcessDies(w) \/ FlapWindowPasses(w) PROVE UNCHANGED vars
  BY <1>6 DEF ProcessDies, FlapWindowPasses
<1>7. CASE StartWarm \/ SpawnIntervalPasses
  BY <1>7 DEF StartWarm, SpawnIntervalPasses
<1> QED
  BY <1>1, <1>2, <1>3, <1>4, <1>5, <1>6, <1>7 DEF PoolNext

(* The pool uses the queue as TaskQueue assumes its users do: one dispatcher *)
(* a task, which finishes it once and then reports it.  What is proved of   *)
(* the queue therefore holds with the pool over it.                         *)
THEOREM PoolRefinesQueue == PoolSpec => Spec
<1>1. PoolInit => Init
  BY DEF PoolInit
<1>2. [PoolNext]_allVars => [Next]_vars
  BY PoolNextIsNext DEF allVars
<1> QED
  BY <1>1, <1>2, PTL DEF PoolSpec, Spec

-----------------------------------------------------------------------------
(* Types *)

SlotType == [listed: BOOLEAN, process: {"none", "alive", "dead"}, ready: BOOLEAN,
             busy: BOOLEAN, disabled: BOOLEAN, flapping: BOOLEAN, starting: BOOLEAN]
JobPcs == {"none", "run", "begin", "writing", "astray", "exchange", "orphaned", "deserted",
           "succeeded", "broke", "completed", "failed", "respawn", "stop", "stop for good", "start", "starting",
           "leave"}
JobType == [kind: {"none", "cold", "warm"}, slot: Slots \cup {NoSlot}, pc: JobPcs]
LoopPcs == {"idle", "scan", "reserve", "fetch", "release", "check", "take", "count"}
LoopType == [pc: LoopPcs, slot: Slots \cup {NoSlot}, task: Ids \cup {NoId}]

SlotTable == [Slots -> SlotType]
JobTable == [Ids -> JobType]

LEMMA PoolTypes ==
  PoolTypeOK <=> /\ loop \in LoopType /\ active \in Int /\ spaced \in BOOLEAN
                 /\ booted \in 0..WarmCount /\ slot \in SlotTable
                 /\ job \in JobTable /\ reported \subseteq Ids
BY DEF PoolTypeOK, LoopType, LoopPcs, SlotType, JobType, JobPcs, SlotTable, JobTable

LEMMA PoolTypes2 ==
  ASSUME loop' \in LoopType, active' \in Int, spaced' \in BOOLEAN, booted' \in 0..WarmCount,
         slot' \in SlotTable, job' \in JobTable, reported' \subseteq Ids
  PROVE  PoolTypeOK'
BY DEF PoolTypeOK, LoopType, LoopPcs, SlotType, JobType, JobPcs, SlotTable, JobTable

LEMMA GotoType ==
  ASSUME NEW pc \in LoopPcs, NEW w \in Slots \cup {NoSlot}, NEW i \in Ids \cup {NoId}
  PROVE  AtPc(pc, w, i) \in LoopType
BY DEF AtPc, LoopType

(* What the steps make of the slots. *)
LEMMA SlotTypes ==
  ASSUME slot \in SlotTable, NEW w
  PROVE  /\ [slot EXCEPT ![w].busy = TRUE] \in SlotTable
         /\ [slot EXCEPT ![w].busy = FALSE] \in SlotTable
         /\ [slot EXCEPT ![w].disabled = TRUE] \in SlotTable
         /\ [slot EXCEPT ![w].flapping = TRUE] \in SlotTable
         /\ [slot EXCEPT ![w].flapping = FALSE] \in SlotTable
         /\ [slot EXCEPT ![w].starting = TRUE] \in SlotTable
         /\ [slot EXCEPT ![w].process = "dead"] \in SlotTable
         /\ [slot EXCEPT ![w].process = "none", ![w].ready = FALSE, ![w].busy = FALSE]
              \in SlotTable
         /\ [slot EXCEPT ![w].starting = FALSE, ![w].ready = TRUE, ![w].process = "alive"]
              \in SlotTable
         /\ [slot EXCEPT ![w].starting = FALSE, ![w].ready = FALSE, ![w].busy = FALSE,
                         ![w].process = "none"] \in SlotTable
         /\ [slot EXCEPT ![w] = [NewSlot EXCEPT !.listed = TRUE, !.ready = TRUE,
                                                !.process = "alive"]] \in SlotTable
<1>1. CASE w \in Slots
  <2>1. slot[w] \in SlotType
    BY <1>1 DEF SlotTable
  <2> QED
    BY <1>1, <2>1 DEF SlotTable, SlotType, NewSlot
<1>2. CASE w \notin Slots
  BY <1>2 DEF SlotTable, SlotType, NewSlot
<1> QED
  BY <1>1, <1>2

LEMMA JobTypes ==
  ASSUME NEW jobs \in JobTable, NEW i, NEW w, NEW pc \in JobPcs
  PROVE  /\ [jobs EXCEPT ![i].pc = pc] \in JobTable
         /\ CutOff(w, jobs, Killed) \in JobTable /\ CutOff(w, jobs, Replaced) \in JobTable
         /\ \A j \in JobType : [jobs EXCEPT ![i] = j] \in JobTable
<1>1. ASSUME NEW to \in {Killed, Replaced}, NEW from \in Attached PROVE to[from] \in JobPcs
  <2>1. to.writing \in {"broke", "astray"} /\ to.exchange \in {"broke", "orphaned"}
    BY DEF Killed, Replaced
  <2>2. to[from] \in {"broke", "astray", "orphaned"}
    BY <2>1 DEF Attached
  <2> QED
    BY <2>2 DEF JobPcs
<1>2. ASSUME NEW to \in {Killed, Replaced} PROVE CutOff(w, jobs, to) \in JobTable
  BY <1>1 DEF JobTable, JobType, CutOff
<1> QED
  BY <1>2 DEF JobTable, JobType

LEMMA PoolTypeStep == TypeOK /\ PoolTypeOK /\ LoopShape /\ [PoolNext]_allVars => PoolTypeOK'
<1> SUFFICES ASSUME TypeOK, PoolTypeOK, LoopShape, [PoolNext]_allVars PROVE PoolTypeOK'
  OBVIOUS
<1> USE DEF pool
<1>t. /\ loop \in LoopType /\ active \in Int /\ spaced \in BOOLEAN
      /\ booted \in 0..WarmCount /\ slot \in SlotTable
      /\ job \in JobTable /\ reported \subseteq Ids
  BY PoolTypes
<1>l. loop.slot \in Slots \cup {NoSlot} /\ loop.task \in Ids \cup {NoId}
  BY <1>t DEF LoopType
<1>c. WarmCount \in Nat /\ MaxWorkers \in Nat /\ RateLimited \in BOOLEAN
  BY PoolAssumption
<1>i. Idle \in LoopType
  BY GotoType DEF Idle, LoopPcs
<1>n. NoJob \in JobType /\ ColdJob \in JobType
      /\ \A w \in Slots \cup {NoSlot} : WarmJob(w) \in JobType
  BY DEF NoJob, ColdJob, WarmJob, JobType, JobPcs
(* Steps that move the loop, and steps that move a job and perhaps a slot. *)
<1>1. ASSUME NEW pc \in LoopPcs, NEW w \in Slots \cup {NoSlot}, NEW i \in Ids \cup {NoId},
             Goto(pc, w, i) \/ loop' = Idle,
             active' \in Int, spaced' \in BOOLEAN, slot' \in SlotTable,
             job' \in JobTable, UNCHANGED <<booted, reported>>
      PROVE  PoolTypeOK'
  <2>1. loop' \in LoopType
    BY <1>1, <1>i, GotoType DEF Goto
  <2> QED
    BY <1>1, <1>t, <2>1, PoolTypes2
<1>2. ASSUME UNCHANGED <<loop, booted, spaced>>, active' \in Int, slot' \in SlotTable,
             job' \in JobTable, reported' \subseteq Ids
      PROVE  PoolTypeOK'
  BY <1>2, <1>t, PoolTypes2
<1>3. CASE TickFires
  <2>1. \/ Goto("check", NoSlot, NoId)
        \/ 1 \in Slots /\ Goto("scan", 1, NoId)
    BY <1>3, <1>c DEF TickFires, Slots
  <2> QED
    BY <1>1, <1>3, <1>t, <2>1 DEF TickFires, LoopPcs
<1>4. ASSUME NEW w \in Slots \cup {NoSlot}, ScanNext(w)
      PROVE  \/ Goto("check", NoSlot, NoId)
             \/ w + 1 \in Slots /\ Goto("scan", w + 1, NoId)
  BY <1>4, <1>c DEF ScanNext, Slots, NoSlot
<1>5. CASE ScanSlot
  <2>1. ScanNext(loop.slot) \/ Goto("reserve", loop.slot, NoId)
    BY <1>5 DEF ScanSlot
  <2> QED
    BY <1>1, <1>4, <1>5, <1>t, <1>l, <2>1 DEF ScanSlot, LoopPcs
<1>6. CASE Reserve
  <2>1. \/ ScanNext(loop.slot) /\ slot' = slot
        \/ Goto("fetch", loop.slot, NoId) /\ slot' = [slot EXCEPT ![loop.slot].busy = TRUE]
    BY <1>6 DEF Reserve
  <2>2. slot' \in SlotTable
    BY <1>t, <2>1, SlotTypes
  <2> QED
    BY <1>1, <1>4, <1>6, <1>t, <1>l, <2>1, <2>2 DEF Reserve, LoopPcs
<1>7. ASSUME NEW i \in Ids, NEW o, DispatchWarm(i, o) PROVE PoolTypeOK'
  <2>1. /\ Goto("release", loop.slot, NoId) \/ Goto("scan", 1, NoId)
        /\ job' \in {job, [job EXCEPT ![i] = WarmJob(loop.slot)]}
        /\ UNCHANGED <<active, spaced, slot, booted, reported>>
    BY <1>7 DEF DispatchWarm
  <2>2. job' \in JobTable
    BY <1>t, <1>l, <1>n, <2>1 DEF JobTable
  <2>3. loop' \in LoopType
    <3>1. CASE Goto("release", loop.slot, NoId)
      BY <1>l, <3>1, GotoType DEF Goto, LoopPcs
    <3>2. CASE Goto("scan", 1, NoId) /\ 1 \in Slots
      BY <3>2, GotoType DEF Goto, LoopPcs
    <3>3. 1 \in Slots
      BY <1>7, <1>c DEF DispatchWarm, LoopShape, Slots
    <3> QED
      BY <2>1, <3>1, <3>2, <3>3
  <2> QED
    BY <1>t, <2>1, <2>2, <2>3, PoolTypes2
<1>8. CASE NoWarmTask
  BY <1>1, <1>8, <1>t, <1>l DEF NoWarmTask, LoopPcs
<1>9. CASE GiveBack
  <2>1. slot' \in SlotTable
    BY <1>9, <1>t, SlotTypes DEF GiveBack
  <2> QED
    BY <1>1, <1>9, <1>t, <2>1 DEF GiveBack, LoopPcs
<1>10. CASE CheckCapacity \/ NothingToTake
  BY <1>1, <1>10, <1>t DEF CheckCapacity, NothingToTake, LoopPcs
<1>11. ASSUME NEW i \in Ids, NEW o, TakeCold(i, o) PROVE PoolTypeOK'
  BY <1>1, <1>11, <1>t DEF TakeCold, LoopPcs
<1>12. CASE DispatchCold
  <2>1. job' \in JobTable
    BY <1>12, <1>t, <1>n, JobTypes DEF DispatchCold, JobPcs
  <2>2. active' \in Int /\ spaced' \in BOOLEAN
    BY <1>12, <1>t, <1>c DEF DispatchCold
  <2> QED
    BY <1>1, <1>12, <1>t, <2>1, <2>2 DEF DispatchCold, LoopPcs
<1>13. ASSUME NEW i \in Ids, JobStep(i) PROVE PoolTypeOK'
  <2>1. ASSUME NEW o, NEW st \in {"completed", "failed"}, RecordOutcome(i, st, o)
        PROVE  PoolTypeOK'
    <3>1. job' \in JobTable
      BY <1>t, <2>1, JobTypes DEF RecordOutcome, JobPc, JobPcs
    <3> QED
      BY <1>2, <1>t, <2>1, <3>1 DEF RecordOutcome
  <2>2. ASSUME AfterReport(i) PROVE job' \in JobTable
    BY <1>t, <2>2, JobTypes DEF AfterReport, JobPc, JobPcs
  <2>3. ASSUME NEW o, Report(i, o) PROVE PoolTypeOK'
    BY <1>2, <1>t, <2>2, <2>3 DEF Report
  <2>4. CASE SkipReport(i)
    BY <1>2, <1>t, <2>2, <2>4 DEF SkipReport
  <2>5. CASE LeaveCold(i)
    <3>1. job' \in JobTable
      BY <1>t, <1>n, <2>5, JobTypes DEF LeaveCold, JobPcs
    <3> QED
      BY <1>2, <1>t, <2>5, <3>1 DEF LeaveCold
  <2>6. CASE LeaveWarm(i)
    <3>1. job' \in JobTable
      BY <1>t, <1>n, <2>6, JobTypes DEF LeaveWarm, JobPcs
    <3>2. slot' \in SlotTable
      BY <1>t, <2>6, SlotTypes DEF LeaveWarm
    <3> QED
      BY <1>2, <1>t, <2>6, <3>1, <3>2 DEF LeaveWarm
  <2>7. CASE BeginExchange(i)
    <3>1. job' \in JobTable
      BY <1>t, <2>7, JobTypes DEF BeginExchange, JobPc, JobPcs
    <3> QED
      BY <1>2, <1>t, <2>7, <3>1 DEF BeginExchange
  <2>8. ASSUME NEW w, NEW jobs \in JobTable, Kill(w, jobs),
               UNCHANGED <<loop, active, spaced, booted, reported>>
        PROVE  PoolTypeOK'
    <3>1. job' \in JobTable
      BY <2>8, JobTypes DEF Kill, JobPcs
    <3>2. slot' \in SlotTable
      BY <1>t, <2>8, SlotTypes DEF Kill
    <3> QED
      BY <1>2, <1>t, <2>8, <3>1, <3>2
  <2>9. CASE ExchangeTimesOut(i)
    <3> DEFINE jobs == [job EXCEPT ![i].pc = IF job[i].pc = "orphaned" THEN "deserted"
                                             ELSE "exchange"]
    <3>1. jobs \in JobTable
      BY <1>t, JobTypes DEF JobPcs
    <3>2. Kill(job[i].slot, jobs) /\ UNCHANGED <<loop, active, spaced, booted, reported>>
      BY <2>9 DEF ExchangeTimesOut
    <3> HIDE DEF jobs
    <3> QED
      BY <2>8, <3>1, <3>2
  <2>10. CASE RecordRespawnAttempt(i)
    <3>1. PICK pc \in JobPcs : JobPc(i, pc)
      BY <2>10 DEF RecordRespawnAttempt, JobPcs
    <3>2. job' \in JobTable
      BY <1>t, <3>1, JobTypes DEF JobPc
    <3>3. slot' \in SlotTable
      BY <1>t, <2>10, SlotTypes DEF RecordRespawnAttempt
    <3> QED
      BY <1>2, <1>t, <2>10, <3>2, <3>3 DEF RecordRespawnAttempt
  <2>11. CASE Stop(i)
    <3> DEFINE jobs == [job EXCEPT ![i].pc = IF job[i].pc = "stop" THEN "start" ELSE "leave"]
    <3>1. jobs \in JobTable
      BY <1>t, JobTypes DEF JobPcs
    <3>2. Kill(job[i].slot, jobs) /\ UNCHANGED <<loop, active, spaced, booted, reported>>
      BY <2>11 DEF Stop
    <3> HIDE DEF jobs
    <3> QED
      BY <2>8, <3>1, <3>2
  <2>12. CASE BeginStart(i)
    <3>1. [job EXCEPT ![i].pc = "starting"] \in JobTable
      BY <1>t, JobTypes DEF JobPcs
    <3>2. CutOff(job[i].slot, [job EXCEPT ![i].pc = "starting"], Replaced) \in JobTable
      BY <3>1, JobTypes DEF JobPcs
    <3>3. [job EXCEPT ![i].pc = "leave"] \in JobTable
      BY <1>t, JobTypes DEF JobPcs
    <3>4. slot' \in SlotTable
      BY <1>t, <2>12, SlotTypes DEF BeginStart
    <3> QED
      BY <1>2, <1>t, <2>12, <3>2, <3>3, <3>4 DEF BeginStart, JobPc
  <2> QED
    BY <1>13, <2>1, <2>3, <2>4, <2>5, <2>6, <2>7, <2>9, <2>10, <2>11, <2>12 DEF JobStep
<1>14. ASSUME NEW i \in Ids, WriteEnds(i) \/ Answer(i) \/ StreamEnds(i) PROVE PoolTypeOK'
  <2>1. PICK pc \in {"exchange", "orphaned", "succeeded", "broke"} : JobPc(i, pc)
    BY <1>14 DEF WriteEnds, Answer, StreamEnds
  <2>2. job' \in JobTable
    BY <1>t, <2>1, JobTypes DEF JobPc, JobPcs
  <2> QED
    BY <1>2, <1>t, <1>14, <2>2 DEF WriteEnds, Answer, StreamEnds
<1>15. ASSUME NEW i \in Ids, EndStart(i) PROVE PoolTypeOK'
  <2>1. job' \in JobTable
    BY <1>t, <1>15, JobTypes DEF EndStart, JobPc, JobPcs
  <2>2. slot' \in SlotTable
    BY <1>t, <1>15, SlotTypes DEF EndStart
  <2> QED
    BY <1>2, <1>t, <1>15, <2>1, <2>2 DEF EndStart
<1>16. ASSUME NEW w \in Slots, ProcessDies(w) \/ FlapWindowPasses(w) PROVE PoolTypeOK'
  <2>1. slot' \in SlotTable
    BY <1>t, <1>16, SlotTypes DEF ProcessDies, FlapWindowPasses
  <2> QED
    BY <1>2, <1>t, <1>16, <2>1 DEF ProcessDies, FlapWindowPasses
<1>17. CASE StartWarm
  <2>1. slot' \in SlotTable
    BY <1>t, <1>17, SlotTypes DEF StartWarm
  <2>2. booted' \in 0..WarmCount
    BY <1>t, <1>c, <1>17 DEF StartWarm
  <2> QED
    BY <1>t, <1>17, <2>1, <2>2, PoolTypes2 DEF StartWarm
<1>18. CASE SpawnIntervalPasses
  BY <1>t, <1>18, PoolTypes2 DEF SpawnIntervalPasses
<1>19. CASE PoolCrash
  <2>1. job' \in JobTable
    BY <1>19, <1>n DEF PoolCrash, JobTable
  <2>2. slot' \in SlotTable /\ booted' \in 0..WarmCount
    BY <1>19, <1>c DEF PoolCrash, NewSlot, SlotType, SlotTable
  <2> QED
    BY <1>t, <1>i, <1>19, <2>1, <2>2, PoolTypes2 DEF PoolCrash
<1>20. CASE UNCHANGED pool
  BY <1>t, <1>20, PoolTypes2
<1> QED
  BY <1>3, <1>5, <1>6, <1>7, <1>8, <1>9, <1>10, <1>11, <1>12, <1>13, <1>14, <1>15, <1>16,
     <1>17, <1>18, <1>19, <1>20 DEF PoolNext, LoopStep, Around, allVars

-----------------------------------------------------------------------------
(* Where the loop and the dispatchers are *)

(* What the pool needs to know of the steps of the queue. *)
LEMMA HandOutEffect ==
  ASSUME TypeOK, NEW i \in Ids, NEW o, HandOut(i, o), mem[i].status = "queued"
  PROVE  /\ up /\ up' = up /\ submitted' = submitted
         /\ \A j \in Ids : mem'[j].status = "queued" => mem[j].status = "queued"
         /\ o = "ok" => mem'[i].status = "running" /\ stage' = [stage EXCEPT ![i] = "working"]
         /\ o # "ok" => stage' = stage
<1>1. mem' = IF o = "ok" THEN Started(i) ELSE mem
  BY DEF HandOut, FlushOrRollBack
<1> QED
  BY <1>1, ImageStatus DEF HandOut, clients

LEMMA FinishEffect ==
  ASSUME TypeOK, NEW i \in Ids, NEW st \in {"completed", "failed"}, NEW o, Finish(i, st, o)
  PROVE  /\ up' = up /\ submitted' = submitted
         /\ \A j \in Ids : mem'[j].status = "queued" => mem[j].status = "queued"
         /\ stage[i] = "working" /\ stage' = [stage EXCEPT ![i] = "reporting"]
<1> DEFINE new == Finished(i, st)
<1>1. \A j \in Ids : new[j].status = IF j = i THEN st ELSE mem[j].status
  BY ImageStatus
<1>2. Settle(i, new, o)
  BY DEF Finish
<1> HIDE DEF new
<1>3. mem' \in {mem, new}
  BY <1>2, FlushEffect DEF Settle, store
<1> QED
  BY <1>1, <1>3 DEF Finish, clients

LEMMA ReportEffect ==
  ASSUME TypeOK, NEW i \in Ids, NEW o, ReportUnmarked(i) \/ ReportDelivered(i, o)
  PROVE  /\ up' = up /\ submitted' = submitted
         /\ \A j \in Ids : mem'[j].status = mem[j].status
         /\ stage[i] = "reporting" /\ stage' = [stage EXCEPT ![i] = "idle"]
BY ImageStatus, FlushEffect DEF ReportUnmarked, ReportDelivered, clients, store

LEMMA AroundEffect ==
  ASSUME TypeOK, NEW o, ClientStep(o) \/ Prune(o) \/ Restart(o)
  PROVE  /\ stage' = stage
         /\ \/ /\ up /\ up' = up /\ submitted' \in {submitted, submitted + 1}
               /\ \A j \in Ids : mem'[j].status = "queued" =>
                                   mem[j].status = "queued" \/ j > submitted
            \/ ~up /\ submitted' = submitted
<1>typ. submitted \in Nat
  BY BoundsAssumption DEF TypeOK
<1>1. ASSUME NEW r \in Requests, Submit(r, o) PROVE mem' \in {mem, Submitted(submitted + 1)}
  BY <1>1, FlushEffect DEF Submit
<1>2. CASE \E r \in Requests : Submit(r, o)
  <2>1. submitted + 1 \in Ids /\ mem' \in {mem, Submitted(submitted + 1)}
    BY <1>1, <1>2, FreshId DEF Submit
  <2>2. \A j \in Ids : mem'[j].status = "queued" => mem[j].status = "queued" \/ j > submitted
    BY <1>typ, <2>1, ImageStatus
  <2> QED
    BY <1>2, <2>2 DEF Submit
<1>3. ASSUME NEW i \in Ids, Cancel(i, o)
      PROVE  \A j \in Ids : mem'[j].status = "queued" => mem[j].status = "queued"
  BY <1>3, ImageStatus, FlushEffect DEF Cancel, Settle, store
<1>4. CASE \E i \in Ids : Cancel(i, o)
  BY <1>3, <1>4 DEF Cancel, clients
<1>5. CASE Prune(o)
  BY <1>5, PrunedStatus, FlushEffect DEF Prune, clients
<1>6. CASE Restart(o)
  BY <1>6 DEF Restart, clients
<1> QED
  BY <1>2, <1>4, <1>5, <1>6 DEF ClientStep

LEMMA CrashEffect ==
  ASSUME CrashStep
  PROVE  ~up' /\ \A i \in Ids : mem'[i].status = "absent" /\ stage'[i] = "idle"
BY GoDownEffect DEF CrashStep, Crash, CrashInSubmit, CrashInUpdate, GoDown

(* The record of nobody, kept folded below. *)
LEMMA NoJobFields == NoJob.kind = "none" /\ NoJob.pc = "none" /\ NoJob.slot = NoSlot
BY DEF NoJob

LEMMA CutOffEffect ==
  ASSUME NEW w, NEW jobs, NEW to \in {Killed, Replaced}, NEW i \in Ids, jobs[i] \in JobType
  PROVE  /\ CutOff(w, jobs, to)[i].kind = jobs[i].kind
         /\ CutOff(w, jobs, to)[i].slot = jobs[i].slot
         /\ CutOff(w, jobs, to)[i] = jobs[i] \/
              (/\ jobs[i].slot = w /\ jobs[i].pc \in Attached
               /\ CutOff(w, jobs, to)[i].pc \in {"broke", "astray", "orphaned"})
         /\ jobs[i].slot = w => CutOff(w, jobs, to)[i].pc \notin Attached
         /\ jobs[i].pc \notin Attached => CutOff(w, jobs, to)[i] = jobs[i]
<1>1. to.writing \in {"broke", "astray"} /\ to.exchange \in {"broke", "orphaned"}
  BY DEF Killed, Replaced
<1>2. /\ CutOff(w, jobs, to)[i] = IF jobs[i].slot = w /\ jobs[i].pc \in Attached
                                   THEN [jobs[i] EXCEPT !.pc = to[jobs[i].pc]] ELSE jobs[i]
  BY DEF CutOff
<1>3. jobs[i].pc \in Attached => to[jobs[i].pc] \in {"broke", "astray", "orphaned"}
  BY <1>1 DEF Attached
<1> QED
  BY <1>2, <1>3 DEF JobType, Attached

LEMMA ShapeInit == PoolInit => ShapeInv
BY BoundsAssumption DEF PoolInit, Init, ShapeInv, LoopShape, JobShape, StageShape,
  FreeWhenQueued, NobodyHas, LoopHolds, Idle, AtPc, NoJob, Recording

LEMMA ShapeStep ==
  TypeOK /\ QueueInv /\ PoolTypeOK /\ ShapeInv /\ [PoolNext]_allVars => ShapeInv'
<1> SUFFICES ASSUME TypeOK, QueueInv, PoolTypeOK, ShapeInv, [PoolNext]_allVars PROVE ShapeInv'
  OBVIOUS
<1> USE DEF pool
<1>t. /\ loop \in LoopType /\ job \in JobTable /\ stage \in [Ids -> {"idle", "working", "reporting"}]
      /\ \A i \in Ids : job[i] \in JobType /\ i \in Int
      /\ submitted \in Int
  BY PoolTypes, BoundsAssumption DEF TypeOK, JobTable, Ids
<1>inv. LoopShape /\ JobShape /\ StageShape /\ FreeWhenQueued
  BY DEF ShapeInv
<1>q. \A i \in Ids : /\ stage[i] # "idle" => mem[i].status # "queued"
                     /\ i > submitted => mem[i].status = "absent" /\ stage[i] = "idle"
  BY DEF QueueInv, InFlightNotQueued, FreshIsUnknown
<1>up. ASSUME NEW i \in Ids, job[i] # NoJob PROVE up
  BY <1>inv, <1>up DEF FreeWhenQueued
(* Dispatchers of warm tasks that go on, the queue standing still. *)
<1>1. ASSUME UNCHANGED <<vars, loop>>,
             \A j \in Ids : job'[j] = job[j] \/
               /\ job[j].kind = "warm" /\ job'[j].kind = "warm" /\ job'[j].slot = job[j].slot
               /\ job'[j].pc \notin {"none", "run"}
               /\ job[j].pc \in Recording <=> job'[j].pc \in Recording
               /\ job[j].pc \in {"completed", "failed"} <=> job'[j].pc \in {"completed", "failed"}
      PROVE  ShapeInv'
  <2>1. \A j \in Ids : job[j] = NoJob => job'[j] = NoJob
    BY <1>1, NoJobFields
  <2>2. LoopShape'
    BY <1>1, <1>inv, <2>1 DEF LoopShape
  <2>3. JobShape'
    BY <1>1, <1>inv, <2>1, NoJobFields DEF JobShape
  <2>4. StageShape'
    BY <1>1, <1>inv DEF StageShape, LoopHolds, vars
  <2>5. FreeWhenQueued'
    BY <1>1, <1>inv, <2>1 DEF FreeWhenQueued, NobodyHas, LoopHolds, vars
  <2> QED
    BY <2>2, <2>3, <2>4, <2>5 DEF ShapeInv
(* The loop going on with no task in its hands. *)
<1>2. ASSUME UNCHANGED <<vars, job>>, loop.pc # "count", loop'.pc # "count",
             loop'.pc \in {"scan", "reserve", "fetch", "release"} => loop'.slot \in Slots,
             loop.pc # "idle" \/ up
      PROVE  ShapeInv'
  <2>1. up
    BY <1>2, <1>inv DEF FreeWhenQueued
  <2> QED
    BY <1>2, <1>inv, <2>1 DEF ShapeInv, LoopShape, JobShape, StageShape, FreeWhenQueued, NobodyHas,
      LoopHolds, vars
<1>3. ASSUME NEW w \in Slots, ScanNext(w)
      PROVE  /\ loop'.pc \in {"check", "scan"}
             /\ loop'.pc = "scan" => loop'.slot \in Slots
  BY <1>3, PoolAssumption DEF ScanNext, Goto, AtPc, Slots
<1>4. CASE TickFires
  BY <1>2, <1>4, PoolAssumption DEF TickFires, Goto, AtPc, Slots
<1>5. CASE ScanSlot
  <2>1. loop.slot \in Slots /\ loop.pc = "scan" /\ UNCHANGED <<vars, job>>
    BY <1>5, <1>inv DEF ScanSlot, LoopShape
  <2>2. ScanNext(loop.slot) \/ Goto("reserve", loop.slot, NoId)
    BY <1>5 DEF ScanSlot
  <2> QED
    BY <1>2, <1>3, <2>1, <2>2 DEF Goto, AtPc
<1>6. CASE Reserve
  <2>1. loop.slot \in Slots /\ loop.pc = "reserve" /\ UNCHANGED <<vars, job>>
    BY <1>6, <1>inv DEF Reserve, LoopShape
  <2>2. ScanNext(loop.slot) \/ Goto("fetch", loop.slot, NoId)
    BY <1>6 DEF Reserve
  <2> QED
    BY <1>2, <1>3, <2>1, <2>2 DEF Goto, AtPc
<1>7. CASE NoWarmTask \/ GiveBack \/ CheckCapacity \/ NothingToTake
  BY <1>2, <1>7, <1>inv
  DEF NoWarmTask, GiveBack, CheckCapacity, NothingToTake, Goto, AtPc, Idle, LoopShape
(* The loop takes a task: nobody had it, and the queue has it no longer. *)
<1>8. ASSUME NEW i \in Ids, NEW o, HandOut(i, o), mem[i].status = "queued", loop.pc # "count",
             o # "ok" => job' = job /\ loop'.pc # "count",
             o = "ok" =>
               \/ loop'.pc = "count" /\ loop'.task = i /\ job' = job
               \/ /\ loop'.pc # "count"
                  /\ \E w \in Slots : job' = [job EXCEPT ![i] = WarmJob(w)],
             loop'.pc \in {"scan", "reserve", "fetch", "release"} => loop'.slot \in Slots
      PROVE  ShapeInv'
  <2>1. /\ up /\ up' = up /\ submitted' = submitted
        /\ \A j \in Ids : mem'[j].status = "queued" => mem[j].status = "queued"
        /\ o = "ok" => mem'[i].status = "running" /\ stage' = [stage EXCEPT ![i] = "working"]
        /\ o # "ok" => stage' = stage
    BY <1>8, HandOutEffect
  <2>2. job[i] = NoJob /\ stage[i] = "idle" /\ ~(i > submitted)
    BY <1>8, <1>inv, <1>q DEF FreeWhenQueued, NobodyHas, StageShape
  <2>3. \A j \in Ids : ~LoopHolds(j) /\ (LoopHolds(j)' => j = i /\ o = "ok")
    BY <1>8 DEF LoopHolds
  <2>4. \A j \in Ids : j # i => job'[j] = job[j] /\ stage'[j] = stage[j]
    BY <1>8, <1>t, <2>1 DEF JobTable
  <2>5. CASE o # "ok"
    <3>1. job' = job /\ stage' = stage /\ \A j \in Ids : ~LoopHolds(j)'
      BY <1>8, <2>1, <2>3, <2>5
    <3> QED
      BY <1>8, <1>inv, <2>1, <2>3, <2>5, <3>1
      DEF ShapeInv, LoopShape, JobShape, StageShape, FreeWhenQueued, NobodyHas
  <2>6. CASE o = "ok" /\ loop'.pc = "count" /\ loop'.task = i /\ job' = job
    <3>1. LoopShape' /\ JobShape'
      BY <1>8, <1>inv, <2>2, <2>6 DEF LoopShape, JobShape
    <3>2. StageShape'
      <4>1. stage'[i] = "working" /\ LoopHolds(i)'
        BY <1>t, <2>1, <2>6 DEF LoopHolds
      <4>2. \A j \in Ids : j # i => ~LoopHolds(j)' /\ stage'[j] = stage[j]
        BY <2>3, <2>4
      <4>3. job'[i].pc \notin {"completed", "failed"}
        BY <2>2, <2>6, NoJobFields
      <4> QED
        BY <1>inv, <2>3, <2>6, <4>1, <4>2, <4>3 DEF StageShape
    <3>3. FreeWhenQueued'
      BY <1>inv, <2>1, <2>2, <2>3, <2>6 DEF FreeWhenQueued, NobodyHas
    <3> QED
      BY <3>1, <3>2, <3>3 DEF ShapeInv
  <2>7. ASSUME o = "ok", loop'.pc # "count", NEW w \in Slots, job' = [job EXCEPT ![i] = WarmJob(w)]
        PROVE  ShapeInv'
    <3>1. job'[i] = WarmJob(w) /\ stage'[i] = "working" /\ \A j \in Ids : ~LoopHolds(j)'
      BY <1>t, <2>1, <2>7 DEF JobTable, LoopHolds
    <3>2. LoopShape' /\ JobShape'
      BY <1>8, <1>inv, <2>4, <2>7, <3>1 DEF LoopShape, JobShape, WarmJob
    <3>3. StageShape'
      BY <1>inv, <2>3, <2>4, <3>1 DEF StageShape, WarmJob, Recording
    <3>4. FreeWhenQueued'
      BY <1>inv, <2>1, <2>2, <2>4, <3>1 DEF FreeWhenQueued, NobodyHas
    <3> QED
      BY <3>2, <3>3, <3>4 DEF ShapeInv
  <2> QED
    BY <1>8, <2>5, <2>6, <2>7
<1>9. ASSUME NEW i \in Ids, NEW o, DispatchWarm(i, o) PROVE ShapeInv'
  <2>1. HandOut(i, o) /\ mem[i].status = "queued" /\ loop.pc = "fetch" /\ loop.slot \in Slots
    BY <1>9, <1>inv DEF DispatchWarm, NextWarm, IsBest, WarmQueued, Queued, LoopShape
  <2>2. 1 \in Slots
    BY <2>1, PoolAssumption DEF Slots
  <2> QED
    BY <1>8, <1>9, <2>1, <2>2 DEF DispatchWarm, Goto, AtPc
<1>10. ASSUME NEW i \in Ids, NEW o, TakeCold(i, o) PROVE ShapeInv'
  <2>1. HandOut(i, o) /\ mem[i].status = "queued" /\ loop.pc = "take"
    BY <1>10 DEF TakeCold, NextCold, IsBest, Queued
  <2> QED
    BY <1>8, <1>10, <2>1 DEF TakeCold, Goto, AtPc, Idle
<1>11. CASE DispatchCold
  <2> DEFINE i == loop.task
  <2>1. /\ i \in Ids /\ job[i] = NoJob /\ LoopHolds(i) /\ loop.pc = "count"
        /\ job' = [job EXCEPT ![i] = ColdJob] /\ loop'.pc = "check" /\ UNCHANGED vars
    BY <1>11, <1>inv DEF DispatchCold, LoopShape, LoopHolds, Goto, AtPc
  <2>2. /\ job'[i] = ColdJob
        /\ \A j \in Ids : j # i => job'[j] = job[j] /\ ~LoopHolds(j)
        /\ \A j \in Ids : ~LoopHolds(j)'
    BY <1>t, <2>1 DEF JobTable, LoopHolds
  <2>3. up /\ mem[i].status # "queued" /\ ~(i > submitted)
    BY <1>inv, <2>1 DEF FreeWhenQueued, NobodyHas
  <2>4. LoopShape' /\ JobShape'
    BY <1>inv, <2>1, <2>2 DEF LoopShape, JobShape, ColdJob
  <2>5. StageShape'
    BY <1>inv, <2>1, <2>2 DEF StageShape, ColdJob, Recording, vars
  <2>6. FreeWhenQueued'
    BY <1>inv, <2>1, <2>2, <2>3 DEF FreeWhenQueued, NobodyHas, vars
  <2> QED
    BY <2>4, <2>5, <2>6 DEF ShapeInv
(* A dispatcher at one point of its work: what it says of loop and queue. *)
<1>12. ASSUME NEW i \in Ids, job[i].pc # "none"
       PROVE  up /\ job[i] # NoJob /\ ~LoopHolds(i) /\ mem[i].status # "queued"
              /\ ~(i > submitted)
  <2>1. job[i] # NoJob
    BY <1>12, NoJobFields
  <2> QED
    BY <1>inv, <2>1 DEF FreeWhenQueued, NobodyHas, LoopHolds, LoopShape
<1>13. ASSUME NEW i \in Ids, job[i].pc \notin {"none", "run", "completed", "failed", "leave"}
       PROVE  job[i].kind = "warm"
  BY <1>13, <1>inv, NoJobFields DEF JobShape
<1>14. ASSUME NEW i \in Ids, NEW pc, job[i].kind = "warm",
              job[i].pc \in Recording <=> pc \in Recording,
              job[i].pc \in {"completed", "failed"} <=> pc \in {"completed", "failed"},
              pc \notin {"none", "run"}, UNCHANGED <<vars, loop>>, JobPc(i, pc)
       PROVE  ShapeInv'
  <2>1. \A j \in Ids : j # i => job'[j] = job[j]
    BY <1>14, <1>t DEF JobPc, JobTable
  <2>2. job'[i].kind = "warm" /\ job'[i].slot = job[i].slot /\ job'[i].pc = pc
    BY <1>14, <1>t DEF JobPc, JobTable, JobType
  <2> QED
    BY <1>1, <1>14, <2>1, <2>2
<1>15. CASE \E i \in Ids : BeginExchange(i)
  <2> PICK i \in Ids : BeginExchange(i)
    BY <1>15
  <2>1. PICK pc \in {"writing", "broke"} : JobPc(i, pc)
    BY DEF BeginExchange
  <2>2. job[i].pc = "begin" /\ UNCHANGED <<vars, loop>>
    BY DEF BeginExchange
  <2> QED
    BY <1>13, <1>14, <2>1, <2>2 DEF Recording
<1>16. CASE \E i \in Ids : WriteEnds(i) \/ Answer(i) \/ StreamEnds(i)
  <2> PICK i \in Ids : WriteEnds(i) \/ Answer(i) \/ StreamEnds(i)
    BY <1>16
  <2>1. PICK pc \in {"exchange", "orphaned", "succeeded", "broke"} : JobPc(i, pc)
    BY DEF WriteEnds, Answer, StreamEnds
  <2>2. /\ job[i].pc \in {"writing", "astray", "exchange", "orphaned", "deserted"}
        /\ UNCHANGED <<vars, loop>>
    BY DEF WriteEnds, Answer, StreamEnds
  <2> QED
    BY <1>13, <1>14, <2>1, <2>2 DEF Recording
<1>17. CASE \E i \in Ids : RecordRespawnAttempt(i)
  <2> PICK i \in Ids : RecordRespawnAttempt(i)
    BY <1>17
  <2>1. PICK pc \in {"stop", "stop for good"} : JobPc(i, pc)
    BY DEF RecordRespawnAttempt
  <2>2. job[i].pc = "respawn" /\ UNCHANGED <<vars, loop>>
    BY DEF RecordRespawnAttempt
  <2> QED
    BY <1>13, <1>14, <2>1, <2>2 DEF Recording
<1>18. CASE \E i \in Ids : EndStart(i)
  <2> PICK i \in Ids : EndStart(i)
    BY <1>18
  <2>1. job[i].pc = "starting" /\ JobPc(i, "leave") /\ UNCHANGED <<vars, loop>>
    BY DEF EndStart
  <2> QED
    BY <1>13, <1>14, <2>1 DEF Recording
(* A dispatcher that goes on and cuts off the exchanges of its slot. *)
<1>19. ASSUME NEW i \in Ids, NEW pc, NEW cut \in {Killed, Replaced}, NEW w,
              job[i].kind = "warm",
              job[i].pc \in Recording <=> pc \in Recording,
              job[i].pc \in {"completed", "failed"} <=> pc \in {"completed", "failed"},
              pc \in JobPcs \ {"none", "run"}, UNCHANGED <<vars, loop>>,
              job' = CutOff(w, [job EXCEPT ![i].pc = pc], cut)
       PROVE  ShapeInv'
  <2> DEFINE jobs == [job EXCEPT ![i].pc = pc]
  <2>1. /\ \A j \in Ids : j # i => jobs[j] = job[j]
        /\ jobs[i].kind = "warm" /\ jobs[i].slot = job[i].slot /\ jobs[i].pc = pc
        /\ \A j \in Ids : jobs[j] \in JobType
        /\ job' = CutOff(w, jobs, cut)
    BY <1>19, <1>t, JobTypes DEF JobTable, JobType
  <2> HIDE DEF jobs
  <2>2. ASSUME NEW j \in Ids
        PROVE  /\ job'[j].kind = jobs[j].kind /\ job'[j].slot = jobs[j].slot
               /\ job'[j] = jobs[j] \/
                    (jobs[j].pc \in Attached /\ job'[j].pc \in {"broke", "astray", "orphaned"})
    BY <2>1, CutOffEffect
  <2>3. \A j \in Ids : job[j].pc \in Attached => job[j].kind = "warm"
    BY <1>13 DEF Attached
  <2>4. ASSUME NEW j \in Ids
        PROVE  job'[j] = job[j] \/
               /\ job[j].kind = "warm" /\ job'[j].kind = "warm" /\ job'[j].slot = job[j].slot
               /\ job'[j].pc \notin {"none", "run"}
               /\ job[j].pc \in Recording <=> job'[j].pc \in Recording
               /\ job[j].pc \in {"completed", "failed"} <=> job'[j].pc \in {"completed", "failed"}
    <3>1. CASE j # i /\ job'[j] # job[j]
      <4>1. job[j].pc \in Attached /\ job'[j].pc \in {"broke", "astray", "orphaned"}
        BY <2>1, <2>2, <3>1
      <4>2. job[j].kind = "warm" /\ job'[j].kind = "warm" /\ job'[j].slot = job[j].slot
        BY <2>1, <2>2, <2>3, <3>1, <4>1
      <4> QED
        BY <4>1, <4>2 DEF Recording, Attached
    <3>2. CASE j = i
      BY <1>19, <2>1, <2>2, <3>2 DEF Recording, Attached
    <3> QED
      BY <3>1, <3>2
  <2> QED
    BY <1>1, <1>19, <2>4
<1>20. CASE \E i \in Ids : ExchangeTimesOut(i)
  <2> PICK i \in Ids : ExchangeTimesOut(i)
    BY <1>20
  <2> DEFINE pc == IF job[i].pc = "orphaned" THEN "deserted" ELSE "exchange"
  <2>1. /\ job[i].pc \in {"exchange", "orphaned"} /\ UNCHANGED <<vars, loop>>
        /\ job' = CutOff(job[i].slot, [job EXCEPT ![i].pc = pc], Killed)
    BY DEF ExchangeTimesOut, Kill
  <2>2. pc \in {"exchange", "deserted"}
    OBVIOUS
  <2> HIDE DEF pc
  <2> QED
    BY <1>13, <1>19, <2>1, <2>2 DEF Recording, JobPcs
<1>21. CASE \E i \in Ids : Stop(i)
  <2> PICK i \in Ids : Stop(i)
    BY <1>21
  <2> DEFINE pc == IF job[i].pc = "stop" THEN "start" ELSE "leave"
  <2>1. /\ job[i].pc \in {"stop", "stop for good"} /\ UNCHANGED <<vars, loop>>
        /\ job' = CutOff(job[i].slot, [job EXCEPT ![i].pc = pc], Killed)
    BY DEF Stop, Kill
  <2>2. pc \in {"start", "leave"}
    OBVIOUS
  <2> HIDE DEF pc
  <2> QED
    BY <1>13, <1>19, <2>1, <2>2 DEF Recording, JobPcs
<1>22. CASE \E i \in Ids : BeginStart(i)
  <2> PICK i \in Ids : BeginStart(i)
    BY <1>22
  <2>1. /\ job[i].pc = "start" /\ UNCHANGED <<vars, loop>>
        /\ \/ job' = CutOff(job[i].slot, [job EXCEPT ![i].pc = "starting"], Replaced)
           \/ JobPc(i, "leave")
    BY DEF BeginStart
  <2> QED
    BY <1>13, <1>14, <1>19, <2>1 DEF Recording, JobPcs
(* A dispatcher records the outcome, reports and leaves. *)
<1>23. ASSUME NEW i \in Ids, NEW pc, JobPc(i, pc), loop' = loop, job[i].pc # "none",
              \/ pc \in {"completed", "failed"}
              \/ job[i].kind = "warm" /\ pc = "respawn"
              \/ pc = "leave",
              up' = up, submitted' = submitted,
              \A j \in Ids : mem'[j].status = "queued" => mem[j].status = "queued",
              \A j \in Ids : j # i => stage'[j] = stage[j],
              stage'[i] = IF pc \in {"completed", "failed"} THEN "reporting" ELSE "idle"
       PROVE  ShapeInv'
  <2>1. /\ \A j \in Ids : j # i => job'[j] = job[j]
        /\ job'[i].kind = job[i].kind /\ job'[i].slot = job[i].slot /\ job'[i].pc = pc
    BY <1>23, <1>t DEF JobPc, JobTable, JobType
  <2>2. up /\ job[i] # NoJob /\ ~LoopHolds(i) /\ mem[i].status # "queued" /\ ~(i > submitted)
    BY <1>12, <1>23
  <2>3. LoopShape'
    BY <1>23, <1>inv, <2>1, <2>2 DEF LoopShape
  <2>4. JobShape'
    <3>1. \A j \in Ids : j # i => job'[j] = job[j]
      BY <2>1
    <3>2. CASE job[i].kind = "warm"
      BY <1>23, <1>inv, <2>1, <2>2, <3>2, NoJobFields DEF JobShape
    <3>3. CASE job[i].kind # "warm"
      BY <1>23, <1>inv, <2>1, <2>2, <3>3, NoJobFields DEF JobShape
    <3> QED
      BY <3>2, <3>3
  <2>5. StageShape'
    BY <1>23, <1>inv, <2>1, <2>2 DEF StageShape, LoopHolds, Recording
  <2>6. FreeWhenQueued'
    BY <1>23, <1>inv, <2>1, <2>2 DEF FreeWhenQueued, NobodyHas, LoopHolds
  <2> QED
    BY <2>3, <2>4, <2>5, <2>6 DEF ShapeInv
<1>24. ASSUME NEW i \in Ids, NEW st \in {"completed", "failed"}, NEW o, RecordOutcome(i, st, o)
       PROVE  ShapeInv'
  <2>1. /\ up' = up /\ submitted' = submitted
        /\ \A j \in Ids : mem'[j].status = "queued" => mem[j].status = "queued"
        /\ stage' = [stage EXCEPT ![i] = "reporting"]
    BY <1>24, FinishEffect DEF RecordOutcome
  <2>2. JobPc(i, st) /\ loop' = loop /\ job[i].pc # "none"
    BY <1>24 DEF RecordOutcome, Outcome
  <2>3. stage'[i] = "reporting" /\ \A j \in Ids : j # i => stage'[j] = stage[j]
    BY <1>t, <2>1
  <2> QED
    BY <1>23, <2>1, <2>2, <2>3
<1>25. ASSUME NEW i \in Ids, NEW o, ReportUnmarked(i) \/ ReportDelivered(i, o), AfterReport(i),
              job[i].pc # "none", loop' = loop
       PROVE  ShapeInv'
  <2>1. PICK pc : JobPc(i, pc) /\ (pc = "leave" \/ (job[i].kind = "warm" /\ pc = "respawn"))
    BY <1>25 DEF AfterReport
  <2>2. /\ up' = up /\ submitted' = submitted
        /\ \A j \in Ids : mem'[j].status = "queued" => mem[j].status = "queued"
        /\ stage' = [stage EXCEPT ![i] = "idle"]
    BY <1>25, ReportEffect
  <2>3. stage'[i] = "idle" /\ \A j \in Ids : j # i => stage'[j] = stage[j]
    BY <1>t, <2>2
  <2> QED
    BY <1>23, <1>25, <2>1, <2>2, <2>3
<1>26. ASSUME NEW i \in Ids, NEW o, Report(i, o) \/ SkipReport(i) PROVE ShapeInv'
  BY <1>25, <1>26 DEF Report, SkipReport, Reports
<1>27. ASSUME NEW i \in Ids, LeaveCold(i) \/ LeaveWarm(i) PROVE ShapeInv'
  <2>1. job[i].pc = "leave" /\ job' = [job EXCEPT ![i] = NoJob] /\ UNCHANGED <<vars, loop>>
    BY <1>27 DEF LeaveCold, LeaveWarm
  <2>2. job'[i] = NoJob /\ \A j \in Ids : j # i => job'[j] = job[j]
    BY <1>t, <2>1 DEF JobTable
  <2>3. LoopShape' /\ JobShape'
    BY <1>inv, <2>1, <2>2 DEF LoopShape, JobShape
  <2>4. ~LoopHolds(i)
    BY <1>12, <2>1
  <2>5. StageShape'
    BY <1>inv, <2>1, <2>2, <2>4, NoJobFields DEF StageShape, LoopHolds, Recording, vars
  <2>6. FreeWhenQueued'
    BY <1>inv, <2>1, <2>2, <2>4 DEF FreeWhenQueued, NobodyHas, LoopHolds, vars
  <2> QED
    BY <2>3, <2>5, <2>6 DEF ShapeInv
<1>28. ASSUME NEW o, Around(o) PROVE ShapeInv'
  <2>1. /\ stage' = stage /\ UNCHANGED pool
        /\ \/ /\ up /\ up' = up /\ submitted' \in {submitted, submitted + 1}
              /\ \A j \in Ids : mem'[j].status = "queued" =>
                                  mem[j].status = "queued" \/ j > submitted
           \/ ~up /\ submitted' = submitted
    BY <1>28, AroundEffect DEF Around
  <2>2. LoopShape' /\ JobShape' /\ StageShape'
    BY <1>inv, <2>1 DEF LoopShape, JobShape, StageShape, LoopHolds
  <2>3. \A j \in Ids : j > submitted' => j > submitted
    BY <1>t, <2>1
  <2>4. CASE up
    BY <1>inv, <2>1, <2>2, <2>3, <2>4 DEF ShapeInv, FreeWhenQueued, NobodyHas, LoopHolds
  <2>5. CASE ~up
    <3>1. loop.pc = "idle" /\ \A j \in Ids : job[j] = NoJob
      BY <1>inv, <2>5 DEF FreeWhenQueued
    <3> QED
      BY <2>1, <2>2, <3>1 DEF ShapeInv, FreeWhenQueued, NobodyHas, LoopHolds
  <2> QED
    BY <2>2, <2>4, <2>5 DEF ShapeInv
<1>29. CASE PoolCrash
  <2>1. /\ ~up' /\ \A i \in Ids : mem'[i].status = "absent" /\ stage'[i] = "idle"
        /\ loop'.pc = "idle" /\ \A i \in Ids : job'[i] = NoJob
    BY <1>29, CrashEffect DEF PoolCrash, Idle, AtPc
  <2> QED
    BY <2>1, NoJobFields DEF ShapeInv, LoopShape, JobShape, StageShape, FreeWhenQueued, NobodyHas,
      LoopHolds, Recording
<1>30. CASE UNCHANGED <<vars, loop, job>>
  BY <1>1, <1>30
<1>31. CASE (\E w \in Slots : ProcessDies(w) \/ FlapWindowPasses(w)) \/ StartWarm
            \/ SpawnIntervalPasses
  BY <1>30, <1>31 DEF ProcessDies, FlapWindowPasses, StartWarm, SpawnIntervalPasses
<1>32. CASE LoopStep
  BY <1>4, <1>5, <1>6, <1>7, <1>9, <1>10, <1>11, <1>32 DEF LoopStep
<1>33. CASE \E i \in Ids : JobStep(i)
  BY <1>15, <1>17, <1>20, <1>21, <1>22, <1>24, <1>26, <1>27, <1>33 DEF JobStep
<1> QED
  BY <1>16, <1>18, <1>28, <1>29, <1>30, <1>31, <1>32, <1>33 DEF PoolNext, allVars

-----------------------------------------------------------------------------
(* The steps of one dispatcher that keep its task and its slot *)

GoingOn(i) ==
  \/ \E o \in Outcomes :
       \/ \E st \in {"completed", "failed"} : RecordOutcome(i, st, o)
       \/ Report(i, o)
  \/ SkipReport(i) \/ BeginExchange(i) \/ ExchangeTimesOut(i) \/ RecordRespawnAttempt(i)
  \/ Stop(i) \/ BeginStart(i) \/ WriteEnds(i) \/ Answer(i) \/ StreamEnds(i) \/ EndStart(i)

(* The end of a handshake: the slot is ready with a process, or given up.    *)
LEMMA EndStartEffect ==
  ASSUME slot \in SlotTable, NEW i \in Ids, EndStart(i), NEW v \in Slots
  PROVE  /\ v # job[i].slot => slot'[v] = slot[v]
         /\ slot'[v].busy => slot[v].busy
         /\ slot'[v].listed = slot[v].listed
         /\ v = job[i].slot => (slot'[v].ready => slot'[v].process # "none")
<1> DEFINE old == slot[v]
           ready == [old EXCEPT !.starting = FALSE, !.ready = TRUE, !.process = "alive"]
           down == [old EXCEPT !.starting = FALSE, !.ready = FALSE, !.busy = FALSE, !.process = "none"]
<1>1. old \in SlotType
  BY DEF SlotTable
<1>2. \/ slot'[v] = (IF v = job[i].slot THEN ready ELSE old)
      \/ slot'[v] = (IF v = job[i].slot THEN down ELSE old)
  <2>1. slot \in [Slots -> SlotType]
    BY DEF SlotTable
  <2>2. \/ slot' = [slot EXCEPT ![job[i].slot].starting = FALSE, ![job[i].slot].ready = TRUE,
                                ![job[i].slot].process = "alive"]
        \/ slot' = [slot EXCEPT ![job[i].slot].starting = FALSE, ![job[i].slot].ready = FALSE,
                                ![job[i].slot].busy = FALSE, ![job[i].slot].process = "none"]
    BY DEF EndStart
  <2> QED
    BY <2>1, <2>2
<1>3. /\ ready.busy = old.busy /\ ready.listed = old.listed /\ ready.process = "alive"
      /\ ~down.busy /\ down.listed = old.listed /\ ~down.ready
  BY <1>1 DEF SlotType
<1> HIDE DEF ready, down
<1> QED
  BY <1>2, <1>3

LEMMA GoingOnKeeps ==
  ASSUME PoolTypeOK, NEW i \in Ids, GoingOn(i)
  PROVE  /\ \A j \in Ids : job'[j].kind = job[j].kind /\ job'[j].slot = job[j].slot
         /\ \A w \in Slots : slot'[w].busy => slot[w].busy
         /\ \A w \in Slots : slot'[w].listed = slot[w].listed
         /\ UNCHANGED <<loop, active, booted>>
<1>t. slot \in SlotTable /\ job \in JobTable
  BY PoolTypes
<1> DEFINE Kept == \A j \in Ids : job'[j].kind = job[j].kind /\ job'[j].slot = job[j].slot
           Freed == \A w \in Slots : /\ slot'[w].busy => slot[w].busy
                                     /\ slot'[w].listed = slot[w].listed
<1>1. ASSUME NEW pc, JobPc(i, pc) PROVE Kept
  BY <1>1, <1>t DEF JobPc, JobTable, JobType
<1>2. ASSUME NEW pc \in JobPcs, NEW w, NEW cut \in {Killed, Replaced}, job' = CutOff(w, [job EXCEPT ![i].pc = pc], cut)
      PROVE  Kept
  <2> DEFINE jobs == [job EXCEPT ![i].pc = pc]
  <2>1. \A j \in Ids : jobs[j] \in JobType /\ jobs[j].kind = job[j].kind /\ jobs[j].slot = job[j].slot
    BY <1>t, JobTypes DEF JobTable, JobType
  <2>2. job' = CutOff(w, jobs, cut)
    BY <1>2
  <2> HIDE DEF jobs
  <2> QED
    BY <2>1, <2>2, CutOffEffect
<1>3. ASSUME NEW w, NEW jobs, Kill(w, jobs) PROVE Freed
  BY <1>3, <1>t DEF Kill, SlotTable, SlotType
<1>4. ASSUME slot' = slot PROVE Freed
  BY <1>4
<1>5. CASE \E o \in Outcomes, st \in {"completed", "failed"} : RecordOutcome(i, st, o)
  BY <1>1, <1>4, <1>5 DEF RecordOutcome
<1>6. CASE SkipReport(i) \/ \E o \in Outcomes : Report(i, o)
  BY <1>1, <1>4, <1>6 DEF SkipReport, Report, AfterReport
<1>7. CASE BeginExchange(i) \/ WriteEnds(i) \/ Answer(i) \/ StreamEnds(i)
  <2>1. \E pc : JobPc(i, pc)
    BY <1>7 DEF BeginExchange, WriteEnds, Answer, StreamEnds
  <2> QED
    BY <1>1, <1>4, <1>7, <2>1 DEF BeginExchange, WriteEnds, Answer, StreamEnds
<1>8. CASE ExchangeTimesOut(i)
  <2> DEFINE pc == IF job[i].pc = "orphaned" THEN "deserted" ELSE "exchange"
  <2>1. /\ Kill(job[i].slot, [job EXCEPT ![i].pc = pc]) /\ UNCHANGED <<loop, active, booted>>
    BY <1>8 DEF ExchangeTimesOut
  <2>2. pc \in JobPcs
    BY DEF JobPcs
  <2> HIDE DEF pc
  <2>3. Kept
    BY <1>2, <2>1, <2>2 DEF Kill
  <2> QED
    BY <1>3, <2>1, <2>3
<1>9. CASE Stop(i)
  <2> DEFINE pc == IF job[i].pc = "stop" THEN "start" ELSE "leave"
  <2>1. /\ Kill(job[i].slot, [job EXCEPT ![i].pc = pc]) /\ UNCHANGED <<loop, active, booted>>
    BY <1>9 DEF Stop
  <2>2. pc \in JobPcs
    BY DEF JobPcs
  <2> HIDE DEF pc
  <2>3. Kept
    BY <1>2, <2>1, <2>2 DEF Kill
  <2> QED
    BY <1>3, <2>1, <2>3
<1>10. CASE RecordRespawnAttempt(i)
  <2>1. \E pc : JobPc(i, pc)
    BY <1>10 DEF RecordRespawnAttempt
  <2>2. PICK w : slot' \in {[slot EXCEPT ![w].disabled = TRUE], [slot EXCEPT ![w].flapping = TRUE]}
    BY <1>10 DEF RecordRespawnAttempt
  <2>3. Freed
    BY <1>t, <2>2 DEF SlotTable, SlotType
  <2> QED
    BY <1>1, <1>10, <2>1, <2>3 DEF RecordRespawnAttempt
<1>11. CASE BeginStart(i)
  <2>1. Freed
    BY <1>11, <1>t DEF BeginStart, SlotTable, SlotType
  <2>2. Kept
    BY <1>1, <1>2, <1>11 DEF BeginStart, JobPcs
  <2> QED
    BY <1>11, <2>1, <2>2 DEF BeginStart
<1>12. CASE EndStart(i)
  <2>1. Freed
    BY <1>12, <1>t, EndStartEffect
  <2> QED
    BY <1>1, <1>12, <2>1 DEF EndStart
<1> QED
  BY <1>5, <1>6, <1>7, <1>8, <1>9, <1>10, <1>11, <1>12 DEF GoingOn

(* The steps of the pool, those of a dispatcher that goes on in one.         *)
LEMMA PoolCases ==
  ASSUME [PoolNext]_allVars
  PROVE  \/ \E i \in Ids : GoingOn(i) \/ LeaveCold(i) \/ LeaveWarm(i)
         \/ LoopStep
         \/ \E w \in Slots : ProcessDies(w) \/ FlapWindowPasses(w)
         \/ StartWarm
         \/ PoolCrash
         \/ UNCHANGED <<loop, active, slot, booted, job>>
BY DEF PoolNext, JobStep, GoingOn, Around, SpawnIntervalPasses, allVars, pool

-----------------------------------------------------------------------------
(* The limit of cold workers *)

LEMMA ColdFinite == IsFiniteSet(ColdJobs) /\ Cardinality(ColdJobs) \in Nat
<1>1. IsFiniteSet(Ids)
  BY FS_Interval, BoundsAssumption DEF Ids
<1> QED
  BY <1>1, FS_Subset, FS_CardinalityType DEF ColdJobs

LEMMA CapacityStep ==
  TypeOK /\ PoolTypeOK /\ ShapeInv /\ CapacityInv /\ [PoolNext]_allVars => CapacityInv'
<1> SUFFICES ASSUME TypeOK, PoolTypeOK, ShapeInv, CapacityInv, [PoolNext]_allVars
             PROVE  CapacityInv'
  OBVIOUS
<1>t. job \in JobTable /\ active \in Int /\ MaxWorkers \in Nat
  BY PoolTypes, PoolAssumption
<1>c. /\ active = Cardinality(ColdJobs) /\ active <= MaxWorkers
      /\ loop.pc \in {"take", "count"} => active < MaxWorkers
  BY DEF CapacityInv, ColdWithinLimit
<1>s. LoopShape /\ JobShape /\ FreeWhenQueued
  BY DEF ShapeInv
<1>1. ASSUME \A j \in Ids : job'[j].kind = "cold" <=> job[j].kind = "cold", active' = active,
             loop'.pc \in {"take", "count"} => active < MaxWorkers
      PROVE  CapacityInv'
  <2>1. ColdJobs' = ColdJobs
    BY <1>1 DEF ColdJobs
  <2> QED
    BY <1>1, <1>c, <2>1 DEF CapacityInv, ColdWithinLimit
<1>2. ASSUME NEW i \in Ids, GoingOn(i) PROVE CapacityInv'
  BY <1>1, <1>2, <1>c, GoingOnKeeps
<1>3. ASSUME NEW i \in Ids, LeaveWarm(i) PROVE CapacityInv'
  BY <1>1, <1>3, <1>c, <1>t, NoJobFields DEF LeaveWarm, JobTable
<1>4. ASSUME NEW i \in Ids, LeaveCold(i) PROVE CapacityInv'
  <2>1. ColdJobs' = ColdJobs \ {i} /\ i \in ColdJobs
    BY <1>4, <1>t, NoJobFields DEF LeaveCold, JobTable, ColdJobs
  <2>2. Cardinality(ColdJobs') = Cardinality(ColdJobs) - 1
    BY <2>1, ColdFinite, FS_RemoveElement
  <2> QED
    BY <1>4, <1>c, <1>t, <2>2 DEF LeaveCold, CapacityInv, ColdWithinLimit
<1>5. CASE LoopStep
  <2>1. CASE DispatchCold
    <3> DEFINE i == loop.task
    <3>1. i \in Ids /\ job[i] = NoJob /\ loop.pc = "count"
      BY <1>s, <2>1 DEF DispatchCold, LoopShape
    <3>2. ColdJobs' = ColdJobs \cup {i} /\ i \notin ColdJobs
      BY <1>t, <2>1, <3>1, NoJobFields DEF DispatchCold, JobTable, ColdJobs, ColdJob
    <3>3. Cardinality(ColdJobs') = Cardinality(ColdJobs) + 1
      BY <3>2, ColdFinite, FS_AddElement
    <3> QED
      BY <1>c, <1>t, <2>1, <3>1, <3>3 DEF DispatchCold, CapacityInv, ColdWithinLimit, Goto, AtPc
  <2>2. ASSUME NEW i \in Ids, NEW o, DispatchWarm(i, o) PROVE CapacityInv'
    <3>1. mem[i].status = "queued"
      BY <2>2 DEF DispatchWarm, NextWarm, IsBest, WarmQueued, Queued
    <3>2. job[i] = NoJob
      BY <1>s, <3>1 DEF FreeWhenQueued, NobodyHas
    <3>3. \A j \in Ids : job'[j].kind = "cold" <=> job[j].kind = "cold"
      BY <1>t, <2>2, <3>2, NoJobFields DEF DispatchWarm, JobTable, WarmJob
    <3> QED
      BY <1>1, <2>2, <3>3 DEF DispatchWarm, Goto, AtPc
  <2>3. ASSUME NEW i \in Ids, NEW o, TakeCold(i, o) PROVE CapacityInv'
    BY <1>1, <1>c, <2>3 DEF TakeCold, Goto, AtPc, Idle
  <2>4. CASE TickFires \/ NoWarmTask \/ GiveBack \/ CheckCapacity \/ NothingToTake
    BY <1>1, <1>c, <2>4 DEF TickFires, NoWarmTask, GiveBack, CheckCapacity, NothingToTake, Goto,
      AtPc, Idle
  <2>5. CASE ScanSlot \/ Reserve
    BY <1>1, <1>c, <2>5 DEF ScanSlot, Reserve, ScanNext, Goto, AtPc
  <2> QED
    BY <1>5, <2>1, <2>2, <2>3, <2>4, <2>5 DEF LoopStep
<1>6. CASE StartWarm \/ \E w \in Slots : ProcessDies(w) \/ FlapWindowPasses(w)
  BY <1>1, <1>6, <1>c DEF StartWarm, ProcessDies, FlapWindowPasses
<1>7. CASE PoolCrash
  <2>1. ColdJobs' = {}
    BY <1>7, NoJobFields DEF PoolCrash, ColdJobs
  <2> QED
    BY <1>7, <1>t, <2>1, FS_EmptySet DEF PoolCrash, CapacityInv, ColdWithinLimit, Idle, AtPc
<1>8. CASE UNCHANGED <<loop, active, slot, booted, job>>
  BY <1>1, <1>8, <1>c
<1> QED
  BY <1>2, <1>3, <1>4, <1>5, <1>6, <1>7, <1>8, PoolCases

-----------------------------------------------------------------------------
(* The slots *)

LEMMA SlotFacts ==
  ASSUME PoolTypeOK
  PROVE  /\ slot \in SlotTable /\ job \in JobTable /\ booted \in Int /\ Slots \subseteq Int
         /\ \A w \in Slots : slot[w] \in SlotType
         /\ \A i \in Ids : job[i] \in JobType
BY PoolTypes, PoolAssumption DEF SlotTable, JobTable, Slots

LEMMA LeaveEffect ==
  ASSUME PoolTypeOK, NEW i \in Ids, LeaveCold(i) \/ LeaveWarm(i)
  PROVE  /\ job'[i] = NoJob /\ \A j \in Ids : j # i => job'[j] = job[j]
         /\ \A w \in Slots : \/ slot'[w] = slot[w]
                             \/ job[i].kind = "warm" /\ w = job[i].slot /\ ~slot'[w].busy
         /\ \A w \in Slots : /\ slot'[w].listed = slot[w].listed
                             /\ slot'[w].ready = slot[w].ready
                             /\ slot'[w].starting = slot[w].starting
                             /\ slot'[w].process = slot[w].process
         /\ job[i].kind = "warm" /\ job[i].slot \in Slots => ~slot'[job[i].slot].busy
         /\ UNCHANGED <<loop, booted>>
BY SlotFacts DEF LeaveCold, LeaveWarm, JobTable, SlotTable, SlotType

LEMMA BusyStep ==
  PoolTypeOK /\ ShapeInv /\ TypeOK /\ BusyIsHeld /\ [PoolNext]_allVars => BusyIsHeld'
<1> SUFFICES ASSUME PoolTypeOK, ShapeInv, TypeOK, BusyIsHeld, [PoolNext]_allVars PROVE BusyIsHeld'
  OBVIOUS
<1>t. slot \in SlotTable /\ job \in JobTable
  BY PoolTypes
<1>s. LoopShape /\ JobShape /\ FreeWhenQueued
  BY DEF ShapeInv
<1>b. \A w \in Slots : slot[w].busy =>
        \/ loop.pc \in {"fetch", "release"} /\ loop.slot = w
        \/ \E i \in Ids : job[i].kind = "warm" /\ job[i].slot = w
  BY DEF BusyIsHeld, WarmJobs
<1>1. ASSUME \A w \in Slots : slot'[w].busy =>
               \/ loop'.pc \in {"fetch", "release"} /\ loop'.slot = w
               \/ \E i \in Ids : job'[i].kind = "warm" /\ job'[i].slot = w
      PROVE  BusyIsHeld'
  BY <1>1 DEF BusyIsHeld, WarmJobs
(* What was held stays held, or is busy no longer. *)
<1>2. ASSUME \A w \in Slots : slot'[w].busy => slot[w].busy, loop' = loop,
             \A j \in Ids : job[j].kind = "warm" => job'[j].kind = "warm" /\ job'[j].slot = job[j].slot
      PROVE  BusyIsHeld'
  BY <1>1, <1>2, <1>b
<1>3. ASSUME NEW i \in Ids, GoingOn(i) PROVE BusyIsHeld'
  BY <1>2, <1>3, GoingOnKeeps
<1>4. ASSUME NEW i \in Ids, LeaveCold(i) \/ LeaveWarm(i) PROVE BusyIsHeld'
  <2>1. /\ \A j \in Ids : j # i => job'[j] = job[j]
        /\ \A w \in Slots : \/ slot'[w] = slot[w]
                            \/ job[i].kind = "warm" /\ w = job[i].slot /\ ~slot'[w].busy
        /\ job[i].kind = "warm" /\ job[i].slot \in Slots => ~slot'[job[i].slot].busy
        /\ loop' = loop
    BY <1>4, LeaveEffect
  <2>2. ASSUME NEW w \in Slots, slot'[w].busy
        PROVE  \/ loop'.pc \in {"fetch", "release"} /\ loop'.slot = w
               \/ \E j \in Ids : job'[j].kind = "warm" /\ job'[j].slot = w
    <3>1. slot[w].busy /\ ~(job[i].kind = "warm" /\ job[i].slot = w)
      BY <2>1, <2>2
    <3> QED
      BY <1>b, <2>1, <3>1
  <2> QED
    BY <1>1, <2>2
<1>5. CASE LoopStep
  <2>1. ASSUME loop.pc \notin {"fetch", "release"}, slot' = slot,
               \A j \in Ids : job[j].kind = "warm" => job'[j] = job[j]
        PROVE  BusyIsHeld'
    BY <1>1, <1>b, <2>1
  <2>2. CASE TickFires \/ ScanSlot \/ CheckCapacity \/ NothingToTake
    BY <2>1, <2>2 DEF TickFires, ScanSlot, CheckCapacity, NothingToTake
  <2>3. CASE Reserve
    <3>1. loop.slot \in Slots
      BY <1>s, <2>3 DEF LoopShape, Reserve
    <3>2. \/ slot' = slot
          \/ slot' = [slot EXCEPT ![loop.slot].busy = TRUE] /\ Goto("fetch", loop.slot, NoId)
      BY <2>3 DEF Reserve
    <3>3. loop.pc = "reserve" /\ job' = job
      BY <2>3 DEF Reserve
    <3>4. CASE slot' = slot
      BY <2>1, <3>3, <3>4
    <3>5. CASE slot' = [slot EXCEPT ![loop.slot].busy = TRUE] /\ Goto("fetch", loop.slot, NoId)
      <4>1. /\ \A w \in Slots : w # loop.slot => slot'[w] = slot[w]
            /\ loop'.pc = "fetch" /\ loop'.slot = loop.slot
        BY <1>t, <3>5 DEF SlotTable, Goto, AtPc
      <4> QED
        BY <1>1, <1>b, <3>3, <4>1
    <3> QED
      BY <3>2, <3>4, <3>5
  <2>4. CASE NoWarmTask
    BY <1>1, <1>b, <2>4 DEF NoWarmTask, Goto, AtPc
  <2>5. CASE GiveBack
    <3>1. loop.slot \in Slots
      BY <1>s, <2>5 DEF LoopShape, GiveBack
    <3>2. /\ \A w \in Slots : w # loop.slot => slot'[w] = slot[w]
          /\ ~slot'[loop.slot].busy /\ job' = job
      BY <1>t, <2>5, <3>1 DEF GiveBack, SlotTable, SlotType
    <3> QED
      BY <1>1, <1>b, <3>2
  <2>6. CASE DispatchCold
    <3>1. \A j \in Ids : job[j].kind = "warm" => job'[j] = job[j]
      <4>1. loop.task \in Ids /\ job[loop.task] = NoJob
        BY <1>s, <2>6 DEF DispatchCold, LoopShape
      <4>2. \A j \in Ids : j # loop.task => job'[j] = job[j]
        BY <1>t, <2>6 DEF DispatchCold, JobTable
      <4> QED
        BY <4>1, <4>2, NoJobFields
    <3> QED
      BY <2>1, <2>6, <3>1 DEF DispatchCold
  <2>7. ASSUME NEW i \in Ids, NEW o, TakeCold(i, o) PROVE BusyIsHeld'
    BY <2>1, <2>7 DEF TakeCold
  <2>8. ASSUME NEW i \in Ids, NEW o, DispatchWarm(i, o) PROVE BusyIsHeld'
    <3>1. mem[i].status = "queued" /\ loop.pc = "fetch" /\ loop.slot \in Slots /\ slot' = slot
      BY <1>s, <2>8 DEF DispatchWarm, NextWarm, IsBest, WarmQueued, Queued, LoopShape
    <3>2. job[i] = NoJob
      BY <1>s, <3>1 DEF FreeWhenQueued, NobodyHas
    <3>3. CASE o = "ok"
      <4>1. job' = [job EXCEPT ![i] = WarmJob(loop.slot)]
        BY <2>8, <3>3 DEF DispatchWarm
      <4>2. /\ job'[i].kind = "warm" /\ job'[i].slot = loop.slot
            /\ \A j \in Ids : j # i => job'[j] = job[j]
        BY <1>t, <4>1 DEF JobTable, WarmJob
      <4>3. \A j \in Ids : job[j].kind = "warm" => j # i
        BY <3>2, NoJobFields
      <4> QED
        BY <1>1, <1>b, <3>1, <4>2, <4>3
    <3>4. CASE o # "ok"
      <4>1. loop'.pc = "release" /\ loop'.slot = loop.slot /\ job' = job
        BY <2>8, <3>4 DEF DispatchWarm, Goto, AtPc
      <4> QED
        BY <1>1, <1>b, <3>1, <4>1
    <3> QED
      BY <3>3, <3>4
  <2> QED
    BY <1>5, <2>2, <2>3, <2>4, <2>5, <2>6, <2>7, <2>8 DEF LoopStep
<1>6. CASE \E w \in Slots : ProcessDies(w) \/ FlapWindowPasses(w)
  <2> PICK w \in Slots : ProcessDies(w) \/ FlapWindowPasses(w)
    BY <1>6
  <2>1. slot' \in {[slot EXCEPT ![w].process = "dead"], [slot EXCEPT ![w].flapping = FALSE]}
        /\ UNCHANGED <<loop, job>>
    BY DEF ProcessDies, FlapWindowPasses
  <2>2. \A v \in Slots : slot'[v].busy => slot[v].busy
    BY <1>t, <2>1 DEF SlotTable, SlotType
  <2> QED
    BY <1>2, <2>1, <2>2
<1>7. CASE StartWarm
  <2>1. \A v \in Slots : slot'[v].busy => slot[v].busy
    BY <1>7, <1>t DEF StartWarm, SlotTable, NewSlot
  <2> QED
    BY <1>2, <1>7, <2>1 DEF StartWarm
<1>8. CASE PoolCrash
  BY <1>1, <1>8 DEF PoolCrash, NewSlot
<1>9. CASE UNCHANGED <<loop, active, slot, booted, job>>
  BY <1>2, <1>9
<1> QED
  BY <1>3, <1>4, <1>5, <1>6, <1>7, <1>8, <1>9, PoolCases

LEMMA OnlyBootedStep ==
  TypeOK /\ PoolTypeOK /\ ShapeInv /\ OnlyBooted /\ [PoolNext]_allVars => OnlyBooted'
<1> SUFFICES ASSUME TypeOK, PoolTypeOK, ShapeInv, OnlyBooted, [PoolNext]_allVars PROVE OnlyBooted'
  OBVIOUS
<1>t. slot \in SlotTable /\ job \in JobTable /\ booted \in Int /\ Slots \subseteq Int
  BY SlotFacts
<1>s. LoopShape /\ JobShape
  BY DEF ShapeInv
<1>b. /\ \A w \in Slots : slot[w].listed => w <= booted
      /\ loop.pc \in {"reserve", "fetch"} => loop.slot <= booted
      /\ \A i \in Ids : job[i].kind = "warm" => job[i].slot <= booted
  BY DEF OnlyBooted
<1>1. ASSUME \A w \in Slots : slot'[w].listed => slot[w].listed,
             booted' = booted,
             loop'.pc \in {"reserve", "fetch"} => loop'.slot <= booted,
             \A i \in Ids : job'[i].kind = "warm" => job'[i].slot <= booted
      PROVE  OnlyBooted'
  BY <1>1, <1>b DEF OnlyBooted
<1>2. ASSUME NEW i \in Ids, GoingOn(i) PROVE OnlyBooted'
  BY <1>1, <1>2, <1>b, GoingOnKeeps
<1>3. ASSUME NEW i \in Ids, LeaveCold(i) \/ LeaveWarm(i) PROVE OnlyBooted'
  <2>1. /\ job'[i] = NoJob /\ \A j \in Ids : j # i => job'[j] = job[j]
        /\ \A w \in Slots : slot'[w].listed = slot[w].listed
        /\ loop' = loop /\ booted' = booted
    BY <1>3, LeaveEffect
  <2> QED
    BY <1>1, <1>b, <2>1, NoJobFields
<1>4. CASE LoopStep
  <2>1. ASSUME slot' = slot \/ \E b : slot' = [slot EXCEPT ![loop.slot].busy = b],
               booted' = booted, job' = job,
               loop'.pc \in {"reserve", "fetch"} => loop'.slot <= booted
        PROVE  OnlyBooted'
    <3>1. \A w \in Slots : slot'[w].listed => slot[w].listed
      BY <1>t, <2>1 DEF SlotTable, SlotType
    <3> QED
      BY <1>1, <1>b, <2>1, <3>1
  <2>2. CASE TickFires \/ CheckCapacity \/ NothingToTake \/ NoWarmTask
    BY <2>1, <2>2 DEF TickFires, CheckCapacity, NothingToTake, NoWarmTask, Goto, AtPc, Idle
  <2>3. CASE GiveBack
    BY <2>1, <2>3 DEF GiveBack, Goto, AtPc
  <2>4. ASSUME NEW w, ScanNext(w) PROVE loop'.pc \in {"check", "scan"}
    BY <2>4 DEF ScanNext, Goto, AtPc
  <2>5. CASE ScanSlot
    <3>1. \/ ScanNext(loop.slot)
          \/ slot[loop.slot].listed /\ Goto("reserve", loop.slot, NoId)
      BY <2>5 DEF ScanSlot
    <3>2. loop.slot \in Slots /\ UNCHANGED <<slot, booted, job>>
      BY <1>s, <2>5 DEF LoopShape, ScanSlot
    <3> QED
      BY <1>b, <2>1, <2>4, <3>1, <3>2 DEF Goto, AtPc
  <2>6. CASE Reserve
    <3>1. /\ loop.pc = "reserve" /\ UNCHANGED <<booted, job>>
          /\ \/ ScanNext(loop.slot) /\ slot' = slot
             \/ Goto("fetch", loop.slot, NoId) /\ slot' = [slot EXCEPT ![loop.slot].busy = TRUE]
      BY <2>6 DEF Reserve
    <3>2. loop'.pc \in {"reserve", "fetch"} => loop'.slot <= booted
      BY <1>b, <2>4, <3>1 DEF Goto, AtPc
    <3>3. slot' = slot \/ \E b : slot' = [slot EXCEPT ![loop.slot].busy = b]
      BY <3>1
    <3> QED
      BY <2>1, <3>1, <3>2, <3>3
  <2>7. CASE DispatchCold
    <3>1. \A j \in Ids : job'[j].kind = "warm" => job'[j] = job[j]
      BY <1>t, <2>7 DEF DispatchCold, JobTable, ColdJob
    <3> QED
      BY <1>1, <1>b, <2>7, <3>1 DEF DispatchCold, Goto, AtPc
  <2>8. ASSUME NEW i \in Ids, NEW o, TakeCold(i, o) PROVE OnlyBooted'
    BY <2>1, <2>8 DEF TakeCold, Goto, AtPc, Idle
  <2>9. ASSUME NEW i \in Ids, NEW o, DispatchWarm(i, o) PROVE OnlyBooted'
    <3>1. /\ loop.pc = "fetch" /\ UNCHANGED <<slot, booted>> /\ loop'.pc \in {"scan", "release"}
          /\ job' \in {job, [job EXCEPT ![i] = WarmJob(loop.slot)]}
      BY <2>9 DEF DispatchWarm, Goto, AtPc
    <3>2. \A j \in Ids : job'[j] = job[j] \/ job'[j] = WarmJob(loop.slot)
      BY <1>t, <3>1 DEF JobTable
    <3>3. \A j \in Ids : job'[j].kind = "warm" => job'[j].slot <= booted
      BY <1>b, <3>1, <3>2 DEF WarmJob
    <3> QED
      BY <1>1, <3>1, <3>3
  <2> QED
    BY <1>4, <2>2, <2>3, <2>5, <2>6, <2>7, <2>8, <2>9 DEF LoopStep
<1>5. CASE \E w \in Slots : ProcessDies(w) \/ FlapWindowPasses(w)
  <2> PICK w \in Slots : ProcessDies(w) \/ FlapWindowPasses(w)
    BY <1>5
  <2>1. slot' \in {[slot EXCEPT ![w].process = "dead"], [slot EXCEPT ![w].flapping = FALSE]}
        /\ UNCHANGED <<loop, job, booted>>
    BY DEF ProcessDies, FlapWindowPasses
  <2>2. \A v \in Slots : slot'[v].listed => slot[v].listed
    BY <1>t, <2>1 DEF SlotTable, SlotType
  <2> QED
    BY <1>1, <1>b, <2>1, <2>2
<1>6. CASE StartWarm
  <2>1. /\ booted' = booted + 1 /\ UNCHANGED <<loop, job>>
        /\ \A v \in Slots : slot'[v] = slot[v] \/ v = booted + 1
    BY <1>6, <1>t DEF StartWarm, SlotTable
  <2>2. ASSUME NEW w \in Slots, slot'[w].listed PROVE w <= booted + 1
    <3>1. w \in Int /\ booted \in Int
      BY <1>t
    <3>2. CASE w = booted + 1
      BY <3>1, <3>2
    <3>3. CASE slot'[w] = slot[w]
      <4>1. w <= booted
        BY <1>b, <2>2, <3>3
      <4> QED
        BY <3>1, <4>1
    <3> QED
      BY <2>1, <3>2, <3>3
  <2>3. loop.slot \in Slots \cup {0} /\ \A i \in Ids : job[i].slot \in Slots \cup {0}
    BY SlotFacts, PoolTypes DEF LoopType, JobType, NoSlot
  <2>4. \A n \in Slots \cup {0} : n <= booted => n <= booted + 1
    BY <1>t
  <2>5. loop'.pc \in {"reserve", "fetch"} => loop'.slot <= booted'
    BY <1>b, <2>1, <2>3, <2>4
  <2>6. \A i \in Ids : job'[i].kind = "warm" => job'[i].slot <= booted'
    BY <1>b, <2>1, <2>3, <2>4
  <2> QED
    BY <2>1, <2>2, <2>5, <2>6 DEF OnlyBooted
<1>7. CASE PoolCrash
  BY <1>7, NoJobFields DEF PoolCrash, NewSlot, Idle, AtPc, OnlyBooted
<1>8. CASE UNCHANGED <<loop, active, slot, booted, job>>
  BY <1>1, <1>8, <1>b
<1> QED
  BY <1>2, <1>3, <1>4, <1>5, <1>6, <1>7, <1>8, PoolCases

LEMMA FieldEffect ==
  ASSUME slot \in SlotTable, NEW w, NEW b,
         \/ slot' = slot
         \/ slot' = [slot EXCEPT ![w].busy = b]
         \/ slot' = [slot EXCEPT ![w].disabled = b]
         \/ slot' = [slot EXCEPT ![w].flapping = b]
  PROVE  \A v \in Slots : /\ slot'[v].ready = slot[v].ready
                          /\ slot'[v].starting = slot[v].starting
                          /\ slot'[v].process = slot[v].process
<1> SUFFICES ASSUME NEW v \in Slots
             PROVE  /\ slot'[v].ready = slot[v].ready
                    /\ slot'[v].starting = slot[v].starting
                    /\ slot'[v].process = slot[v].process
  OBVIOUS
<1>1. slot[v] \in SlotType
  BY DEF SlotTable
<1>2. slot'[v] \in {slot[v], [slot[v] EXCEPT !.busy = b], [slot[v] EXCEPT !.disabled = b],
                   [slot[v] EXCEPT !.flapping = b]}
  BY DEF SlotTable
<1> QED
  BY <1>1, <1>2 DEF SlotType

(* Who exchanges and who starts, with the slots they do it in.               *)
StartsAndExchanges == ReadyHasProcess /\ OneStart /\ ExchangeHasProcess

LEMMA StartsStep ==
  /\ TypeOK /\ PoolTypeOK /\ ShapeInv /\ OnlyBooted
  /\ StartsAndExchanges /\ [PoolNext]_allVars
  => StartsAndExchanges'
<1> SUFFICES ASSUME TypeOK, PoolTypeOK, ShapeInv, OnlyBooted, StartsAndExchanges, [PoolNext]_allVars
             PROVE  StartsAndExchanges'
  OBVIOUS
<1>t. /\ slot \in SlotTable /\ job \in JobTable
      /\ \A w \in Slots : slot[w] \in SlotType
      /\ \A i \in Ids : job[i] \in JobType
  BY SlotFacts
<1>s. JobShape
  BY DEF ShapeInv
<1>w. \A i \in Ids : job[i].pc \notin {"none", "run", "completed", "failed", "leave"} =>
                       job[i].kind = "warm" /\ job[i].slot \in Slots
  BY <1>s, NoJobFields DEF JobShape
<1>r. \A w \in Slots : slot[w].ready => slot[w].process # "none"
  BY DEF StartsAndExchanges, ReadyHasProcess
<1>o. \A i \in Ids : job[i].pc = "starting" =>
        /\ slot[job[i].slot].starting
        /\ \A j \in Ids : job[j].pc = "starting" /\ job[j].slot = job[i].slot => j = i
  BY DEF StartsAndExchanges, OneStart
<1> USE DEF Attached
<1>e. \A i \in Ids : job[i].pc \in Attached =>
        LET s == slot[job[i].slot] IN s.ready /\ ~s.starting /\ s.process # "none"
  BY DEF StartsAndExchanges, ExchangeHasProcess
<1> DEFINE Same(w) == /\ slot'[w].ready = slot[w].ready
                      /\ slot'[w].starting = slot[w].starting
                      /\ slot'[w].process = "none" <=> slot[w].process = "none"
           Gone(w) == slot'[w].ready => slot'[w].process # "none"
(* Steps that touch one slot only as far as nobody exchanges or starts in it.*)
<1>1. ASSUME NEW v, \A w \in Slots : w # v => Same(w), Same(v) \/ Gone(v),
             \A j \in Ids : job'[j].pc \in Attached => job[j].pc \in Attached
                              /\ job'[j].slot = job[j].slot /\ (job[j].slot # v \/ Same(v)),
             \A j \in Ids : job'[j].pc = "starting" => job[j].pc = "starting"
                              /\ job'[j].slot = job[j].slot /\ (job[j].slot # v \/ Same(v))
      PROVE  StartsAndExchanges'
  <2>1. \A w \in Slots : Same(w) \/ w = v
    BY <1>1
  <2>2. ReadyHasProcess'
    BY <1>1, <1>r, <2>1 DEF ReadyHasProcess
  <2>3. OneStart'
    <3>1. ASSUME NEW i \in Ids, job'[i].pc = "starting"
          PROVE  slot'[job'[i].slot].starting
      <4>1. job[i].pc = "starting" /\ job'[i].slot = job[i].slot /\ job[i].slot \in Slots
        BY <1>1, <1>w, <3>1
      <4>2. Same(job[i].slot)
        BY <1>1, <2>1, <3>1, <4>1
      <4> QED
        BY <1>o, <4>1, <4>2
    <3>2. ASSUME NEW i \in Ids, NEW j \in Ids, job'[i].pc = "starting", job'[j].pc = "starting",
                 job'[j].slot = job'[i].slot
          PROVE  j = i
      BY <1>1, <1>o, <3>2
    <3> QED
      BY <3>1, <3>2 DEF OneStart
  <2>4. ASSUME NEW i \in Ids, job'[i].pc \in Attached
        PROVE  /\ slot'[job'[i].slot].ready /\ ~slot'[job'[i].slot].starting
               /\ slot'[job'[i].slot].process # "none"
    <3>1. job[i].pc \in Attached /\ job'[i].slot = job[i].slot /\ job[i].slot \in Slots
      BY <1>1, <1>w, <2>4
    <3>2. Same(job[i].slot)
      BY <1>1, <2>1, <2>4, <3>1
    <3> QED
      BY <1>e, <3>1, <3>2
  <2>5. ExchangeHasProcess'
    BY <2>4 DEF ExchangeHasProcess
  <2> QED
    BY <2>2, <2>3, <2>5 DEF StartsAndExchanges
(* Steps after which fewer exchange or start, in slots as they were.         *)
<1>2. ASSUME \A w \in Slots : Same(w),
             \A j \in Ids : job'[j].pc \in Attached \cup {"starting"} => job'[j] = job[j]
      PROVE  StartsAndExchanges'
  <2> DEFINE v == 0
  <2>1. v \notin Slots
    BY PoolAssumption DEF Slots
  <2>2. \A j \in Ids : job'[j].pc \in Attached \cup {"starting"} => job[j].slot # v
    BY <1>2, <1>w, <2>1
  <2>3. ReadyHasProcess'
    BY <1>2, <1>r DEF ReadyHasProcess
  <2>4. OneStart'
    BY <1>2, <1>o, <1>w DEF OneStart
  <2>5. ExchangeHasProcess'
    BY <1>2, <1>e, <1>w DEF ExchangeHasProcess
  <2> QED
    BY <2>3, <2>4, <2>5 DEF StartsAndExchanges
<1>3. ASSUME slot' = slot PROVE \A w \in Slots : Same(w)
  BY <1>3
<1>4. ASSUME NEW i \in Ids, NEW pc, JobPc(i, pc), pc \notin Attached \cup {"starting"}
      PROVE  \A j \in Ids : job'[j].pc \in Attached \cup {"starting"} => job'[j] = job[j]
  BY <1>4, <1>t DEF JobPc, JobTable, JobType
<1>5. ASSUME NEW i \in Ids, NEW o, NEW st \in {"completed", "failed"}, RecordOutcome(i, st, o)
      PROVE  StartsAndExchanges'
  <2>1. slot' = slot /\ JobPc(i, st) /\ st \notin Attached \cup {"starting"}
    BY <1>5 DEF RecordOutcome
  <2> QED
    BY <1>2, <1>3, <1>4, <2>1
<1>6. ASSUME NEW i \in Ids, SkipReport(i) \/ \E o \in Outcomes : Report(i, o)
      PROVE  StartsAndExchanges'
  <2>1. PICK pc \in {"respawn", "leave"} : JobPc(i, pc)
    BY <1>6 DEF SkipReport, Report, AfterReport
  <2>2. slot' = slot
    BY <1>6 DEF SkipReport, Report
  <2> QED
    BY <1>2, <1>3, <1>4, <2>1, <2>2
<1>7. ASSUME NEW i \in Ids, WriteEnds(i) \/ Answer(i) \/ StreamEnds(i) PROVE StartsAndExchanges'
  <2>1. slot' = slot
    BY <1>7 DEF WriteEnds, Answer, StreamEnds
  <2>2. CASE \E pc \in {"orphaned", "succeeded", "broke"} : JobPc(i, pc)
    BY <1>2, <1>3, <1>4, <2>1, <2>2
  <2>3. CASE job[i].pc = "writing" /\ JobPc(i, "exchange")
    <3>1. /\ job'[i].pc = "exchange" /\ job'[i].slot = job[i].slot
          /\ \A j \in Ids : j # i => job'[j] = job[j]
      BY <1>t, <2>3 DEF JobPc, JobTable, JobType
    <3>2. OneStart' /\ ExchangeHasProcess' /\ ReadyHasProcess'
      BY <1>e, <1>o, <1>r, <2>1, <2>3, <3>1 DEF OneStart, ExchangeHasProcess, ReadyHasProcess
    <3> QED
      BY <3>2 DEF StartsAndExchanges
  <2> QED
    BY <1>7, <2>2, <2>3 DEF WriteEnds, Answer, StreamEnds
<1>8. ASSUME NEW i \in Ids, RecordRespawnAttempt(i) PROVE StartsAndExchanges'
  <2>1. PICK pc \in {"stop", "stop for good"} : JobPc(i, pc)
    BY <1>8 DEF RecordRespawnAttempt
  <2>2. PICK w : \/ slot' = [slot EXCEPT ![w].disabled = TRUE]
                 \/ slot' = [slot EXCEPT ![w].flapping = TRUE]
    BY <1>8 DEF RecordRespawnAttempt
  <2>3. \A v \in Slots : Same(v)
    BY <1>t, <2>2, FieldEffect
  <2> QED
    BY <1>2, <1>4, <2>1, <2>3
<1>9. ASSUME NEW i \in Ids, LeaveCold(i) \/ LeaveWarm(i) PROVE StartsAndExchanges'
  <2>1. /\ job'[i] = NoJob /\ \A j \in Ids : j # i => job'[j] = job[j]
        /\ \A w \in Slots : Same(w)
    BY <1>9, LeaveEffect
  <2> QED
    BY <1>2, <2>1, NoJobFields
<1>10. ASSUME NEW i \in Ids, BeginExchange(i) PROVE StartsAndExchanges'
  <2> DEFINE w == job[i].slot
  <2>1. job[i].pc = "begin" /\ w \in Slots /\ slot' = slot /\ ~slot[w].starting
    BY <1>10, <1>w DEF BeginExchange, Unlocked
  <2>2. CASE ~slot[w].ready
    BY <1>2, <1>3, <1>4, <1>10, <2>1, <2>2 DEF BeginExchange
  <2>3. CASE slot[w].ready
    <3>1. /\ job'[i].pc = "writing" /\ job'[i].slot = w
          /\ \A j \in Ids : j # i => job'[j] = job[j]
      BY <1>10, <1>t, <2>3 DEF BeginExchange, JobPc, JobTable, JobType
    <3>2. OneStart'
      BY <1>o, <2>1, <3>1 DEF OneStart
    <3>3. ExchangeHasProcess'
      BY <1>e, <1>r, <2>1, <2>3, <3>1 DEF ExchangeHasProcess
    <3> QED
      BY <1>r, <2>1, <3>2, <3>3 DEF StartsAndExchanges, ReadyHasProcess
  <2> QED
    BY <2>2, <2>3
(* A kill ends every exchange of the slot, and nobody starts in it.          *)
<1>11. ASSUME NEW w \in Slots, NEW jobs, Kill(w, jobs),
              \A j \in Ids : /\ jobs[j] \in JobType /\ jobs[j].slot = job[j].slot
                             /\ jobs[j].pc \in Attached => job[j].pc \in Attached \/ jobs[j].slot = w
                             /\ jobs[j].pc = "starting" => job[j].pc = "starting"
       PROVE  StartsAndExchanges'
  <2>1. ~slot[w].starting /\ Gone(w) /\ \A v \in Slots : v # w => Same(v)
    BY <1>11, <1>t DEF Kill, Unlocked, SlotTable, SlotType
  <2>2. ASSUME NEW j \in Ids
        PROVE  /\ job'[j].slot = job[j].slot
               /\ job'[j].pc \in Attached => jobs[j].pc \in Attached /\ job[j].slot # w
               /\ job'[j].pc = "starting" => jobs[j].pc = "starting"
    BY <1>11, <2>2, CutOffEffect DEF Kill
  <2>3. \A j \in Ids : job[j].pc = "starting" => job[j].slot # w
    BY <1>o, <2>1
  <2>4. \A j \in Ids : job'[j].pc \in Attached => job[j].pc \in Attached /\ job[j].slot # w
    BY <1>11, <2>2
  <2>5. \A j \in Ids : job'[j].pc = "starting" => job[j].pc = "starting" /\ job[j].slot # w
    BY <1>11, <2>2, <2>3
  <2> QED
    BY <1>1, <2>1, <2>2, <2>4, <2>5
<1>12. ASSUME NEW i \in Ids, NEW pc \in JobPcs
       PROVE  \A j \in Ids : /\ [job EXCEPT ![i].pc = pc][j] \in JobType
                             /\ [job EXCEPT ![i].pc = pc][j].slot = job[j].slot
                             /\ [job EXCEPT ![i].pc = pc][j].pc = IF j = i THEN pc ELSE job[j].pc
  BY <1>t DEF JobTable, JobType
<1>13. ASSUME NEW i \in Ids, ExchangeTimesOut(i) PROVE StartsAndExchanges'
  <2> DEFINE pc == IF job[i].pc = "orphaned" THEN "deserted" ELSE "exchange"
             jobs == [job EXCEPT ![i].pc = pc]
  <2>1. job[i].pc \in {"exchange", "orphaned"} /\ Kill(job[i].slot, jobs) /\ job[i].slot \in Slots
    BY <1>13, <1>w DEF ExchangeTimesOut
  <2>2. pc \in {"exchange", "deserted"} /\ pc \in JobPcs
    BY DEF JobPcs
  <2> HIDE DEF pc
  <2>3. \A j \in Ids : /\ jobs[j] \in JobType /\ jobs[j].slot = job[j].slot
                       /\ jobs[j].pc = IF j = i THEN pc ELSE job[j].pc
    BY <1>12, <2>2
  <2> HIDE DEF jobs
  <2>4. \A j \in Ids : jobs[j].pc \in Attached => job[j].pc \in Attached \/ jobs[j].slot = job[i].slot
    BY <2>3
  <2>5. \A j \in Ids : jobs[j].pc = "starting" => job[j].pc = "starting"
    BY <2>2, <2>3
  <2> QED
    BY <1>11, <2>1, <2>3, <2>4, <2>5
<1>14. ASSUME NEW i \in Ids, Stop(i) PROVE StartsAndExchanges'
  <2> DEFINE pc == IF job[i].pc = "stop" THEN "start" ELSE "leave"
             jobs == [job EXCEPT ![i].pc = pc]
  <2>1. job[i].pc \in {"stop", "stop for good"} /\ Kill(job[i].slot, jobs) /\ job[i].slot \in Slots
    BY <1>14, <1>w DEF Stop
  <2>2. pc \in {"start", "leave"} /\ pc \in JobPcs
    BY DEF JobPcs
  <2> HIDE DEF pc
  <2>3. \A j \in Ids : /\ jobs[j] \in JobType /\ jobs[j].slot = job[j].slot
                       /\ jobs[j].pc = IF j = i THEN pc ELSE job[j].pc
    BY <1>12, <2>2
  <2> HIDE DEF jobs
  <2>4. \A j \in Ids : jobs[j].pc \in Attached => job[j].pc \in Attached
    BY <2>2, <2>3
  <2>5. \A j \in Ids : jobs[j].pc = "starting" => job[j].pc = "starting"
    BY <2>2, <2>3
  <2> QED
    BY <1>11, <2>1, <2>3, <2>4, <2>5
(* Start: the slot was unlocked, so nobody else starts in it, and those who  *)
(* exchanged in it are cut off.                                             *)
<1>15. ASSUME NEW i \in Ids, BeginStart(i) PROVE StartsAndExchanges'
  <2> DEFINE w == job[i].slot
             jobs == [job EXCEPT ![i].pc = "starting"]
  <2>1. job[i].pc = "start" /\ w \in Slots /\ ~slot[w].starting
    BY <1>15, <1>w DEF BeginStart, Unlocked
  <2>2. CASE JobPc(i, "leave") /\ slot' = slot
    BY <1>2, <1>3, <1>4, <2>2
  <2>3. CASE /\ slot' = [slot EXCEPT ![w].starting = TRUE]
             /\ job' = CutOff(w, jobs, Replaced)
    <3>1. /\ slot'[w].starting /\ slot'[w].ready = slot[w].ready
          /\ slot'[w].process = slot[w].process
          /\ \A v \in Slots : v # w => slot'[v] = slot[v]
      BY <1>t, <2>1, <2>3 DEF SlotTable, SlotType
    <3>2. \A j \in Ids : /\ jobs[j] \in JobType /\ jobs[j].slot = job[j].slot
                         /\ jobs[j].pc = IF j = i THEN "starting" ELSE job[j].pc
      <4>1. "starting" \in JobPcs
        BY DEF JobPcs
      <4> QED
        BY <1>12, <4>1
    <3> HIDE DEF jobs
    <3>3. ASSUME NEW j \in Ids
          PROVE  /\ job'[j].slot = job[j].slot
                 /\ job'[j].pc \in Attached => job[j].pc \in Attached /\ job[j].slot # w
                 /\ job'[j].pc = "starting" => j = i \/ job[j].pc = "starting"
      <4>1. /\ job'[j].slot = jobs[j].slot
            /\ job'[j].pc \in Attached => jobs[j].pc \in Attached /\ jobs[j].slot # w
            /\ job'[j].pc = "starting" => jobs[j].pc = "starting"
        BY <2>3, <3>2, CutOffEffect
      <4> QED
        BY <3>2, <4>1
    <3>4. \A j \in Ids : job[j].pc = "starting" => job[j].slot # w
      BY <1>o, <2>1
    <3>5. ReadyHasProcess'
      BY <1>r, <3>1 DEF ReadyHasProcess
    <3>6. OneStart'
      <4>1. ASSUME NEW a \in Ids, job'[a].pc = "starting"
            PROVE  slot'[job'[a].slot].starting
        BY <1>o, <1>w, <3>1, <3>3, <4>1
      <4>2. ASSUME NEW a \in Ids, NEW b \in Ids, job'[a].pc = "starting", job'[b].pc = "starting",
                   job'[b].slot = job'[a].slot
            PROVE  b = a
        BY <1>o, <3>3, <3>4, <4>2
      <4> QED
        BY <4>1, <4>2 DEF OneStart
    <3>7. ASSUME NEW j \in Ids, job'[j].pc \in Attached
          PROVE  /\ slot'[job'[j].slot].ready /\ ~slot'[job'[j].slot].starting
                 /\ slot'[job'[j].slot].process # "none"
      <4>1. /\ job[j].pc \in Attached /\ job'[j].slot = job[j].slot
            /\ job[j].slot \in Slots /\ job[j].slot # w
        BY <1>w, <3>3, <3>7
      <4> QED
        BY <1>e, <3>1, <4>1
    <3>8. ExchangeHasProcess'
      BY <3>7 DEF ExchangeHasProcess
    <3> QED
      BY <3>5, <3>6, <3>8 DEF StartsAndExchanges
  <2> QED
    BY <1>15, <2>2, <2>3 DEF BeginStart
<1>16. ASSUME NEW i \in Ids, EndStart(i) PROVE StartsAndExchanges'
  <2> DEFINE w == job[i].slot
  <2>1. job[i].pc = "starting" /\ w \in Slots /\ slot[w].starting
    BY <1>16, <1>o, <1>w DEF EndStart
  <2>2. Gone(w) /\ \A v \in Slots : v # w => Same(v)
    BY <1>16, <1>t, <2>1, EndStartEffect
  <2>3. job'[i].pc = "leave" /\ \A j \in Ids : j # i => job'[j] = job[j]
    BY <1>16, <1>t DEF EndStart, JobPc, JobTable, JobType
  <2>4. \A j \in Ids : job[j].pc \in Attached => job[j].slot # w
    BY <1>e, <2>1
  <2>5. \A j \in Ids : j # i /\ job[j].pc = "starting" => job[j].slot # w
    BY <1>o, <2>1
  <2> QED
    BY <1>1, <2>2, <2>3, <2>4, <2>5
<1>17. CASE LoopStep
  <2>1. ASSUME slot' = slot \/ \E b : slot' = [slot EXCEPT ![loop.slot].busy = b],
               \A j \in Ids : job'[j].pc \in Attached \cup {"starting"} => job'[j] = job[j]
        PROVE  StartsAndExchanges'
    <3>1. \A w \in Slots : Same(w)
      BY <1>t, <2>1, FieldEffect
    <3> QED
      BY <1>2, <2>1, <3>1
  <2>2. CASE TickFires \/ ScanSlot \/ CheckCapacity \/ NothingToTake \/ NoWarmTask
    BY <2>1, <2>2 DEF TickFires, ScanSlot, CheckCapacity, NothingToTake, NoWarmTask
  <2>3. CASE Reserve \/ GiveBack
    <3>1. job' = job /\ (slot' = slot \/ \E b : slot' = [slot EXCEPT ![loop.slot].busy = b])
      BY <2>3 DEF Reserve, GiveBack
    <3> QED
      BY <2>1, <3>1
  <2>4. CASE DispatchCold
    <3>1. slot' = slot /\ \A j \in Ids : job'[j] = job[j] \/ job'[j] = ColdJob
      BY <1>t, <2>4 DEF DispatchCold, JobTable
    <3> QED
      BY <2>1, <3>1 DEF ColdJob
  <2>5. ASSUME NEW i \in Ids, NEW o, TakeCold(i, o) PROVE StartsAndExchanges'
    BY <2>1, <2>5 DEF TakeCold
  <2>6. ASSUME NEW i \in Ids, NEW o, DispatchWarm(i, o) PROVE StartsAndExchanges'
    <3>1. slot' = slot /\ job' \in {job, [job EXCEPT ![i] = WarmJob(loop.slot)]}
      BY <2>6 DEF DispatchWarm
    <3>2. \A j \in Ids : job'[j] = job[j] \/ job'[j] = WarmJob(loop.slot)
      BY <1>t, <3>1 DEF JobTable
    <3> QED
      BY <2>1, <3>1, <3>2 DEF WarmJob
  <2> QED
    BY <1>17, <2>2, <2>3, <2>4, <2>5, <2>6 DEF LoopStep
<1>18. ASSUME NEW w \in Slots, ProcessDies(w) \/ FlapWindowPasses(w) PROVE StartsAndExchanges'
  <2>1. job' = job /\ \/ slot' = [slot EXCEPT ![w].process = "dead"] /\ slot[w].process = "alive"
                      \/ slot' = [slot EXCEPT ![w].flapping = FALSE]
    BY <1>18 DEF ProcessDies, FlapWindowPasses
  <2>2. \A v \in Slots : Same(v)
    BY <1>t, <2>1 DEF SlotTable, SlotType
  <2> QED
    BY <1>2, <2>1, <2>2
(* StartWarm takes a slot nobody has been given.                             *)
<1>19. CASE StartWarm
  <2> DEFINE w == booted + 1
  <2>1. Gone(w) \/ Same(w)
    BY <1>19, <1>t, SlotFacts DEF StartWarm, SlotTable, NewSlot
  <2>2. \A v \in Slots : v # w => Same(v)
    BY <1>19, <1>t DEF StartWarm, SlotTable
  <2>3. \A j \in Ids : job[j].kind = "warm" => job[j].slot # w
    BY SlotFacts DEF OnlyBooted
  <2>4. job' = job
    BY <1>19 DEF StartWarm
  <2> QED
    BY <1>1, <1>w, <2>1, <2>2, <2>3, <2>4
<1>20. CASE PoolCrash
  BY <1>20, NoJobFields
  DEF PoolCrash, NewSlot, StartsAndExchanges, ReadyHasProcess, OneStart, ExchangeHasProcess
<1>21. CASE UNCHANGED <<slot, job>>
  BY <1>2, <1>21
<1>22. ASSUME NEW i \in Ids, GoingOn(i) PROVE StartsAndExchanges'
  BY <1>5, <1>6, <1>7, <1>8, <1>10, <1>13, <1>14, <1>15, <1>16, <1>22 DEF GoingOn
<1> QED
  BY <1>9, <1>17, <1>18, <1>19, <1>20, <1>21, <1>22, PoolCases

-----------------------------------------------------------------------------
(* What was reported is over *)

LEMMA SureFlush ==
  ASSUME FlushOutcomes \subseteq {"ok"}, NEW new, NEW o,
         FlushOrRollBack(new, o) \/ FlushRegardless(new, o)
  PROVE  o = "ok" /\ mem' = new /\ disk' = new
BY DEF FlushOrRollBack, FlushRegardless, Flush

LEMMA ReportStep ==
  ASSUME FlushOutcomes \subseteq {"ok"}
  PROVE  TypeOK /\ QueueInv /\ PoolTypeOK /\ ReportInv /\ [PoolNext]_allVars => ReportInv'
<1> SUFFICES ASSUME TypeOK, QueueInv, PoolTypeOK, ReportInv, [PoolNext]_allVars PROVE ReportInv'
  OBVIOUS
<1> USE DEF store, clients
<1> DEFINE Over(i) == mem[i].status \notin Live /\ disk[i].status \notin Live
<1>t. /\ stage \in [Ids -> {"idle", "working", "reporting"}] /\ submitted \in Nat
      /\ \A i \in Ids : i \in Int
      /\ reported \subseteq Ids
  BY PoolTypes, BoundsAssumption DEF TypeOK, Ids
<1>inv. \A i \in Ids :
          /\ i \in reported \/ stage[i] = "reporting" => Over(i)
          /\ stage[i] = "working" /\ mem[i].status = "absent" => disk[i].status \notin Live
          /\ i \in reported => stage[i] = "idle" /\ i <= submitted
  BY DEF ReportInv
<1>fresh. \A i \in Ids : i > submitted => mem[i].status = "absent" /\ stage[i] = "idle"
  BY DEF QueueInv, FreshIsUnknown
(* A step after which the file says what memory says.                        *)
<1>1. ASSUME NEW new, mem' = new, disk' = new, reported' = reported,
             submitted' \in {submitted, submitted + 1},
             \A i \in Ids : /\ i \in reported \/ stage'[i] = "reporting" => new[i].status \notin Live
                            /\ i \in reported => stage'[i] = "idle"
      PROVE  ReportInv'
  <2>1. \A i \in Ids : i \in reported => i <= submitted'
    BY <1>1, <1>inv, <1>t
  <2> QED
    BY <1>1, <2>1 DEF ReportInv, Live
(* A step that leaves both alone.                                            *)
<1>2. ASSUME UNCHANGED <<mem, disk, stage, submitted, reported>> PROVE ReportInv'
  BY <1>2 DEF ReportInv
<1>3. ASSUME NEW r \in Requests, NEW o, Submit(r, o), reported' = reported PROVE ReportInv'
  <2> DEFINE n == submitted + 1
  <2>1. n \in Ids /\ n > submitted
    BY <1>3, <1>t, FreshId DEF Submit
  <2>2. mem' = Submitted(n) /\ disk' = Submitted(n) /\ stage' = stage /\ submitted' = n
    BY <1>3, SureFlush DEF Submit
  <2>3. n \notin reported /\ stage[n] = "idle"
    BY <1>inv, <1>fresh, <1>t, <2>1
  <2>4. \A i \in Ids : i \in reported \/ stage[i] = "reporting" => Submitted(n)[i].status \notin Live
    BY <1>inv, <2>1, <2>3, ImageStatus
  <2> QED
    BY <1>1, <1>3, <1>inv, <2>2, <2>4
<1>4. ASSUME NEW k \in Ids, NEW o, Cancel(k, o), reported' = reported PROVE ReportInv'
  <2>1. mem' = Cancelled(k) /\ disk' = Cancelled(k) /\ UNCHANGED <<stage, submitted>>
    BY <1>4, SureFlush DEF Cancel, Settle
  <2>2. \A i \in Ids : i \in reported \/ stage[i] = "reporting" => Cancelled(k)[i].status \notin Live
    BY <1>inv, ImageStatus DEF Live
  <2> QED
    BY <1>1, <1>4, <1>inv, <2>1, <2>2
<1>5. ASSUME NEW o, Prune(o), reported' = reported PROVE ReportInv'
  <2>1. mem' = Pruned /\ disk' = Pruned /\ UNCHANGED <<stage, submitted>>
    BY <1>5, SureFlush DEF Prune
  <2>2. \A i \in Ids : i \in reported \/ stage[i] = "reporting" => Pruned[i].status \notin Live
    BY <1>inv, PrunedStatus DEF Live
  <2> QED
    BY <1>1, <1>5, <1>inv, <2>1, <2>2
<1>6. ASSUME NEW o, Restart(o), reported' = reported PROVE ReportInv'
  <2>1. \A i \in Ids : stage[i] = "idle"
    BY <1>6 DEF Restart, QueueInv, DownIsEmpty
  <2>2. \A i \in Ids : disk[i].status \notin Live =>
          Recovered(disk)[i].status \notin Live /\ NoTasks[i].status \notin Live
    BY RecoveredStatus, NewTaskType DEF Live, NoTasks
  <2>3. UNCHANGED <<stage, submitted>> /\ disk' \in {disk, Recovered(disk)}
        /\ mem' \in {disk, Recovered(disk), NoTasks}
    BY <1>6 DEF Restart
  <2>4. \A i \in Ids : i \in reported => mem'[i].status \notin Live /\ disk'[i].status \notin Live
    BY <1>inv, <2>2, <2>3
  <2> QED
    BY <1>6, <1>inv, <2>1, <2>3, <2>4 DEF ReportInv
<1>7. ASSUME NEW k \in Ids, NEW o, HandOut(k, o), mem[k].status = "queued", reported' = reported
      PROVE  ReportInv'
  <2>1. /\ mem' = Started(k) /\ disk' = Started(k) /\ submitted' = submitted
        /\ stage' = [stage EXCEPT ![k] = "working"]
    BY <1>7, SureFlush DEF HandOut
  <2>2. k \notin reported
    BY <1>7, <1>inv DEF Live
  <2>3. \A i \in Ids : stage'[i] = IF i = k THEN "working" ELSE stage[i]
    BY <1>t, <2>1
  <2>4. ASSUME NEW i \in Ids, i \in reported \/ stage'[i] = "reporting"
        PROVE  Started(k)[i].status \notin Live
    <3>1. i # k
      BY <2>2, <2>3, <2>4
    <3>2. mem[i].status \notin Live
      BY <1>inv, <2>3, <2>4, <3>1
    <3> QED
      BY <3>1, <3>2, ImageStatus
  <2>5. \A i \in Ids : i \in reported => stage'[i] = "idle"
    BY <1>inv, <2>2, <2>3
  <2> QED
    BY <1>1, <1>7, <2>1, <2>4, <2>5
<1>8. ASSUME NEW k \in Ids, NEW st \in {"completed", "failed"}, NEW o, Finish(k, st, o),
             reported' = reported
      PROVE  ReportInv'
  <2> DEFINE new == Finished(k, st)
  <2>1. stage[k] = "working" /\ stage' = [stage EXCEPT ![k] = "reporting"] /\ submitted' = submitted
    BY <1>8 DEF Finish
  <2>2. k \notin reported
    BY <1>inv, <2>1
  <2>3. \A i \in Ids : stage'[i] = IF i = k THEN "reporting" ELSE stage[i]
    BY <1>t, <2>1
  <2>4. \A i \in Ids : new[i].status = IF i = k THEN st ELSE mem[i].status
    BY ImageStatus
  <2> HIDE DEF new
  <2>5. CASE mem' = new /\ disk' = new
    <3>1. \A i \in Ids : i \in reported \/ stage'[i] = "reporting" => new[i].status \notin Live
      BY <1>inv, <2>3, <2>4 DEF Live
    <3>2. \A i \in Ids : i \in reported => stage'[i] = "idle"
      BY <1>inv, <2>2, <2>3
    <3> QED
      BY <1>1, <1>8, <2>1, <2>5, <3>1, <3>2
  <2>6. CASE mem' = mem /\ disk' = disk /\ mem[k].status = "absent"
    <3>1. Over(k)
      BY <1>inv, <2>1, <2>6 DEF Live
    <3> QED
      BY <1>8, <1>inv, <2>1, <2>2, <2>3, <2>6, <3>1 DEF ReportInv
  <2>7. Settle(k, new, o)
    BY <1>8 DEF Finish, new
  <2> QED
    BY <2>5, <2>6, <2>7, SureFlush DEF Settle, Present
<1>9. ASSUME NEW k \in Ids, NEW o, ReportUnmarked(k) \/ ReportDelivered(k, o),
             reported' \in {reported, reported \cup {k}}
      PROVE  ReportInv'
  <2>1. stage[k] = "reporting" /\ stage' = [stage EXCEPT ![k] = "idle"] /\ submitted' = submitted
    BY <1>9 DEF ReportUnmarked, ReportDelivered
  <2>2. \A i \in Ids : stage'[i] = IF i = k THEN "idle" ELSE stage[i]
    BY <1>t, <2>1
  <2>3. k <= submitted /\ Over(k)
    BY <1>inv, <1>fresh, <1>t, <2>1
  <2>4. \/ mem' = mem /\ disk' = disk
        \/ mem' = Marked(k) /\ disk' = Marked(k)
    BY <1>9, SureFlush DEF ReportUnmarked, ReportDelivered
  <2>5. \A i \in Ids : Marked(k)[i].status = mem[i].status
    BY ImageStatus
  <2>6. \A i \in Ids : /\ mem'[i].status = mem[i].status
                       /\ disk'[i].status \in {mem[i].status, disk[i].status}
    BY <2>4, <2>5
  <2>7. \A i \in Ids : i \in reported' \/ stage'[i] = "reporting" => Over(i)
    BY <1>9, <1>inv, <2>2, <2>3
  <2>8. \A i \in Ids : i \in reported' => stage'[i] = "idle" /\ i <= submitted'
    BY <1>9, <1>inv, <2>1, <2>2, <2>3
  <2>9. ASSUME NEW i \in Ids, stage'[i] = "working", mem'[i].status = "absent"
        PROVE  disk'[i].status \notin Live
    BY <1>inv, <2>2, <2>6, <2>9 DEF Live
  <2> QED
    BY <2>6, <2>7, <2>8, <2>9 DEF ReportInv
(* A crash leaves the file as it was, or as a method was about to.           *)
<1>10. ASSUME CrashStep, reported' = reported PROVE ReportInv'
  <2>1. \A i \in Ids : mem'[i].status = "absent" /\ stage'[i] = "idle"
    BY <1>10, CrashEffect
  <2>2. submitted' \in {submitted, submitted + 1}
    BY <1>10 DEF CrashStep, Crash, CrashInSubmit, CrashInUpdate
  <2>3. \A i \in Ids : i \in reported => i <= submitted'
    BY <1>inv, <1>t, <2>2
  <2>4. ASSUME NEW i \in Ids, i \in reported PROVE disk'[i].status \notin Live
    <3>1. mem[i].status \notin Live /\ disk[i].status \notin Live /\ i <= submitted
      BY <1>inv, <2>4
    <3>2. CASE disk' = disk
      BY <3>1, <3>2
    <3>3. ASSUME NEW r \in Requests, CrashInSubmit(r) PROVE disk'[i].status \notin Live
      <4>1. submitted + 1 \in Ids /\ disk' = Submitted(submitted + 1) /\ i # submitted + 1
        BY <1>t, <3>1, <3>3, FreshId DEF CrashInSubmit
      <4> QED
        BY <3>1, <4>1, ImageStatus
    <3>4. ASSUME NEW k \in Ids, CrashInUpdate(k) PROVE disk'[i].status \notin Live
      <4>1. \/ mem[k].status = "queued" /\ disk' = Started(k)
            \/ \E st \in {"completed", "failed"} : disk' = Finished(k, st)
            \/ disk' = Cancelled(k) \/ disk' = Marked(k) \/ disk' = Pruned
        BY <3>4 DEF CrashInUpdate, IsBest, Queued, WarmQueued
      <4>2. CASE mem[k].status = "queued" /\ disk' = Started(k)
        BY <3>1, <4>2, ImageStatus DEF Live
      <4>3. ASSUME NEW st \in {"completed", "failed"}, disk' = Finished(k, st)
            PROVE  disk'[i].status \notin Live
        BY <3>1, <4>3, ImageStatus DEF Live
      <4>4. CASE disk' = Cancelled(k) \/ disk' = Marked(k)
        BY <3>1, <4>4, ImageStatus DEF Live
      <4>5. CASE disk' = Pruned
        BY <3>1, <4>5, PrunedStatus DEF Live
      <4> QED
        BY <4>1, <4>2, <4>3, <4>4, <4>5
    <3> QED
      BY <1>10, <3>2, <3>3, <3>4 DEF CrashStep, Crash
  <2> QED
    BY <1>10, <2>1, <2>3, <2>4 DEF ReportInv, Live
<1>11. ASSUME NEW i \in Ids, NEW o, DispatchWarm(i, o) \/ TakeCold(i, o) PROVE ReportInv'
  <2>1. HandOut(i, o) /\ mem[i].status = "queued" /\ reported' = reported
    BY <1>11 DEF DispatchWarm, TakeCold, NextWarm, NextCold, IsBest, WarmQueued, Queued
  <2> QED
    BY <1>7, <2>1
<1>12. CASE LoopStep
  BY <1>2, <1>11, <1>12 DEF LoopStep, TickFires, ScanSlot, Reserve, NoWarmTask, GiveBack,
    CheckCapacity, NothingToTake, DispatchCold, vars
<1>13. ASSUME NEW i \in Ids, JobStep(i) PROVE ReportInv'
  <2>1. ASSUME NEW st \in {"completed", "failed"}, NEW o, RecordOutcome(i, st, o) PROVE ReportInv'
    BY <1>8, <2>1 DEF RecordOutcome
  <2>2. ASSUME NEW o, Report(i, o) PROVE ReportInv'
    BY <1>9, <2>2 DEF Report
  <2>3. CASE SkipReport(i)
    BY <1>9, <2>3 DEF SkipReport
  <2>4. CASE UNCHANGED <<vars, reported>>
    BY <1>2, <2>4 DEF vars
  <2> QED
    BY <1>13, <2>1, <2>2, <2>3, <2>4 DEF JobStep, LeaveCold, LeaveWarm, BeginExchange,
      ExchangeTimesOut, RecordRespawnAttempt, Stop, BeginStart
<1>14. ASSUME NEW o, Around(o) PROVE ReportInv'
  BY <1>3, <1>4, <1>5, <1>6, <1>14 DEF Around, ClientStep, pool
<1>15. CASE PoolCrash
  BY <1>10, <1>15 DEF PoolCrash
<1>16. CASE UNCHANGED <<vars, reported>>
  BY <1>2, <1>16 DEF vars
<1>17. ASSUME NEW i \in Ids, WriteEnds(i) \/ Answer(i) \/ StreamEnds(i) \/ EndStart(i) PROVE ReportInv'
  BY <1>16, <1>17 DEF WriteEnds, Answer, StreamEnds, EndStart
<1>18. ASSUME NEW w \in Slots, ProcessDies(w) \/ FlapWindowPasses(w) PROVE ReportInv'
  BY <1>16, <1>18 DEF ProcessDies, FlapWindowPasses
<1>19. CASE StartWarm \/ SpawnIntervalPasses
  BY <1>16, <1>19 DEF StartWarm, SpawnIntervalPasses
<1> QED
  BY <1>12, <1>13, <1>14, <1>15, <1>16, <1>17, <1>18, <1>19 DEF PoolNext, allVars, pool

-----------------------------------------------------------------------------
(* The theorems *)

LEMMA PoolInits ==
  PoolInit => PoolTypeOK /\ CapacityInv /\ SlotInv /\ ReportInv
<1> SUFFICES ASSUME PoolInit PROVE PoolTypeOK /\ CapacityInv /\ SlotInv /\ ReportInv
  OBVIOUS
<1>1. /\ loop = Idle /\ active = 0 /\ spaced = TRUE /\ slot = [w \in Slots |-> NewSlot]
      /\ booted = 0 /\ job = [i \in Ids |-> NoJob] /\ reported = {}
      /\ mem = NoTasks /\ disk = NoTasks /\ stage = [i \in Ids |-> "idle"]
  BY DEF PoolInit, Init
<1>2. PoolTypeOK
  <2>1. Idle \in LoopType
    BY GotoType DEF Idle, LoopPcs
  <2>2. NewSlot \in SlotType /\ NoJob \in JobType
    BY DEF NewSlot, SlotType, NoJob, JobType, JobPcs
  <2> QED
    BY <1>1, <2>1, <2>2, PoolTypes, PoolAssumption DEF SlotTable, JobTable
<1>3. CapacityInv
  <2>1. ColdJobs = {}
    BY <1>1, NoJobFields DEF ColdJobs
  <2> QED
    BY <1>1, <2>1, FS_EmptySet, PoolAssumption DEF CapacityInv, ColdWithinLimit, Idle, AtPc
<1>4. SlotInv
  BY <1>1, NoJobFields DEF Attached, SlotInv, BusyIsHeld, ReadyHasProcess, OnlyBooted, OneStart,
    ExchangeHasProcess, NewSlot, Idle, AtPc
<1>5. ReportInv
  BY <1>1, NewTaskType DEF ReportInv, NoTasks, Live
<1> QED
  BY <1>2, <1>3, <1>4, <1>5

(* The queue's invariants, and the shape of the pool, in every state.        *)
LEMMA PoolBasics == PoolSpec => [](TypeOK /\ QueueInv /\ PoolTypeOK /\ ShapeInv)
<1>1. PoolInit => TypeOK /\ QueueInv /\ PoolTypeOK /\ ShapeInv
  <2>1. Init => TypeOK
    BY BoundsAssumption, RequestsAssumption, NewTaskType DEF Init, TypeOK
  <2> QED
    BY <2>1, InvInit, PoolInits, ShapeInit DEF PoolInit
<1>2. TypeOK /\ QueueInv /\ PoolTypeOK /\ ShapeInv /\ [PoolNext]_allVars
      => TypeOK' /\ QueueInv' /\ PoolTypeOK' /\ ShapeInv'
  <2>1. [PoolNext]_allVars => [Next]_vars
    BY PoolNextIsNext DEF allVars
  <2> QED
    BY <2>1, TypeStep, InvStep, PoolTypeStep, ShapeStep DEF ShapeInv
<1> QED
  BY <1>1, <1>2, PTL DEF PoolSpec

(* The variables of the pool keep their types.                               *)
THEOREM PoolTypeCorrect == PoolSpec => []PoolTypeOK
BY PoolBasics, PTL

(* The cold workers never exceed max_workers, though the count is read, the  *)
(* task taken and the count raised under locks of their own: Run alone       *)
(* raises it, and between its check and its count it can only fall.          *)
THEOREM ColdLimit == PoolSpec => []ColdWithinLimit
<1>1. CapacityInv => ColdWithinLimit
  BY DEF CapacityInv
<1> QED
  BY <1>1, PoolInits, CapacityStep, PoolBasics, PTL DEF PoolSpec

LEMMA SlotInvHolds == PoolSpec => []SlotInv
<1>1. TypeOK /\ PoolTypeOK /\ ShapeInv /\ SlotInv /\ [PoolNext]_allVars => SlotInv'
  BY BusyStep, OnlyBootedStep, StartsStep DEF SlotInv, StartsAndExchanges
<1> QED
  BY <1>1, PoolInits, PoolBasics, PTL DEF PoolSpec

(* A busy slot is held by the loop or by a dispatcher that will release it,  *)
(* whatever flush failed, whichever process died, whoever was killed.        *)
THEOREM BusyHeld == PoolSpec => []BusyIsHeld
<1>1. SlotInv => BusyIsHeld
  BY DEF SlotInv
<1> QED
  BY <1>1, SlotInvHolds, PTL

(* Who waits for the slot's process, and is not one of the orphans of a       *)
(* Start, waits for a process that is there and ready: a kill wakes all, and *)
(* no Start is under way in a slot somebody exchanges with.                  *)
THEOREM ExchangesAlive == PoolSpec => []ExchangeHasProcess
<1>1. SlotInv => ExchangeHasProcess
  BY DEF SlotInv
<1> QED
  BY <1>1, SlotInvHolds, PTL

(* A running task is in the loop's hands or has a dispatcher that has yet to *)
(* record its outcome, unless recording it was tried.                        *)
THEOREM RunningDispatched == PoolSpec => []RunningHasDispatcher
<1>1. TypeOK /\ ShapeInv /\ OrderInv => RunningHasDispatcher
  <2> SUFFICES ASSUME TypeOK, ShapeInv, OrderInv, NEW i \in Ids,
                      mem[i].status = "running", i \notin attempted
               PROVE  LoopHolds(i) \/ job[i].pc \in Recording
    BY DEF RunningHasDispatcher, LoopHolds
  <2>1. stage[i] \in {"idle", "working", "reporting"}
    BY DEF TypeOK
  <2>2. stage[i] = "working"
    BY <2>1 DEF OrderInv, RunningIsOwned, ReportingIsAttempted
  <2> QED
    BY <2>2 DEF ShapeInv, StageShape
<1> QED
  BY <1>1, PoolBasics, PoolRefinesQueue, OrderInvHolds, PTL

(* When flushes succeed no outcome is reported twice, crashes and restarts   *)
(* included: what was reported is over in memory and on disk.                *)
THEOREM ReportOnce ==
  ASSUME FlushOutcomes \subseteq {"ok"}
  PROVE  PoolSpec => []ReportedOnce
<1>1. ShapeInv /\ ReportInv => ReportedOnce
  BY DEF ShapeInv, StageShape, ReportInv, ReportedOnce, Reports
<1>2. TypeOK /\ QueueInv /\ PoolTypeOK /\ ReportInv /\ [PoolNext]_allVars => ReportInv'
  BY ReportStep
<1> QED
  BY <1>1, <1>2, PoolInits, PoolBasics, PTL DEF PoolSpec
=============================================================================
