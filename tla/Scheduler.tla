------------------------------ MODULE Scheduler ------------------------------
(***************************************************************************)
(* Recurring schedules (internal/scheduler/scheduler.go), as the daemon     *)
(* starts them (Daemon.Run: Load, CatchUp, then the tick loop) and as the   *)
(* schedule routes change them meanwhile.                                   *)
(*                                                                         *)
(* Time is counted in ticks of the scheduler; a cron expression is due at   *)
(* the multiples of its period.  A schedule is <<name, n>>, the n-th one    *)
(* created with that name.  The list is collected under the lock and fired  *)
(* without it: each submission, and the record of it, is a step.            *)
(***************************************************************************)
EXTENDS Integers, Sequences, FiniteSets

CONSTANTS
  Names,          \* schedule names
  MaxPerName,     \* bound: schedules created with the same name
  Period,         \* ticks between two runs, by name
  MaxTime,        \* bound: the clock
  MaxSchedFaults, \* bound: submissions and writes that fail
  MaxRestarts     \* bound: daemon crashes

ASSUME SchedulerAssumption ==
  /\ Period \in [Names -> Nat \ {0}]
  /\ MaxPerName \in Nat /\ MaxTime \in Nat
  /\ MaxSchedFaults \in Nat /\ MaxRestarts \in Nat

VARIABLES
  clock,      \* time.Now()
  life,       \* number of times the daemon was started
  schedules,  \* in memory: creation time and last run of each schedule
  onDisk,     \* the same in schedules.json
  toFire,     \* what CatchUp or tick collected and has not fired, due times
  firing,     \* the schedule submitted and not yet marked, or Nobody
  phase,      \* of Daemon.Run: "loaded", "catchup", "serving"
  granted,    \* schedules whose creation was acknowledged
  revoked,    \* schedules whose removal was acknowledged
  runs,       \* submissions of each schedule: which due time, in which life
  skipped,    \* due times that CatchUp passed over, and in which life
  schedFaults

schedVars == <<clock, life, schedules, onDisk, toFire, firing, phase,
               granted, revoked, runs, skipped, schedFaults>>

-----------------------------------------------------------------------------
Never == -1
ScheduleIds == Names \X (1 .. MaxPerName)
Listed == DOMAIN schedules
Nobody == <<>>

(* cron's Next: the first due time strictly after t. *)
NextRun(i, t) == (t \div Period[i[1]] + 1) * Period[i[1]]

(* tick counts from the last run or, before the first, from the creation. *)
Due(i) == NextRun(i, IF schedules[i].last = Never THEN schedules[i].created
                                                  ELSE schedules[i].last)

Without(f, i) == [j \in DOMAIN f \ {i} |-> f[j]]
SchedFail == schedFaults < MaxSchedFaults /\ schedFaults' = schedFaults + 1

(* flush: an atomic write of the whole list, or an error. *)
SchedFlush(failed) ==
  IF failed THEN SchedFail /\ UNCHANGED onDisk
            ELSE onDisk' = schedules' /\ UNCHANGED schedFaults

SchedulerInit ==
  /\ clock = 0 /\ life = 1
  /\ schedules = <<>> /\ onDisk = <<>>
  /\ toFire = <<>> /\ firing = Nobody /\ phase = "loaded"
  /\ granted = {} /\ revoked = {}
  /\ runs = [i \in ScheduleIds |-> <<>>] /\ skipped = {} /\ schedFaults = 0

-----------------------------------------------------------------------------
(* The routes. *)

(* Fault: a name that is listed is taken a second time. *)
CreateScheduleTwice(i, failed) ==
  /\ phase = "serving" /\ i \notin granted \union Listed
  /\ schedules' = [j \in Listed \union {i} |->
       IF j = i THEN [created |-> clock, last |-> Never] ELSE schedules[j]]
  /\ SchedFlush(failed)
  /\ granted' = granted \union {i}
  /\ UNCHANGED <<clock, life, toFire, firing, phase, revoked, runs, skipped>>

(* The n-th schedule of a name is new: nothing remembers another one. *)
Fresh(i) ==
  /\ i \notin granted \union revoked \union Listed \union DOMAIN onDisk \union DOMAIN toFire
  /\ runs[i] = <<>>

(* Create refuses a name that is listed.  A list that cannot be written answers
   an error and keeps the schedule in memory. *)
CreateSchedule(i, failed) ==
  /\ phase = "serving" /\ \A j \in Listed : j[1] # i[1]
  /\ Fresh(i)
  /\ schedules' = [j \in Listed \union {i} |->
       IF j = i THEN [created |-> clock, last |-> Never] ELSE schedules[j]]
  /\ SchedFlush(failed)
  /\ granted' = IF failed THEN granted ELSE granted \union {i}
  /\ UNCHANGED <<clock, life, toFire, firing, phase, revoked, runs, skipped>>

(* Fault: the list is written before the entry is taken out of it. *)
RemoveScheduleLate(i, failed) ==
  /\ phase = "serving" /\ i \in Listed
  /\ schedules' = Without(schedules, i)
  /\ ~failed /\ onDisk' = schedules /\ UNCHANGED schedFaults
  /\ revoked' = revoked \union {i}
  /\ UNCHANGED <<clock, life, toFire, firing, phase, granted, runs, skipped>>

(* Remove forgets the entry; a run already collected still holds it. *)
RemoveSchedule(i, failed) ==
  /\ phase = "serving" /\ i \in Listed
  /\ schedules' = Without(schedules, i)
  /\ SchedFlush(failed)
  /\ revoked' = IF failed THEN revoked ELSE revoked \union {i}
  /\ UNCHANGED <<clock, life, toFire, firing, phase, granted, runs, skipped>>

-----------------------------------------------------------------------------
(* Collecting what is due. *)

Missed == {i \in Listed : schedules[i].last # Never /\ Due(i) < clock}
Late(i) == clock - Due(i)

(* CatchUp fires what was missed by at most two intervals and passes over the
   rest, which the next tick then finds due; only schedules that ran before
   are looked at. *)
CatchUp ==
  /\ phase = "loaded" /\ phase' = "catchup"
  /\ LET recent == {i \in Missed : Late(i) <= 2 * Period[i[1]]}
     IN /\ toFire' = [i \in recent |-> Due(i)]
        /\ skipped' = skipped \union
             {[id |-> i, due |-> Due(i), life |-> life] : i \in Missed \ recent}
  /\ UNCHANGED <<clock, life, schedules, onDisk, firing, granted, revoked, runs, schedFaults>>

(* Daemon.Run calls CatchUp before it starts the tick loop and the server. *)
Serve ==
  /\ phase = "catchup" /\ toFire = <<>> /\ firing = Nobody
  /\ phase' = "serving"
  /\ UNCHANGED <<clock, life, schedules, onDisk, toFire, firing, granted, revoked, runs, skipped,
                 schedFaults>>

(* Fault: a tick looks only at schedules that ran before. *)
TickAfterFirst ==
  /\ phase = "serving" /\ toFire = <<>> /\ firing = Nobody
  /\ \E i \in Listed : Due(i) <= clock /\ schedules[i].last # Never
  /\ toFire' = [i \in {j \in Listed : Due(j) <= clock /\ schedules[j].last # Never} |-> Due(i)]
  /\ UNCHANGED <<clock, life, schedules, onDisk, firing, phase, granted, revoked, runs, skipped,
                 schedFaults>>

(* A tick with nothing due changes nothing. *)
Tick ==
  /\ phase = "serving" /\ toFire = <<>> /\ firing = Nobody
  /\ \E i \in Listed : Due(i) <= clock
  /\ toFire' = [i \in {j \in Listed : Due(j) <= clock} |-> Due(i)]
  /\ UNCHANGED <<clock, life, schedules, onDisk, firing, phase, granted, revoked, runs, skipped,
                 schedFaults>>

-----------------------------------------------------------------------------
(* Firing one. *)

(* A submission the queue refuses leaves the schedule due. *)
Submit(i) ==
  /\ firing = Nobody /\ i \in DOMAIN toFire
  /\ toFire' = Without(toFire, i)
  /\ \/ /\ runs' = [runs EXCEPT ![i] = Append(@, [due |-> toFire[i], life |-> life])]
        /\ firing' = i /\ UNCHANGED schedFaults
     \/ SchedFail /\ UNCHANGED <<runs, firing>>
  /\ UNCHANGED <<clock, life, schedules, onDisk, phase, granted, revoked, skipped>>

(* Fault: the run is recorded only when it can be written to the file. *)
MarkIfWritten(failed) ==
  /\ firing # Nobody /\ firing' = Nobody
  /\ schedules' = IF firing \in Listed /\ ~failed
                    THEN [schedules EXCEPT ![firing].last = clock] ELSE schedules
  /\ SchedFlush(failed)
  /\ UNCHANGED <<clock, life, toFire, phase, granted, revoked, runs, skipped>>

(* The tail of fire: the run counts from now, not from when it was due, so
   several missed runs become one; a list that cannot be written is ignored. *)
Mark(failed) ==
  /\ firing # Nobody /\ firing' = Nobody
  /\ schedules' = IF firing \in Listed
                    THEN [schedules EXCEPT ![firing].last = clock] ELSE schedules
  /\ SchedFlush(failed)
  /\ UNCHANGED <<clock, life, toFire, phase, granted, revoked, runs, skipped>>

-----------------------------------------------------------------------------
TimePasses ==
  /\ clock < MaxTime /\ clock' = clock + 1
  /\ UNCHANGED <<life, schedules, onDisk, toFire, firing, phase, granted, revoked, runs, skipped,
                 schedFaults>>

(* The daemon dies and is started again: Load reads what the file holds. *)
Restart ==
  /\ life <= MaxRestarts /\ life' = life + 1
  /\ schedules' = onDisk
  /\ toFire' = <<>> /\ firing' = Nobody /\ phase' = "loaded"
  /\ UNCHANGED <<clock, onDisk, granted, revoked, runs, skipped, schedFaults>>

SchedulerSteps ==
  \/ CatchUp \/ Serve \/ Tick
  \/ \E i \in ScheduleIds : Submit(i)
  \/ \E failed \in BOOLEAN : Mark(failed)

SchedulerNext ==
  \/ SchedulerSteps
  \/ \E i \in ScheduleIds, failed \in BOOLEAN : CreateSchedule(i, failed) \/ RemoveSchedule(i, failed)
  \/ TimePasses \/ Restart

(* The scheduler's goroutine runs whenever it can; routes, time and crashes come
   as they please. *)
SchedulerFairness == WF_schedVars(SchedulerSteps)
SchedulerSpec == SchedulerInit /\ [][SchedulerNext]_schedVars /\ SchedulerFairness

-----------------------------------------------------------------------------
(* Correctness. *)

ScheduleTable(f, now) ==
  /\ DOMAIN f \subseteq ScheduleIds
  /\ \A i \in DOMAIN f : f[i] \in [created: 0 .. now, last: Never .. now]
  /\ \A i, j \in DOMAIN f : i[1] = j[1] => i = j

RunsUntil(now, l) == [due: 0 .. now, life: 1 .. l]

(* The list in memory and the list on disk are well formed and hold a name at
   most once, and what is collected to be fired was due. *)
SchedulerTypeOK ==
  /\ clock \in 0 .. MaxTime
  /\ ScheduleTable(schedules, clock) /\ ScheduleTable(onDisk, clock)
  /\ DOMAIN toFire \subseteq ScheduleIds /\ firing \in ScheduleIds \union {Nobody}
  /\ \A i \in DOMAIN toFire : toFire[i] \in 0 .. clock
  /\ phase \in {"loaded", "catchup", "serving"}
  /\ granted \subseteq ScheduleIds /\ revoked \subseteq ScheduleIds
  /\ runs \in [ScheduleIds -> Seq(RunsUntil(clock, life))]
  /\ skipped \subseteq [id: ScheduleIds, due: 0 .. clock, life: 1 .. life]
  /\ life \in 1 .. MaxRestarts + 1 /\ schedFaults \in 0 .. MaxSchedFaults

(* A due time is run at most once in the life of the daemon, in order: fire
   records the run before the next tick looks, even if it cannot be written. *)
RunOncePerDueTime ==
  \A i \in ScheduleIds : \A j, k \in DOMAIN runs[i] :
    j < k /\ runs[i][j].life = runs[i][k].life => runs[i][j].due < runs[i][k].due

(* What a route acknowledged is what the file says: a schedule that was created
   is on disk for as long as it is listed, and one that was removed never comes
   back, not even when a run of it that was already collected writes the list
   once more. *)
RoutesAreDurable ==
  /\ \A i \in granted \cap Listed : i \in DOMAIN onDisk
  /\ \A i \in revoked : i \notin Listed /\ i \notin DOMAIN onDisk

(* The inductive invariant behind it: what is collected, and what will be due
   next, comes after every run of this life; a schedule submitted and not yet
   marked is neither.  A daemon that starts has nothing collected. *)
RanBefore(i, due) ==
  \A k \in DOMAIN runs[i] : runs[i][k].life = life => runs[i][k].due < due

DueInv ==
  /\ \A i \in DOMAIN toFire : i # firing /\ RanBefore(i, toFire[i])
  /\ \A i \in Listed \ {firing} : RanBefore(i, Due(i))
  /\ phase = "loaded" => firing = Nobody /\ DOMAIN toFire = {}

(* A listed schedule that is due is run, or it stops being listed: late ticks,
   refused submissions and restarts do not starve it.  The due times that a
   restarted daemon passes over as too old are not asked for. *)
PassedOver(i) == \E s \in skipped : s.id = i /\ s.due = Due(i)

DueIsRun ==
  \A i \in ScheduleIds :
    (i \in Listed /\ Due(i) <= clock)
      ~> (i \notin Listed \/ Due(i) > clock \/ PassedOver(i))

(* assistant-migration-design.md:141: "If missed by less than 2x the schedule
   interval, fire one catch-up run. Otherwise skip (avoids firing 100 missed
   hourly runs after extended downtime)", and scheduler.go:168: "skipping
   catch-up".  What CatchUp passed over is not submitted afterwards. *)
SkippedIsNotRun ==
  \A s \in skipped : \A k \in DOMAIN runs[s.id] :
    runs[s.id][k].due = s.due => runs[s.id][k].life < s.life
=============================================================================
