--------------------------- MODULE SchedulerProofs ---------------------------
(***************************************************************************)
(* Theorems about Scheduler: within one life of the daemon the runs of a    *)
(* schedule have increasing due times, and what a route acknowledged is     *)
(* what the file says - for every set of names, period, clock and number of *)
(* failures and restarts.                                                  *)
(***************************************************************************)
EXTENDS Scheduler, TLAPS

LEMMA NextRunIsLater ==
  ASSUME NEW i \in ScheduleIds, NEW t \in Nat
  PROVE  NextRun(i, t) \in Nat /\ NextRun(i, t) > t
<1>1. PICK p \in Nat \ {0} : p = Period[i[1]]
  BY SchedulerAssumption DEF ScheduleIds
<1>2. t \div p \in Nat /\ t = p * (t \div p) + (t % p) /\ t % p \in 0 .. p - 1
  BY <1>1
<1>3. PICK q \in Nat : q = t \div p
  BY <1>2
<1>4. NextRun(i, t) = (q + 1) * p /\ (q + 1) * p = p * q + p /\ p * q \in Nat
  BY <1>1, <1>3 DEF NextRun
<1> QED
  BY <1>1, <1>2, <1>3, <1>4

LEMMA SchedTyped ==
  ASSUME SchedulerTypeOK
  PROVE  /\ clock \in Nat /\ life \in Nat /\ Listed \subseteq ScheduleIds
         /\ \A i \in Listed : /\ schedules[i].created \in 0 .. clock
                              /\ schedules[i].last \in Never .. clock
                              /\ Due(i) \in Nat
         /\ \A i \in ScheduleIds : /\ runs[i] \in Seq(RunsUntil(clock, life))
                                   /\ Len(runs[i]) \in Nat
                                   /\ DOMAIN runs[i] = 1 .. Len(runs[i])
         /\ \A i \in ScheduleIds : \A k \in DOMAIN runs[i] :
              runs[i][k].due \in 0 .. clock /\ runs[i][k].life \in 1 .. life
<1>1. clock \in Nat /\ life \in Nat /\ Listed \subseteq ScheduleIds
  BY SchedulerAssumption DEF SchedulerTypeOK, ScheduleTable, Listed
<1>2. \A i \in Listed : schedules[i].created \in 0 .. clock /\ schedules[i].last \in Never .. clock
  BY DEF SchedulerTypeOK, ScheduleTable, Listed
<1>3. ASSUME NEW i \in Listed PROVE Due(i) \in Nat
  <2>1. PICK t \in Nat : Due(i) = NextRun(i, t)
    BY <1>1, <1>2 DEF Due, Never
  <2> QED
    BY <1>1, <2>1, NextRunIsLater
<1>4. \A i \in ScheduleIds : runs[i] \in Seq(RunsUntil(clock, life))
  BY DEF SchedulerTypeOK
<1>5. \A i \in ScheduleIds : Len(runs[i]) \in Nat /\ DOMAIN runs[i] = 1 .. Len(runs[i])
  BY <1>4
<1>6. \A i \in ScheduleIds : \A k \in DOMAIN runs[i] : runs[i][k] \in RunsUntil(clock, life)
  BY <1>4, <1>5
<1>7. \A i \in ScheduleIds : \A k \in DOMAIN runs[i] :
        runs[i][k].due \in 0 .. clock /\ runs[i][k].life \in 1 .. life
  BY <1>6 DEF RunsUntil
<1> QED
  BY <1>1, <1>2, <1>3, <1>4, <1>5, <1>7

(* flush writes the new list, or the file stays as it was. *)
LEMMA FlushEffect ==
  ASSUME SchedulerTypeOK, NEW failed \in BOOLEAN, SchedFlush(failed)
  PROVE  /\ onDisk' = schedules' \/ (failed /\ onDisk' = onDisk)
         /\ schedFaults' \in 0 .. MaxSchedFaults
BY SchedulerAssumption DEF SchedFlush, SchedFail, SchedulerTypeOK

(* The list a route leaves in memory, and the one the record of a run leaves. *)
LEMMA CreateTable ==
  ASSUME SchedulerTypeOK, NEW i \in ScheduleIds, NEW failed \in BOOLEAN, CreateSchedule(i, failed)
  PROVE  /\ ScheduleTable(schedules', clock) /\ Listed' = Listed \union {i}
         /\ schedules'[i].created = clock /\ schedules'[i].last = Never
         /\ \A j \in Listed : schedules'[j] = schedules[j] /\ j # i
<1>1. i \notin Listed /\ \A j \in Listed : j[1] # i[1]
  BY DEF CreateSchedule, Fresh
<1>2. /\ DOMAIN schedules' = Listed \union {i}
      /\ schedules'[i] = [created |-> clock, last |-> Never]
      /\ \A j \in Listed : schedules'[j] = schedules[j] /\ j # i
  BY <1>1 DEF CreateSchedule
<1>3. [created |-> clock, last |-> Never] \in [created: 0 .. clock, last: Never .. clock]
  BY SchedTyped DEF Never
<1> QED
  BY <1>1, <1>2, <1>3 DEF SchedulerTypeOK, ScheduleTable, Listed

LEMMA RemoveTable ==
  ASSUME SchedulerTypeOK, NEW i \in ScheduleIds, NEW failed \in BOOLEAN, RemoveSchedule(i, failed)
  PROVE  /\ ScheduleTable(schedules', clock) /\ Listed' = Listed \ {i}
         /\ \A j \in Listed \ {i} : schedules'[j] = schedules[j]
BY DEF RemoveSchedule, Without, SchedulerTypeOK, ScheduleTable, Listed

LEMMA MarkTable ==
  ASSUME SchedulerTypeOK, NEW failed \in BOOLEAN, Mark(failed)
  PROVE  /\ ScheduleTable(schedules', clock) /\ Listed' = Listed
         /\ \A j \in Listed : j # firing => schedules'[j] = schedules[j]
         /\ firing \in Listed => schedules'[firing].last = clock
<1>1. CASE firing \notin Listed
  BY <1>1 DEF Mark, SchedulerTypeOK, Listed
<1>2. CASE firing \in Listed
  <2>1. schedules' = [schedules EXCEPT ![firing].last = clock]
    BY <1>2 DEF Mark
  <2>2. /\ DOMAIN schedules' = Listed
        /\ \A j \in Listed : j # firing => schedules'[j] = schedules[j]
        /\ schedules'[firing] = [schedules[firing] EXCEPT !.last = clock]
    BY <1>2, <2>1 DEF Listed
  <2>3. /\ schedules[firing] \in [created: 0 .. clock, last: Never .. clock]
        /\ clock \in Never .. clock
    BY <1>2, SchedTyped DEF SchedulerTypeOK, ScheduleTable, Listed, Never
  <2>4. /\ schedules'[firing] \in [created: 0 .. clock, last: Never .. clock]
        /\ schedules'[firing].last = clock
    BY <2>2, <2>3
  <2> QED
    BY <1>2, <2>2, <2>4 DEF SchedulerTypeOK, ScheduleTable, Listed
<1> QED
  BY <1>1, <1>2

(* What a submission does: one more run, or a failure. *)
LEMMA SubmitEffect ==
  ASSUME SchedulerTypeOK, NEW i \in ScheduleIds, Submit(i)
  PROVE  /\ i \in DOMAIN toFire /\ firing = Nobody
         /\ DOMAIN toFire' = DOMAIN toFire \ {i} /\ \A j \in DOMAIN toFire' : toFire'[j] = toFire[j]
         /\ UNCHANGED <<clock, life, schedules, onDisk, phase, granted, revoked, skipped>>
         /\ \/ /\ firing' = i /\ schedFaults' = schedFaults
               /\ runs' \in [ScheduleIds -> Seq(RunsUntil(clock, life))]
               /\ \A j \in ScheduleIds : j # i => runs'[j] = runs[j]
               /\ DOMAIN runs'[i] = 1 .. Len(runs[i]) + 1
               /\ \A k \in 1 .. Len(runs[i]) : runs'[i][k] = runs[i][k]
               /\ runs'[i][Len(runs[i]) + 1] = [due |-> toFire[i], life |-> life]
            \/ UNCHANGED <<runs, firing>> /\ schedFaults' \in 0 .. MaxSchedFaults
<1>1. /\ i \in DOMAIN toFire /\ firing = Nobody
      /\ DOMAIN toFire' = DOMAIN toFire \ {i} /\ \A j \in DOMAIN toFire' : toFire'[j] = toFire[j]
      /\ UNCHANGED <<clock, life, schedules, onDisk, phase, granted, revoked, skipped>>
  BY DEF Submit, Without
<1>2. CASE /\ runs' = [runs EXCEPT ![i] = Append(@, [due |-> toFire[i], life |-> life])]
           /\ firing' = i /\ UNCHANGED schedFaults
  <2> DEFINE r == [due |-> toFire[i], life |-> life]
             s == Append(runs[i], r)
  <2>1. r \in RunsUntil(clock, life)
    <3>1. toFire[i] \in 0 .. clock /\ life \in 1 .. life
      BY <1>1, SchedulerAssumption DEF SchedulerTypeOK
    <3> QED
      BY <3>1 DEF RunsUntil
  <2>2. /\ s \in Seq(RunsUntil(clock, life)) /\ DOMAIN s = 1 .. Len(runs[i]) + 1
        /\ (\A k \in 1 .. Len(runs[i]) : s[k] = runs[i][k]) /\ s[Len(runs[i]) + 1] = r
    <3> HIDE DEF r
    <3> QED
      BY <2>1, SchedTyped
  <2> HIDE DEF s
  <2>3. runs \in [ScheduleIds -> Seq(RunsUntil(clock, life))] /\ runs' = [runs EXCEPT ![i] = s]
    BY <1>2 DEF SchedulerTypeOK, s
  <2>4. /\ runs' \in [ScheduleIds -> Seq(RunsUntil(clock, life))] /\ runs'[i] = s
        /\ \A j \in ScheduleIds : j # i => runs'[j] = runs[j]
    BY <2>2, <2>3
  <2> QED
    BY <1>1, <1>2, <2>2, <2>4
<1>3. CASE SchedFail /\ UNCHANGED <<runs, firing>>
  <2>1. schedFaults' \in 0 .. MaxSchedFaults
    BY <1>3, SchedulerAssumption DEF SchedFail, SchedulerTypeOK
  <2> QED
    BY <1>1, <1>3, <2>1
<1> QED
  BY <1>2, <1>3 DEF Submit

LEMMA SchedulerTypeStep ==
  SchedulerTypeOK /\ [SchedulerNext]_schedVars => SchedulerTypeOK'
<1> SUFFICES ASSUME SchedulerTypeOK, [SchedulerNext]_schedVars PROVE SchedulerTypeOK'
  OBVIOUS
<1>1. ASSUME NEW i \in ScheduleIds, NEW failed \in BOOLEAN,
             CreateSchedule(i, failed) \/ RemoveSchedule(i, failed)
      PROVE  SchedulerTypeOK'
  <2>1. SchedFlush(failed) /\ ScheduleTable(schedules', clock)
    BY <1>1, CreateTable, RemoveTable DEF CreateSchedule, RemoveSchedule
  <2>2. /\ UNCHANGED <<clock, life, toFire, firing, phase, runs, skipped>>
        /\ granted' \subseteq ScheduleIds /\ revoked' \subseteq ScheduleIds
    BY <1>1 DEF CreateSchedule, RemoveSchedule, SchedulerTypeOK
  <2> QED
    BY <2>1, <2>2, FlushEffect DEF SchedulerTypeOK
<1>2. ASSUME NEW failed \in BOOLEAN, Mark(failed) PROVE SchedulerTypeOK'
  <2>1. SchedFlush(failed) /\ ScheduleTable(schedules', clock)
    BY <1>2, MarkTable DEF Mark
  <2>2. UNCHANGED <<clock, life, toFire, phase, runs, skipped, granted, revoked>> /\ firing' = Nobody
    BY <1>2 DEF Mark
  <2> QED
    BY <2>1, <2>2, FlushEffect DEF SchedulerTypeOK
<1>3. ASSUME NEW i \in ScheduleIds, Submit(i) PROVE SchedulerTypeOK'
  BY <1>3, SubmitEffect DEF SchedulerTypeOK
<1>4. CASE CatchUp \/ Tick
  <2>1. /\ DOMAIN toFire' \subseteq Listed
        /\ \A i \in DOMAIN toFire' : toFire'[i] = Due(i) /\ (Due(i) < clock \/ Due(i) <= clock)
    BY <1>4 DEF CatchUp, Tick, Missed
  <2>2. \A i \in DOMAIN toFire' : toFire'[i] \in 0 .. clock
    BY <2>1, SchedTyped
  <2>3. /\ phase' \in {"loaded", "catchup", "serving"}
        /\ UNCHANGED <<clock, life, schedules, onDisk, firing, granted, revoked, runs, schedFaults>>
    BY <1>4 DEF CatchUp, Tick
  <2>4. skipped' \subseteq [id: ScheduleIds, due: 0 .. clock, life: 1 .. life]
    <3>1. ASSUME NEW i \in Missed
          PROVE  [id |-> i, due |-> Due(i), life |-> life]
                   \in [id: ScheduleIds, due: 0 .. clock, life: 1 .. life]
      <4>1. i \in ScheduleIds /\ Due(i) \in 0 .. clock /\ life \in 1 .. life
        BY <3>1, SchedTyped, SchedulerAssumption DEF Missed, SchedulerTypeOK
      <4> QED
        BY <4>1
    <3>2. CASE CatchUp
      <4>1. PICK over \in SUBSET Missed :
              skipped' = skipped \union {[id |-> i, due |-> Due(i), life |-> life] : i \in over}
        BY <3>2 DEF CatchUp
      <4> QED
        BY <3>1, <4>1 DEF SchedulerTypeOK
    <3>3. CASE Tick
      BY <3>3 DEF Tick, SchedulerTypeOK
    <3> QED
      BY <1>4, <3>2, <3>3
  <2> QED
    BY <2>1, <2>2, <2>3, <2>4, SchedTyped DEF SchedulerTypeOK
<1>5. CASE Serve
  BY <1>5 DEF Serve, SchedulerTypeOK
<1>6. CASE TimePasses
  <2>1. clock \in Nat /\ clock' = clock + 1 /\ clock' \in 0 .. MaxTime
    BY <1>6, SchedulerAssumption DEF TimePasses, SchedulerTypeOK
  <2>2. ScheduleTable(schedules, clock') /\ ScheduleTable(onDisk, clock')
    <3>1. \A e : e \in [created: 0 .. clock, last: Never .. clock] =>
                   e \in [created: 0 .. clock', last: Never .. clock']
      BY <2>1 DEF Never
    <3> QED
      BY <3>1 DEF SchedulerTypeOK, ScheduleTable
  <2>3. runs \in [ScheduleIds -> Seq(RunsUntil(clock', life))]
    <3>1. RunsUntil(clock, life) \subseteq RunsUntil(clock', life)
      BY <2>1 DEF RunsUntil
    <3>2. Seq(RunsUntil(clock, life)) \subseteq Seq(RunsUntil(clock', life))
      BY <3>1
    <3> QED
      BY <3>2 DEF SchedulerTypeOK
  <2>4. \A i \in DOMAIN toFire : toFire[i] \in 0 .. clock'
    BY <2>1 DEF SchedulerTypeOK
  <2> QED
    BY <1>6, <2>1, <2>2, <2>3, <2>4 DEF TimePasses, SchedulerTypeOK
<1>7. CASE Restart
  <2>1. life \in Nat /\ life' = life + 1 /\ life' \in 1 .. MaxRestarts + 1
    BY <1>7, SchedulerAssumption DEF Restart, SchedulerTypeOK
  <2>2. runs \in [ScheduleIds -> Seq(RunsUntil(clock, life'))]
    <3>1. RunsUntil(clock, life) \subseteq RunsUntil(clock, life')
      BY <2>1 DEF RunsUntil
    <3>2. Seq(RunsUntil(clock, life)) \subseteq Seq(RunsUntil(clock, life'))
      BY <3>1
    <3> QED
      BY <3>2 DEF SchedulerTypeOK
  <2>3. DOMAIN toFire' = {}
    BY <1>7 DEF Restart
  <2> QED
    BY <1>7, <2>1, <2>2, <2>3 DEF Restart, SchedulerTypeOK
<1>8. CASE UNCHANGED schedVars
  BY <1>8 DEF schedVars, SchedulerTypeOK
<1> QED
  BY <1>1, <1>2, <1>3, <1>4, <1>5, <1>6, <1>7, <1>8 DEF SchedulerNext, SchedulerSteps

-----------------------------------------------------------------------------
(* What the routes acknowledged *)

LEMMA RoutesStep ==
  SchedulerTypeOK /\ RoutesAreDurable /\ [SchedulerNext]_schedVars => RoutesAreDurable'
<1> SUFFICES ASSUME SchedulerTypeOK, RoutesAreDurable, [SchedulerNext]_schedVars
             PROVE  RoutesAreDurable'
  OBVIOUS
<1> USE DEF Listed
<1>1. ASSUME NEW i \in ScheduleIds, NEW failed \in BOOLEAN, CreateSchedule(i, failed)
      PROVE  RoutesAreDurable'
  <2>1. /\ Listed' = Listed \union {i} /\ i \notin granted \union revoked
        /\ granted' = IF failed THEN granted ELSE granted \union {i}
        /\ revoked' = revoked
        /\ onDisk' = schedules' \/ (failed /\ onDisk' = onDisk)
    BY <1>1, CreateTable, FlushEffect DEF CreateSchedule, Fresh
  <2> QED
    BY <2>1 DEF RoutesAreDurable
<1>2. ASSUME NEW i \in ScheduleIds, NEW failed \in BOOLEAN, RemoveSchedule(i, failed)
      PROVE  RoutesAreDurable'
  <2>1. /\ Listed' = Listed \ {i} /\ granted' = granted
        /\ revoked' = IF failed THEN revoked ELSE revoked \union {i}
        /\ onDisk' = schedules' \/ (failed /\ onDisk' = onDisk)
    BY <1>2, RemoveTable, FlushEffect DEF RemoveSchedule
  <2> QED
    BY <2>1 DEF RoutesAreDurable
<1>3. ASSUME NEW failed \in BOOLEAN, Mark(failed) PROVE RoutesAreDurable'
  <2>1. /\ Listed' = Listed /\ UNCHANGED <<granted, revoked>>
        /\ onDisk' = schedules' \/ (failed /\ onDisk' = onDisk)
    BY <1>3, MarkTable, FlushEffect DEF Mark
  <2> QED
    BY <2>1 DEF RoutesAreDurable
<1>4. CASE Restart
  BY <1>4 DEF Restart, RoutesAreDurable
<1>5. CASE UNCHANGED <<schedules, onDisk, granted, revoked>>
  BY <1>5 DEF RoutesAreDurable
<1> QED
  BY <1>1, <1>2, <1>3, <1>4, <1>5
  DEF SchedulerNext, SchedulerSteps, CatchUp, Serve, Tick, Submit, TimePasses, schedVars

-----------------------------------------------------------------------------
(* The runs of one life *)

(* What a step leaves untouched of the bounds on the runs. *)
LEMMA BoundsStay ==
  ASSUME SchedulerTypeOK, NEW i \in ScheduleIds, NEW due, RanBefore(i, due),
         runs'[i] = runs[i], life' = life
  PROVE  RanBefore(i, due)'
BY DEF RanBefore

LEMMA EveryRunIsPast ==
  ASSUME SchedulerTypeOK, NEW i \in ScheduleIds, NEW due \in Nat, due > clock
  PROVE  RanBefore(i, due)
BY SchedTyped DEF RanBefore

LEMMA DueStep ==
  SchedulerTypeOK /\ DueInv /\ [SchedulerNext]_schedVars => DueInv'
<1> SUFFICES ASSUME SchedulerTypeOK, DueInv, [SchedulerNext]_schedVars PROVE DueInv'
  OBVIOUS
<1>d. /\ \A i \in DOMAIN toFire : i # firing /\ RanBefore(i, toFire[i])
      /\ \A i \in Listed \ {firing} : RanBefore(i, Due(i))
      /\ phase = "loaded" => firing = Nobody /\ DOMAIN toFire = {}
  BY DEF DueInv
<1>t. /\ DOMAIN toFire \subseteq ScheduleIds /\ Listed \subseteq ScheduleIds
      /\ clock \in Nat /\ Nobody \notin ScheduleIds
  BY SchedTyped DEF SchedulerTypeOK, ScheduleIds, Nobody
<1>1. ASSUME NEW i \in ScheduleIds, NEW failed \in BOOLEAN, CreateSchedule(i, failed)
      PROVE  DueInv'
  <2>1. /\ Listed' = Listed \union {i} /\ schedules'[i].created = clock /\ schedules'[i].last = Never
        /\ \A j \in Listed : schedules'[j] = schedules[j]
        /\ UNCHANGED <<toFire, firing, phase, runs, life>> /\ phase = "serving"
    BY <1>1, CreateTable DEF CreateSchedule
  <2>2. \A j \in Listed : Due(j)' = Due(j)
    BY <2>1 DEF Due, NextRun
  <2>3. Due(i)' \in Nat /\ Due(i)' > clock
    BY <1>t, <2>1, NextRunIsLater DEF Due, NextRun
  <2>4. RanBefore(i, Due(i))'
    <3>1. PICK d \in Nat : d = Due(i)' /\ d > clock
      BY <2>3
    <3>2. RanBefore(i, d)'
      BY <2>1, <3>1, EveryRunIsPast, BoundsStay
    <3> QED
      BY <3>1, <3>2 DEF RanBefore
  <2>5. ASSUME NEW j \in Listed \ {firing} PROVE RanBefore(j, Due(j))'
    BY <1>d, <2>1, <2>2 DEF RanBefore
  <2>6. ASSUME NEW j \in DOMAIN toFire PROVE j # firing' /\ RanBefore(j, toFire[j])'
    BY <1>d, <2>1 DEF RanBefore
  <2> QED
    BY <2>1, <2>4, <2>5, <2>6 DEF DueInv
<1>2. ASSUME NEW i \in ScheduleIds, NEW failed \in BOOLEAN, RemoveSchedule(i, failed)
      PROVE  DueInv'
  <2>1. /\ Listed' = Listed \ {i} /\ \A j \in Listed' : schedules'[j] = schedules[j]
        /\ UNCHANGED <<toFire, firing, phase, runs, life>>
    BY <1>2, RemoveTable DEF RemoveSchedule
  <2>2. \A j \in Listed' : Due(j)' = Due(j)
    BY <2>1 DEF Due, NextRun
  <2> QED
    BY <1>d, <2>1, <2>2 DEF DueInv, RanBefore
<1>3. ASSUME NEW failed \in BOOLEAN, Mark(failed) PROVE DueInv'
  <2>1. /\ Listed' = Listed /\ \A j \in Listed : j # firing => schedules'[j] = schedules[j]
        /\ firing \in Listed => schedules'[firing].last = clock
        /\ UNCHANGED <<toFire, phase, runs, life>> /\ firing # Nobody /\ firing' = Nobody
    BY <1>3, MarkTable DEF Mark
  <2>2. \A j \in Listed : j # firing => Due(j)' = Due(j)
    BY <2>1 DEF Due, NextRun
  <2>3. ASSUME NEW j \in Listed, j # firing PROVE RanBefore(j, Due(j))'
    BY <1>d, <2>1, <2>2, <2>3 DEF RanBefore
  <2>4. ASSUME NEW j \in Listed, j = firing PROVE RanBefore(j, Due(j))'
    <3>1. Due(j)' = NextRun(j, clock)
      BY <1>t, <2>1, <2>4 DEF Due, NextRun, Never
    <3>2. PICK d \in Nat : d = Due(j)' /\ d > clock
      BY <1>t, <3>1, NextRunIsLater
    <3>3. RanBefore(j, d)'
      BY <1>t, <2>1, <3>2, EveryRunIsPast, BoundsStay
    <3> QED
      BY <3>2, <3>3 DEF RanBefore
  <2>5. ASSUME NEW j \in DOMAIN toFire PROVE j # firing' /\ RanBefore(j, toFire[j])'
    BY <1>d, <1>t, <2>1 DEF RanBefore
  <2> QED
    BY <1>d, <2>1, <2>3, <2>4, <2>5 DEF DueInv
<1>4. ASSUME NEW i \in ScheduleIds, Submit(i) PROVE DueInv'
  <2>1. /\ i \in DOMAIN toFire /\ firing = Nobody
        /\ DOMAIN toFire' = DOMAIN toFire \ {i} /\ \A j \in DOMAIN toFire' : toFire'[j] = toFire[j]
        /\ UNCHANGED <<life, schedules, phase>>
        /\ firing' = i \/ (firing' = firing /\ runs' = runs)
        /\ \A j \in ScheduleIds : j # i => runs'[j] = runs[j]
    BY <1>4, SubmitEffect
  <2>2. \A j \in Listed : Due(j)' = Due(j)
    BY <2>1 DEF Due, NextRun
  <2>3. \A j \in Listed' \ {firing'} : RanBefore(j, Due(j))'
    BY <1>d, <1>t, <2>1, <2>2 DEF RanBefore, Listed
  <2>4. \A j \in DOMAIN toFire' : j # firing' /\ RanBefore(j, toFire[j])'
    BY <1>d, <1>t, <2>1 DEF RanBefore
  <2>5. phase' # "loaded"
    BY <1>d, <2>1
  <2> QED
    BY <2>1, <2>3, <2>4, <2>5 DEF DueInv
<1>5. CASE CatchUp \/ Tick
  <2>1. /\ DOMAIN toFire' \subseteq Listed /\ \A j \in DOMAIN toFire' : toFire'[j] = Due(j)
        /\ firing = Nobody /\ phase' # "loaded"
        /\ UNCHANGED <<schedules, firing, runs, life>>
    BY <1>5, <1>d DEF CatchUp, Tick, Missed
  <2>2. \A j \in Listed : Due(j)' = Due(j) /\ j # firing
    BY <1>t, <2>1 DEF Due, NextRun
  <2>3. \A j \in Listed : RanBefore(j, Due(j))'
    BY <1>d, <2>1, <2>2 DEF RanBefore
  <2>4. Listed' = Listed
    BY <2>1 DEF Listed
  <2> QED
    BY <1>d, <2>1, <2>2, <2>3, <2>4 DEF DueInv, RanBefore
<1>6. CASE Restart
  <2>1. /\ life' = life + 1 /\ life \in Nat /\ runs' = runs /\ DOMAIN toFire' = {} /\ firing' = Nobody
    BY <1>6, SchedTyped DEF Restart
  <2>2. \A j \in ScheduleIds : \A k \in DOMAIN runs'[j] : runs'[j][k].life # life'
    BY <2>1, SchedTyped
  <2>3. Listed' \subseteq ScheduleIds
    BY <1>6 DEF Restart, Listed, SchedulerTypeOK, ScheduleTable
  <2> QED
    BY <2>1, <2>2, <2>3 DEF DueInv, RanBefore
<1>7. CASE UNCHANGED <<toFire, firing, schedules, runs, life>> /\ (phase' = "loaded" => phase = "loaded")
  BY <1>7, <1>d DEF DueInv, RanBefore, Due, NextRun, Listed
<1> QED
  BY <1>1, <1>2, <1>3, <1>4, <1>5, <1>6, <1>7
  DEF SchedulerNext, SchedulerSteps, Serve, TimePasses, schedVars

LEMMA OrderedStep ==
  SchedulerTypeOK /\ DueInv /\ RunOncePerDueTime /\ [SchedulerNext]_schedVars => RunOncePerDueTime'
<1> SUFFICES ASSUME SchedulerTypeOK, DueInv, RunOncePerDueTime, [SchedulerNext]_schedVars
             PROVE  RunOncePerDueTime'
  OBVIOUS
<1>1. CASE runs' = runs
  BY <1>1 DEF RunOncePerDueTime
<1>2. ASSUME NEW i \in ScheduleIds, Submit(i), runs' # runs PROVE RunOncePerDueTime'
  <2>1. /\ \A j \in ScheduleIds : j # i => runs'[j] = runs[j]
        /\ DOMAIN runs'[i] = 1 .. Len(runs[i]) + 1
        /\ \A k \in 1 .. Len(runs[i]) : runs'[i][k] = runs[i][k]
        /\ runs'[i][Len(runs[i]) + 1] = [due |-> toFire[i], life |-> life]
        /\ i \in DOMAIN toFire
    BY <1>2, SubmitEffect
  <2>2. PICK n \in Nat : n = Len(runs[i]) /\ DOMAIN runs[i] = 1 .. n
    BY SchedTyped
  <2>3. \A k \in 1 .. n : runs[i][k].life = life => runs[i][k].due < toFire[i]
    BY <2>1, <2>2 DEF DueInv, RanBefore
  <2>4. ASSUME NEW j \in 1 .. n + 1, NEW k \in 1 .. n + 1, j < k, runs'[i][j].life = runs'[i][k].life
        PROVE  runs'[i][j].due < runs'[i][k].due
    <3>1. j \in 1 .. n /\ runs'[i][j] = runs[i][j]
      BY <2>1, <2>2, <2>4
    <3>2. CASE k = n + 1
      BY <2>1, <2>2, <2>3, <2>4, <3>1, <3>2
    <3>3. CASE k \in 1 .. n
      <4>1. runs'[i][k] = runs[i][k]
        BY <2>1, <2>2, <3>3
      <4>2. runs[i][j].life = runs[i][k].life => runs[i][j].due < runs[i][k].due
        BY <2>2, <2>4, <3>1, <3>3 DEF RunOncePerDueTime
      <4> QED
        BY <2>4, <3>1, <4>1, <4>2
    <3> QED
      BY <3>2, <3>3
  <2> QED
    BY <2>1, <2>2, <2>4 DEF RunOncePerDueTime
<1> QED
  BY <1>1, <1>2
  DEF SchedulerNext, SchedulerSteps, CatchUp, Serve, Tick, Mark, CreateSchedule, RemoveSchedule,
    TimePasses, Restart, schedVars

-----------------------------------------------------------------------------
(* The theorems *)

LEMMA SchedulerStart ==
  SchedulerInit => SchedulerTypeOK /\ RoutesAreDurable /\ DueInv /\ RunOncePerDueTime
<1> SUFFICES ASSUME SchedulerInit
             PROVE  SchedulerTypeOK /\ RoutesAreDurable /\ DueInv /\ RunOncePerDueTime
  OBVIOUS
<1> USE DEF SchedulerInit
<1>1. DOMAIN schedules = {} /\ DOMAIN onDisk = {} /\ DOMAIN toFire = {}
  OBVIOUS
<1>2. \A i \in ScheduleIds : runs[i] = <<>> /\ DOMAIN runs[i] = {}
  OBVIOUS
<1>3. runs \in [ScheduleIds -> Seq(RunsUntil(clock, life))]
  OBVIOUS
<1> QED
  BY <1>1, <1>2, <1>3, SchedulerAssumption
  DEF SchedulerTypeOK, ScheduleTable, RoutesAreDurable, DueInv, RunOncePerDueTime, Listed

(* Both lists stay well formed, whatever fails and however often the daemon    *)
(* dies: no name is listed twice, and what is collected was due.               *)
THEOREM SchedulerTypeCorrect == SchedulerSpec => []SchedulerTypeOK
BY SchedulerStart, SchedulerTypeStep, PTL DEF SchedulerSpec

(* A schedule whose creation was acknowledged is on disk while it is listed,   *)
(* and one whose removal was acknowledged never comes back.                    *)
THEOREM RoutesDurable == SchedulerSpec => []RoutesAreDurable
BY SchedulerStart, SchedulerTypeStep, RoutesStep, PTL DEF SchedulerSpec

(* Within one life of the daemon a schedule runs at most once for a due time,  *)
(* and in the order of the due times.                                          *)
THEOREM DueOnce == SchedulerSpec => []RunOncePerDueTime
BY SchedulerStart, SchedulerTypeStep, DueStep, OrderedStep, PTL DEF SchedulerSpec
=============================================================================
