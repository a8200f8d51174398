--------------------------- MODULE TaskQueueProofs ---------------------------
(***************************************************************************)
(* Theorems about TaskQueue, for every number of tasks, crashes and clock   *)
(* ticks, every retention and every set of requests and flush outcomes.     *)
(***************************************************************************)
EXTENDS TaskQueue, TLAPS

LEMMA NewTaskType ==
  /\ NoTask \in Task /\ NewTask \in Task /\ NoTasks \in [Ids -> Task]
  /\ NoTask.status = "absent" /\ NewTask.status = "queued"
<1>1. NoTask \in Task /\ NoTask.status = "absent"
  BY DEF NoTask, Task, Status, Never
<1>2. NewTask \in Task /\ NewTask.status = "queued"
  BY <1>1 DEF NewTask, Task, Status, Live
<1> QED
  BY <1>1, <1>2 DEF NoTasks

LEMMA ImageTypes ==
  ASSUME mem \in [Ids -> Task], now \in Int
  PROVE  /\ \A i \in Ids : Submitted(i) \in [Ids -> Task]
         /\ \A i \in Ids : Started(i) \in [Ids -> Task]
         /\ \A i \in Ids, st \in Terminal : Finished(i, st) \in [Ids -> Task]
         /\ \A i \in Ids : Cancelled(i) \in [Ids -> Task]
         /\ \A i \in Ids : Marked(i) \in [Ids -> Task]
         /\ Pruned \in [Ids -> Task]
<1>1. \A i \in Ids : Submitted(i) \in [Ids -> Task]
  BY NewTaskType DEF Submitted
<1>2. \A i \in Ids : Started(i) \in [Ids -> Task]
  BY DEF Started, Task, Status, Live
<1>3. \A i \in Ids, st \in Terminal : Finished(i, st) \in [Ids -> Task]
  BY DEF Finished, Task, Status
<1>4. \A i \in Ids : Cancelled(i) \in [Ids -> Task]
  BY DEF Cancelled, Task, Status, Terminal
<1>5. \A i \in Ids : Marked(i) \in [Ids -> Task]
  BY DEF Marked, Task
<1>6. Pruned \in [Ids -> Task]
  BY NewTaskType DEF Pruned
<1> QED
  BY <1>1, <1>2, <1>3, <1>4, <1>5, <1>6

LEMMA RecoveredType ==
  ASSUME disk \in [Ids -> Task]
  PROVE  Recovered(disk) \in [Ids -> Task]
BY DEF Recovered, Task, Status, Live

LEMMA FreshId ==
  ASSUME TypeOK, submitted < MaxTasks
  PROVE  submitted + 1 \in Ids /\ submitted + 1 \in 0..MaxTasks
BY BoundsAssumption DEF TypeOK, Ids

LEMMA NowIsInt == TypeOK => now \in Int /\ mem \in [Ids -> Task] /\ disk \in [Ids -> Task]
BY BoundsAssumption DEF TypeOK

LEMMA FlushType ==
  ASSUME TypeOK, NEW new \in [Ids -> Task], NEW o
  PROVE  /\ FlushOrRollBack(new, o) => mem' \in [Ids -> Task] /\ disk' \in [Ids -> Task]
         /\ FlushRegardless(new, o) => mem' \in [Ids -> Task] /\ disk' \in [Ids -> Task]
BY DEF TypeOK, FlushOrRollBack, FlushRegardless, Flush

LEMMA GoDownType ==
  ASSUME TypeOK, GoDown
  PROVE  /\ mem' \in [Ids -> Task] /\ up' \in BOOLEAN /\ crashes' \in 0..MaxCrashes
         /\ stage' \in [Ids -> {"idle", "working", "reporting"}]
<1>1. mem' \in [Ids -> Task]
  BY NewTaskType DEF GoDown
<1>2. up' \in BOOLEAN
  BY DEF GoDown
<1>4. crashes' \in 0..MaxCrashes
  <2>1. crashes < MaxCrashes /\ crashes' = crashes + 1
    BY DEF GoDown
  <2>2. crashes \in 0..MaxCrashes /\ MaxCrashes \in Nat
    BY BoundsAssumption DEF TypeOK
  <2> QED
    BY <2>1, <2>2
<1>3. stage' \in [Ids -> {"idle", "working", "reporting"}]
  BY DEF GoDown
<1> QED
  BY <1>1, <1>2, <1>3, <1>4

(* Every step keeps every variable in its type. *)
LEMMA TypeStep == TypeOK /\ [Next]_vars => TypeOK'
<1> SUFFICES ASSUME TypeOK, [Next]_vars PROVE TypeOK'
  OBVIOUS
<1> USE DEF store, clients
<1>1. ASSUME NEW r \in Requests, NEW o, Submit(r, o) PROVE TypeOK'
  <2>1. submitted + 1 \in Ids /\ submitted + 1 \in 0..MaxTasks
    BY <1>1, FreshId DEF Submit
  <2>2. mem' \in [Ids -> Task] /\ disk' \in [Ids -> Task]
    BY <1>1, <2>1, NowIsInt, ImageTypes, FlushType DEF Submit
  <2> QED
    BY <1>1, <2>1, <2>2 DEF Submit, TypeOK
<1>2. ASSUME NEW i \in Ids, NEW o, HandOut(i, o) PROVE TypeOK'
  <2>1. mem' \in [Ids -> Task] /\ disk' \in [Ids -> Task]
    BY <1>2, NowIsInt, ImageTypes, FlushType DEF HandOut
  <2> QED
    BY <1>2, <2>1 DEF HandOut, TypeOK
<1>3. ASSUME NEW i \in Ids, NEW new \in [Ids -> Task], NEW o, Settle(i, new, o)
      PROVE  /\ mem' \in [Ids -> Task] /\ disk' \in [Ids -> Task]
             /\ attempted' \subseteq Ids /\ settled' \subseteq Ids
  BY <1>3, NowIsInt, FlushType DEF Settle, TypeOK
<1>4. ASSUME NEW i \in Ids, NEW o, Cancel(i, o) PROVE TypeOK'
  <2>1. Cancelled(i) \in [Ids -> Task]
    BY NowIsInt, ImageTypes
  <2> QED
    BY <1>4, <2>1, <1>3 DEF Cancel, TypeOK
<1>5. ASSUME NEW i \in Ids, NEW st \in {"completed", "failed"}, NEW o, Finish(i, st, o)
      PROVE  TypeOK'
  <2>1. Finished(i, st) \in [Ids -> Task]
    BY NowIsInt, ImageTypes DEF Terminal
  <2> QED
    BY <1>5, <2>1, <1>3 DEF Finish, TypeOK
<1>6. ASSUME NEW i \in Ids, NEW o, ReportDelivered(i, o) PROVE TypeOK'
  <2>1. mem' \in [Ids -> Task] /\ disk' \in [Ids -> Task]
    BY <1>6, NowIsInt, ImageTypes, FlushType DEF ReportDelivered
  <2> QED
    BY <1>6, <2>1 DEF ReportDelivered, TypeOK
<1>7. ASSUME NEW i \in Ids, ReportUnmarked(i) PROVE TypeOK'
  BY <1>7 DEF ReportUnmarked, TypeOK
<1>8. ASSUME NEW o, Prune(o) PROVE TypeOK'
  <2>1. mem' \in [Ids -> Task] /\ disk' \in [Ids -> Task]
    BY <1>8, NowIsInt, ImageTypes, FlushType DEF Prune
  <2> QED
    BY <1>8, <2>1 DEF Prune, TypeOK
<1>9. CASE Tick
  BY <1>9, BoundsAssumption DEF Tick, TypeOK
<1>10. CASE Crash
  BY <1>10, GoDownType DEF Crash, TypeOK
<1>11. ASSUME NEW r \in Requests, CrashInSubmit(r) PROVE TypeOK'
  <2>1. submitted + 1 \in Ids /\ submitted + 1 \in 0..MaxTasks
    BY <1>11, FreshId DEF CrashInSubmit
  <2>2. disk' \in [Ids -> Task]
    BY <1>11, <2>1, NowIsInt, ImageTypes DEF CrashInSubmit
  <2> QED
    BY <1>11, <2>1, <2>2, GoDownType DEF CrashInSubmit, TypeOK
<1>12. ASSUME NEW i \in Ids, CrashInUpdate(i) PROVE TypeOK'
  <2>1. disk' \in [Ids -> Task]
    BY <1>12, NowIsInt, ImageTypes DEF CrashInUpdate, Terminal
  <2>2. attempted' \subseteq Ids
    BY <1>12 DEF CrashInUpdate, TypeOK
  <2> QED
    BY <1>12, <2>1, <2>2, GoDownType DEF CrashInUpdate, TypeOK
<1>13. ASSUME NEW o, Restart(o) PROVE TypeOK'
  <2>1. mem' \in [Ids -> Task] /\ disk' \in [Ids -> Task]
    BY <1>13, NowIsInt, RecoveredType, NewTaskType DEF Restart
  <2> QED
    BY <1>13, <2>1 DEF Restart, TypeOK
<1>14. CASE UNCHANGED vars
  BY <1>14 DEF vars, TypeOK
<1> QED
  BY <1>1, <1>2, <1>4, <1>5, <1>6, <1>7, <1>8, <1>9, <1>10, <1>11, <1>12, <1>13, <1>14
  DEF Next, ClientStep, DispatcherStep, CrashStep, NextCold, NextWarm

(* TypeOK holds in every reachable state. *)
THEOREM TypeCorrect == Spec => []TypeOK
<1>1. Init => TypeOK
  BY BoundsAssumption, RequestsAssumption, NewTaskType DEF Init, TypeOK
<1> QED
  BY <1>1, TypeStep, PTL DEF Spec

-----------------------------------------------------------------------------
(* What each method does to the status of each task. *)
LEMMA ImageStatus ==
  ASSUME TypeOK, NEW i \in Ids, NEW j \in Ids
  PROVE  /\ Submitted(i)[j].status = IF j = i THEN "queued" ELSE mem[j].status
         /\ Started(i)[j].status = IF j = i THEN "running" ELSE mem[j].status
         /\ \A st : Finished(i, st)[j].status = IF j = i THEN st ELSE mem[j].status
         /\ Cancelled(i)[j].status = IF j = i THEN "cancelled" ELSE mem[j].status
         /\ Marked(i)[j].status = mem[j].status
<1>1. mem[i] \in Task /\ mem[j] \in Task /\ mem \in [Ids -> Task]
  BY DEF TypeOK
<1>2. Submitted(i)[j].status = IF j = i THEN "queued" ELSE mem[j].status
  BY <1>1, NewTaskType DEF Submitted
<1>3. Started(i)[j].status = IF j = i THEN "running" ELSE mem[j].status
  BY <1>1 DEF Started, Task
<1>4. \A st : Finished(i, st)[j].status = IF j = i THEN st ELSE mem[j].status
  BY <1>1 DEF Finished, Task
<1>5. Cancelled(i)[j].status = IF j = i THEN "cancelled" ELSE mem[j].status
  BY <1>1 DEF Cancelled, Task
<1>6. Marked(i)[j].status = mem[j].status
  BY <1>1 DEF Marked, Task
<1> QED
  BY <1>2, <1>3, <1>4, <1>5, <1>6

LEMMA PrunedStatus ==
  ASSUME NEW j \in Ids
  PROVE  /\ Pruned[j].status \in {"absent", mem[j].status}
         /\ mem[j].status \notin Terminal => Pruned[j].status = mem[j].status
BY NewTaskType DEF Pruned, Expired

LEMMA RecoveredStatus ==
  ASSUME TypeOK, NEW j \in Ids
  PROVE  Recovered(disk)[j].status =
           IF disk[j].status = "running" THEN "queued" ELSE disk[j].status
BY DEF Recovered, TypeOK, Task

LEMMA FlushEffect ==
  ASSUME NEW new, NEW o
  PROVE  /\ FlushOrRollBack(new, o) => mem' \in {mem, new} /\ disk' \in {disk, new}
         /\ FlushOrRollBack(new, "ok") => mem' = new /\ disk' = new
         /\ FlushRegardless(new, o) => mem' = new /\ disk' \in {disk, new}
BY DEF FlushOrRollBack, FlushRegardless, Flush

LEMMA GoDownEffect ==
  ASSUME GoDown
  PROVE  \A i \in Ids : mem'[i].status = "absent" /\ stage'[i] = "idle"
BY NewTaskType DEF GoDown, NoTasks

(* The inductive invariant of the queue. *)
LEMMA InvInit == Init => QueueInv
BY BoundsAssumption, NewTaskType
DEF Init, QueueInv, DownIsEmpty, FreshIsUnknown, InFlightNotQueued, SettledIsOver, NoTasks, Live

(* Steps that start nothing and submit nothing. *)
LEMMA NothingBecomesLive ==
  ASSUME TypeOK, QueueInv, settled' \subseteq Ids, submitted' = submitted,
         DownIsEmpty',
         \A i \in Ids :
           /\ mem'[i].status \in Live => mem'[i].status = mem[i].status
           /\ disk'[i].status \in Live => disk'[i].status \in {mem[i].status, disk[i].status}
           /\ stage'[i] # "idle" => stage[i] # "idle"
           /\ i > submitted => mem'[i].status = "absent" /\ disk'[i].status = "absent",
         \A i \in settled' \ settled :
           ~(i > submitted) /\ mem'[i].status \notin Live /\ disk'[i].status \notin Live
  PROVE  QueueInv'
<1> USE DEF Live
<1>1. FreshIsUnknown'
  BY DEF QueueInv, FreshIsUnknown
<1>2. InFlightNotQueued'
  BY DEF QueueInv, InFlightNotQueued
<1>3. SettledIsOver'
  BY DEF QueueInv, SettledIsOver, TypeOK
<1> QED
  BY <1>1, <1>2, <1>3 DEF QueueInv

LEMMA InvStep == TypeOK /\ QueueInv /\ [Next]_vars => QueueInv'
<1> SUFFICES ASSUME TypeOK, QueueInv, [Next]_vars PROVE QueueInv'
  OBVIOUS
<1> USE DEF store, clients, Live
<1>inv. DownIsEmpty /\ FreshIsUnknown /\ InFlightNotQueued /\ SettledIsOver
  BY DEF QueueInv
<1>typ. settled \subseteq Ids /\ submitted \in Nat /\ \A i \in Ids : i \in Nat
  BY BoundsAssumption DEF TypeOK, Ids
<1>1. ASSUME NEW r \in Requests, NEW o, Submit(r, o) PROVE QueueInv'
  <2> DEFINE n == submitted + 1
  <2>1. n \in Ids /\ n > submitted /\ up
    BY <1>1, <1>typ, FreshId DEF Submit
  <2>2. \A i \in Ids : /\ mem'[i].status \in {mem[i].status, IF i = n THEN "queued" ELSE mem[i].status}
                       /\ disk'[i].status \in {disk[i].status, IF i = n THEN "queued" ELSE mem[i].status}
    BY <1>1, <2>1, ImageStatus, FlushEffect DEF Submit
  <2>3. stage[n] = "idle" /\ n \notin settled
    BY <2>1, <1>inv DEF FreshIsUnknown
  <2>4. up' = up /\ stage' = stage /\ settled' = settled /\ submitted' = n
    BY <1>1 DEF Submit
  <2>5. DownIsEmpty'
    BY <2>1, <2>4 DEF DownIsEmpty
  <2>6. FreshIsUnknown'
    BY <2>1, <2>2, <2>4, <1>inv, <1>typ DEF FreshIsUnknown
  <2>7. InFlightNotQueued'
    BY <2>2, <2>3, <2>4, <1>inv DEF InFlightNotQueued
  <2>8. SettledIsOver'
    BY <2>2, <2>3, <2>4, <1>inv, <1>typ DEF SettledIsOver
  <2> QED
    BY <2>5, <2>6, <2>7, <2>8 DEF QueueInv
<1>2. ASSUME NEW k \in Ids, NEW o, mem[k].status = "queued", HandOut(k, o) PROVE QueueInv'
  <2>1. \A i \in Ids : /\ mem'[i].status \in {mem[i].status, IF i = k THEN "running" ELSE mem[i].status}
                       /\ disk'[i].status \in {disk[i].status, IF i = k THEN "running" ELSE mem[i].status}
    BY <1>2, ImageStatus, FlushEffect DEF HandOut
  <2>2. o = "ok" => mem'[k].status = "running"
    BY <1>2, ImageStatus, FlushEffect DEF HandOut
  <2>3. /\ up /\ up' = up /\ settled' = settled /\ submitted' = submitted
        /\ stage' = IF o = "ok" THEN [stage EXCEPT ![k] = "working"] ELSE stage
    BY <1>2 DEF HandOut
  <2>4. k \notin settled /\ ~(k > submitted)
    BY <1>2, <1>inv DEF SettledIsOver, FreshIsUnknown
  <2>5. DownIsEmpty'
    BY <2>3 DEF DownIsEmpty
  <2>6. FreshIsUnknown'
    BY <2>1, <2>3, <2>4, <1>inv DEF FreshIsUnknown, TypeOK
  <2>7. InFlightNotQueued'
    BY <2>1, <2>2, <2>3, <1>inv DEF InFlightNotQueued, TypeOK
  <2>8. SettledIsOver'
    BY <2>1, <2>3, <2>4, <1>inv, <1>typ DEF SettledIsOver
  <2> QED
    BY <2>5, <2>6, <2>7, <2>8 DEF QueueInv
<1>3. ASSUME NEW k \in Ids, NEW st \in Terminal, NEW new, NEW o, Present(k), up,
             \A i \in Ids : new[i].status = IF i = k THEN st ELSE mem[i].status,
             FlushOrRollBack(new, o), UNCHANGED <<up, submitted>>,
             settled' = IF o = "ok" THEN settled \cup {k} ELSE settled,
             \A i \in Ids : stage'[i] # "idle" => stage[i] # "idle"
      PROVE  QueueInv'
  <2>1. ~(k > submitted)
    BY <1>3, <1>inv DEF FreshIsUnknown, Present
  <2>2. \A i \in Ids : /\ mem'[i].status \in {mem[i].status, IF i = k THEN st ELSE mem[i].status}
                       /\ disk'[i].status \in {disk[i].status, IF i = k THEN st ELSE mem[i].status}
    BY <1>3, FlushEffect
  <2>3. o = "ok" => mem'[k].status = st /\ disk'[k].status = st
    BY <1>3, FlushEffect
  <2>4. DownIsEmpty'
    BY <1>3 DEF DownIsEmpty
  <2>5. st \notin Live
    BY DEF Terminal
  <2>6. \A i \in Ids : i > submitted => mem'[i].status = "absent" /\ disk'[i].status = "absent"
    BY <2>1, <2>2, <1>inv DEF FreshIsUnknown
  <2>7. \A i \in settled' \ settled :
          ~(i > submitted) /\ mem'[i].status \notin Live /\ disk'[i].status \notin Live
    BY <1>3, <2>1, <2>3, <2>5
  <2>8. settled' \subseteq Ids
    BY <1>3, <1>typ
  <2> QED
    BY <1>3, <2>2, <2>4, <2>5, <2>6, <2>7, <2>8, NothingBecomesLive
<1>4. ASSUME UNCHANGED <<up, submitted, settled, mem, disk>>,
             \A i \in Ids : stage'[i] # "idle" => stage[i] # "idle"
      PROVE  QueueInv'
  BY <1>4, <1>inv, <1>typ
  DEF QueueInv, DownIsEmpty, FreshIsUnknown, InFlightNotQueued, SettledIsOver
<1>5. ASSUME NEW k \in Ids, NEW st \in Terminal, NEW new, NEW o, up,
             \A i \in Ids : new[i].status = IF i = k THEN st ELSE mem[i].status,
             Settle(k, new, o), UNCHANGED <<up, submitted>>,
             \A i \in Ids : stage'[i] # "idle" => stage[i] # "idle"
      PROVE  QueueInv'
  BY <1>5, <1>3, <1>4 DEF Settle
<1>6. ASSUME NEW k \in Ids, NEW o, Cancel(k, o) PROVE QueueInv'
  BY <1>6, <1>5, ImageStatus DEF Cancel, Terminal
<1>7. ASSUME NEW k \in Ids, NEW st \in {"completed", "failed"}, NEW o, Finish(k, st, o)
      PROVE  QueueInv'
  <2>1. \A i \in Ids : stage'[i] # "idle" => stage[i] # "idle"
    BY <1>7 DEF Finish, TypeOK
  <2>2. \A i \in Ids : Finished(k, st)[i].status = IF i = k THEN st ELSE mem[i].status
    BY ImageStatus
  <2> QED
    BY <1>7, <2>1, <2>2, <1>5 DEF Finish, Terminal
<1>8. ASSUME NEW k \in Ids, NEW o, ReportDelivered(k, o) PROVE QueueInv'
  <2>1. \A i \in Ids : stage'[i] # "idle" => stage[i] # "idle"
    BY <1>8 DEF ReportDelivered, TypeOK
  <2>2. \A i \in Ids : /\ mem'[i].status = mem[i].status
                       /\ disk'[i].status \in {mem[i].status, disk[i].status}
    BY <1>8, ImageStatus, FlushEffect DEF ReportDelivered
  <2>3. DownIsEmpty' /\ submitted' = submitted /\ settled' = settled
    BY <1>8 DEF ReportDelivered, DownIsEmpty
  <2>4. \A i \in Ids : i > submitted => mem'[i].status = "absent" /\ disk'[i].status = "absent"
    BY <2>2, <1>inv DEF FreshIsUnknown
  <2> QED
    BY <2>1, <2>2, <2>3, <2>4, <1>typ, NothingBecomesLive
<1>9. ASSUME NEW k \in Ids, ReportUnmarked(k) PROVE QueueInv'
  <2>1. \A i \in Ids : stage'[i] # "idle" => stage[i] # "idle"
    BY <1>9 DEF ReportUnmarked, TypeOK
  <2> QED
    BY <1>9, <2>1, <1>4 DEF ReportUnmarked
<1>10. ASSUME NEW o, Prune(o) PROVE QueueInv'
  <2>1. \A i \in Ids : /\ mem'[i].status \in {"absent", mem[i].status}
                       /\ disk'[i].status \in {"absent", mem[i].status, disk[i].status}
    BY <1>10, PrunedStatus, FlushEffect DEF Prune
  <2>2. DownIsEmpty' /\ submitted' = submitted /\ settled' = settled /\ stage' = stage
    BY <1>10 DEF Prune, DownIsEmpty
  <2>3. \A i \in Ids : i > submitted => mem'[i].status = "absent" /\ disk'[i].status = "absent"
    BY <2>1, <1>inv DEF FreshIsUnknown
  <2> QED
    BY <2>1, <2>2, <2>3, <1>typ, NothingBecomesLive
<1>11. CASE Tick
  BY <1>11, <1>4 DEF Tick
<1>12. CASE Crash
  <2>1. /\ \A i \in Ids : mem'[i].status = "absent" /\ stage'[i] = "idle"
        /\ disk' = disk /\ submitted' = submitted /\ settled' = settled
    BY <1>12, GoDownEffect DEF Crash
  <2>2. DownIsEmpty'
    BY <2>1 DEF DownIsEmpty
  <2>3. \A i \in Ids : i > submitted => disk'[i].status = "absent"
    BY <2>1, <1>inv DEF FreshIsUnknown
  <2> QED
    BY <2>1, <2>2, <2>3, <1>typ, NothingBecomesLive
<1>13. ASSUME NEW r \in Requests, CrashInSubmit(r) PROVE QueueInv'
  <2> DEFINE n == submitted + 1
  <2>1. n \in Ids /\ n > submitted /\ submitted' = n /\ settled' = settled
    BY <1>13, <1>typ, FreshId DEF CrashInSubmit
  <2>2. \A i \in Ids : disk'[i].status = IF i = n THEN "queued" ELSE mem[i].status
    BY <1>13, <2>1, ImageStatus DEF CrashInSubmit
  <2>3. \A i \in Ids : mem'[i].status = "absent" /\ stage'[i] = "idle"
    BY <1>13, GoDownEffect DEF CrashInSubmit
  <2>4. n \notin settled
    BY <2>1, <1>inv DEF FreshIsUnknown
  <2>5. DownIsEmpty' /\ InFlightNotQueued'
    BY <2>3 DEF DownIsEmpty, InFlightNotQueued
  <2>6. FreshIsUnknown'
    BY <2>1, <2>2, <2>3, <1>inv, <1>typ DEF FreshIsUnknown
  <2>7. SettledIsOver'
    BY <2>1, <2>2, <2>3, <2>4, <1>inv, <1>typ DEF SettledIsOver
  <2> QED
    BY <2>5, <2>6, <2>7 DEF QueueInv
<1>14. ASSUME NEW k \in Ids, CrashInUpdate(k) PROVE QueueInv'
  <2>1. /\ \A i \in Ids : mem'[i].status = "absent" /\ stage'[i] = "idle"
        /\ submitted' = submitted /\ settled' = settled
    BY <1>14, GoDownEffect DEF CrashInUpdate
  <2> DEFINE Moved == \A i \in Ids :
               \/ disk'[i].status \in {"absent", mem[i].status}
               \/ i = k /\ mem[k].status # "absent" /\ disk'[k].status \notin Live
               \/ i = k /\ mem[k].status = "queued"
  <2>2. Moved
    <3>1. CASE (IsBest(k, Queued) \/ IsBest(k, WarmQueued)) /\ disk' = Started(k)
      BY <3>1, ImageStatus DEF IsBest, Queued, WarmQueued
    <3>2. ASSUME Present(k), NEW st \in {"completed", "failed"}, disk' = Finished(k, st)
          PROVE Moved
      BY <3>2, ImageStatus DEF Present, Live
    <3>3. CASE Present(k) /\ disk' = Cancelled(k)
      BY <3>3, ImageStatus DEF Present, Live
    <3>4. CASE disk' = Marked(k)
      BY <3>4, ImageStatus
    <3>5. CASE disk' = Pruned
      BY <3>5, PrunedStatus
    <3> QED
      BY <1>14, <3>1, <3>2, <3>3, <3>4, <3>5 DEF CrashInUpdate
  <2>3. DownIsEmpty' /\ InFlightNotQueued'
    BY <2>1 DEF DownIsEmpty, InFlightNotQueued
  <2>4. FreshIsUnknown'
    BY <2>1, <2>2, <1>inv DEF FreshIsUnknown
  <2>5. SettledIsOver'
    BY <2>1, <2>2, <1>inv, <1>typ DEF SettledIsOver
  <2> QED
    BY <2>3, <2>4, <2>5 DEF QueueInv
<1>15. ASSUME NEW o, Restart(o) PROVE QueueInv'
  <2>1. /\ submitted' = submitted /\ settled' = settled /\ stage' = stage /\ up'
        /\ \A i \in Ids : stage[i] = "idle"
    BY <1>15, <1>inv DEF Restart, DownIsEmpty
  <2>2. \A i \in Ids :
          /\ \/ mem'[i].status \in {"absent", disk[i].status}
             \/ disk[i].status = "running" /\ mem'[i].status = "queued"
          /\ \/ disk'[i].status = disk[i].status
             \/ disk[i].status = "running" /\ disk'[i].status = "queued"
    <3>1. CASE mem' = disk /\ disk' = disk
      BY <3>1
    <3>2. CASE mem' \in {Recovered(disk), NoTasks} /\ disk' \in {disk, Recovered(disk)}
      <4>1. \A i \in Ids :
              /\ \/ Recovered(disk)[i].status = disk[i].status
                 \/ disk[i].status = "running" /\ Recovered(disk)[i].status = "queued"
              /\ NoTasks[i].status = "absent"
        BY RecoveredStatus, NewTaskType DEF NoTasks
      <4> QED
        BY <3>2, <4>1
    <3> QED
      BY <1>15, <3>1, <3>2 DEF Restart
  <2>3. DownIsEmpty' /\ InFlightNotQueued'
    BY <2>1 DEF DownIsEmpty, InFlightNotQueued
  <2>4. FreshIsUnknown'
    BY <2>1, <2>2, <1>inv DEF FreshIsUnknown
  <2>5. SettledIsOver'
    BY <2>1, <2>2, <1>inv, <1>typ DEF SettledIsOver
  <2> QED
    BY <2>3, <2>4, <2>5 DEF QueueInv
<1>16. CASE UNCHANGED vars
  BY <1>16, <1>4 DEF vars
<1>17. ASSUME NEW k \in Ids, NEW o, NextCold(k, o) \/ NextWarm(k, o) PROVE QueueInv'
  BY <1>17, <1>2 DEF NextCold, NextWarm, IsBest, Queued, WarmQueued
<1> QED
  BY <1>1, <1>6, <1>7, <1>8, <1>9, <1>10, <1>11, <1>12, <1>13, <1>14, <1>15, <1>16, <1>17
  DEF Next, ClientStep, DispatcherStep, CrashStep

(* A task that is being worked on or reported is never queued. *)
THEOREM InFlightSafe == Spec => []InFlightNotQueued
<1>1. TypeOK /\ QueueInv /\ [Next]_vars => QueueInv'
  BY InvStep
<1>2. QueueInv => InFlightNotQueued
  BY DEF QueueInv
<1> QED
  BY <1>1, <1>2, InvInit, TypeCorrect, PTL DEF Spec

(* What has a recorded outcome is never handed out again, crashes included. *)
THEOREM SettledSafe == Spec => SettledNeverRuns
<1> DEFINE Kept == \A i \in settled : stage[i] = "idle" => stage'[i] = "idle"
<1>1. TypeOK /\ QueueInv /\ [Next]_vars => [Kept]_vars
  <2> SUFFICES ASSUME TypeOK, QueueInv, Next PROVE Kept
    OBVIOUS
  <2>1. ASSUME NEW k \in Ids, NEW o, HandOut(k, o), mem[k].status = "queued" PROVE Kept
    BY <2>1 DEF HandOut, QueueInv, SettledIsOver, Live, TypeOK
  <2>2. ASSUME NEW k \in Ids, NEW o, NextCold(k, o) \/ NextWarm(k, o) PROVE Kept
    BY <2>1, <2>2 DEF NextCold, NextWarm, IsBest, Queued, WarmQueued
  <2>3. ASSUME NEW k \in Ids, NEW st, NEW o, Finish(k, st, o) PROVE Kept
    BY <2>3 DEF Finish, TypeOK
  <2>4. ASSUME NEW k \in Ids, NEW o, ReportDelivered(k, o) \/ ReportUnmarked(k) PROVE Kept
    BY <2>4 DEF ReportDelivered, ReportUnmarked, TypeOK
  <2>5. CASE CrashStep
    BY <2>5 DEF CrashStep, Crash, CrashInSubmit, CrashInUpdate, GoDown, TypeOK
  <2>6. ASSUME NEW o, ClientStep(o) \/ Prune(o) \/ Restart(o) \/ Tick PROVE stage' = stage
    BY <2>6 DEF ClientStep, Submit, Cancel, Prune, Restart, Tick
  <2> QED
    BY <2>2, <2>3, <2>4, <2>5, <2>6 DEF Next, DispatcherStep
<1>2. TypeOK /\ QueueInv /\ [Next]_vars => QueueInv'
  BY InvStep
<1> QED
  BY <1>1, <1>2, InvInit, TypeCorrect, PTL DEF Spec, SettledNeverRuns

-----------------------------------------------------------------------------
(* A step of a running daemon that ends nobody but attempted tasks.         *)
LEMMA LiveStaysLive ==
  ASSUME AcceptedSurvives, up, answer' = answer, attempted \subseteq attempted',
         \A i \in Ids : i \notin attempted' /\ mem[i].status \in Live =>
           /\ disk'[i].status = disk[i].status \/ disk'[i].status \in Live
           /\ up' => mem'[i].status \in Live
  PROVE  AcceptedSurvives'
BY DEF AcceptedSurvives

LEMMA AcceptedStep ==
  ASSUME LoadOutcomes \subseteq {"ok"}
  PROVE  TypeOK /\ AcceptedSurvives /\ [Next]_vars => AcceptedSurvives'
<1> SUFFICES ASSUME TypeOK, AcceptedSurvives, [Next]_vars PROVE AcceptedSurvives'
  OBVIOUS
<1> USE DEF store, clients
<1>1. ASSUME NEW r \in Requests, NEW o, Submit(r, o) PROVE AcceptedSurvives'
  <2> DEFINE n == submitted + 1
  <2>1. n \in Ids /\ up /\ up'
    BY <1>1, FreshId DEF Submit
  <2>2. \A i \in Ids : Submitted(n)[i].status = IF i = n THEN "queued" ELSE mem[i].status
    BY <2>1, ImageStatus
  <2>3. /\ mem' \in {mem, Submitted(n)} /\ disk' \in {disk, Submitted(n)}
        /\ o = "ok" => mem' = Submitted(n) /\ disk' = Submitted(n)
    BY <1>1, FlushEffect DEF Submit
  <2>4. attempted' = attempted
    BY <1>1 DEF Submit
  <2>5. \A i \in Ids : answer'[i] = "accepted" =>
          IF i = n THEN o = "ok" ELSE answer[i] = "accepted"
    BY <1>1, <2>1 DEF Submit, TypeOK
  <2> QED
    BY <2>1, <2>2, <2>3, <2>4, <2>5 DEF AcceptedSurvives, Live
<1>2. ASSUME NEW k \in Ids, NEW o, HandOut(k, o) PROVE AcceptedSurvives'
  <2>1. \A i \in Ids : Started(k)[i].status \in {"running", mem[i].status}
    BY ImageStatus
  <2>2. mem' \in {mem, Started(k)} /\ disk' \in {disk, Started(k)}
    BY <1>2, FlushEffect DEF HandOut
  <2>3. up /\ answer' = answer /\ attempted' = attempted
    BY <1>2 DEF HandOut
  <2> QED
    BY <2>1, <2>2, <2>3, LiveStaysLive DEF Live
<1>3. ASSUME NEW k \in Ids, NEW new, NEW o, up, answer' = answer, Settle(k, new, o),
             \A i \in Ids \ {k} : new[i].status = mem[i].status
      PROVE  AcceptedSurvives'
  <2>1. mem' \in {mem, new} /\ disk' \in {disk, new}
    BY <1>3, FlushEffect DEF Settle
  <2>2. attempted' = attempted \cup {k}
    BY <1>3 DEF Settle
  <2> QED
    BY <1>3, <2>1, <2>2, LiveStaysLive
<1>4. ASSUME NEW k \in Ids, NEW o, Cancel(k, o) PROVE AcceptedSurvives'
  <2>1. \A i \in Ids \ {k} : Cancelled(k)[i].status = mem[i].status
    BY ImageStatus
  <2> QED
    BY <1>4, <2>1, <1>3 DEF Cancel
<1>5. ASSUME NEW k \in Ids, NEW st, NEW o, Finish(k, st, o) PROVE AcceptedSurvives'
  <2>1. \A i \in Ids \ {k} : Finished(k, st)[i].status = mem[i].status
    BY ImageStatus
  <2> QED
    BY <1>5, <2>1, <1>3 DEF Finish
<1>6. ASSUME NEW k \in Ids, NEW o, ReportDelivered(k, o) PROVE AcceptedSurvives'
  <2>1. \A i \in Ids : Marked(k)[i].status = mem[i].status
    BY ImageStatus
  <2>2. mem' = Marked(k) /\ disk' \in {disk, Marked(k)}
    BY <1>6, FlushEffect DEF ReportDelivered
  <2> QED
    BY <1>6, <2>1, <2>2, LiveStaysLive DEF ReportDelivered
<1>7. ASSUME NEW k \in Ids, ReportUnmarked(k) PROVE AcceptedSurvives'
  BY <1>7, LiveStaysLive DEF ReportUnmarked
<1>8. \A i \in Ids : mem[i].status \in Live => Pruned[i].status = mem[i].status
  BY PrunedStatus DEF Live, Terminal
<1>9. ASSUME NEW o, Prune(o) PROVE AcceptedSurvives'
  <2>1. mem' = Pruned /\ disk' \in {disk, Pruned}
    BY <1>9, FlushEffect DEF Prune
  <2> QED
    BY <1>8, <1>9, <2>1, LiveStaysLive DEF Prune
<1>10. CASE Tick
  BY <1>10 DEF Tick, AcceptedSurvives
<1>11. CASE Crash
  BY <1>11, LiveStaysLive DEF Crash, GoDown
<1>12. ASSUME NEW r \in Requests, CrashInSubmit(r) PROVE AcceptedSurvives'
  <2> DEFINE n == submitted + 1
  <2>1. n \in Ids
    BY <1>12, FreshId DEF CrashInSubmit
  <2>2. \A i \in Ids : Submitted(n)[i].status \in {"queued", mem[i].status}
    BY <2>1, ImageStatus
  <2> QED
    BY <1>12, <2>2, LiveStaysLive DEF CrashInSubmit, GoDown, Live
<1>13. ASSUME NEW k \in Ids, CrashInUpdate(k) PROVE AcceptedSurvives'
  <2> DEFINE Kept == \A i \in Ids : i \notin attempted' /\ mem[i].status \in Live =>
                       disk'[i].status \in Live
  <2>1. up /\ ~up' /\ answer' = answer /\ attempted \subseteq attempted'
    BY <1>13 DEF CrashInUpdate, GoDown
  <2>2. Kept
    <3>1. CASE disk' = Started(k)
      BY <3>1, ImageStatus DEF Live
    <3>2. ASSUME NEW st, disk' = Finished(k, st), attempted' = attempted \cup {k} PROVE Kept
      BY <3>2, ImageStatus
    <3>3. CASE disk' = Cancelled(k) /\ attempted' = attempted \cup {k}
      BY <3>3, ImageStatus
    <3>4. CASE disk' = Marked(k)
      BY <3>4, ImageStatus
    <3>5. CASE disk' = Pruned
      BY <3>5, <1>8
    <3> QED
      BY <1>13, <3>1, <3>2, <3>3, <3>4, <3>5 DEF CrashInUpdate
  <2> QED
    BY <2>1, <2>2, LiveStaysLive
<1>14. ASSUME NEW o, Restart(o) PROVE AcceptedSurvives'
  <2>1. \A i \in Ids : disk[i].status \in Live => Recovered(disk)[i].status \in Live
    BY RecoveredStatus DEF Live
  <2>2. mem' = disk' /\ disk' \in {disk, Recovered(disk)}
    BY <1>14 DEF Restart
  <2>3. answer' = answer /\ attempted' = attempted
    BY <1>14 DEF Restart
  <2> QED
    BY <2>1, <2>2, <2>3 DEF AcceptedSurvives
<1>15. CASE UNCHANGED vars
  BY <1>15 DEF vars, AcceptedSurvives
<1>16. ASSUME NEW k \in Ids, NEW o, NextCold(k, o) \/ NextWarm(k, o) PROVE AcceptedSurvives'
  BY <1>16, <1>2 DEF NextCold, NextWarm
<1> QED
  BY <1>1, <1>4, <1>5, <1>6, <1>7, <1>9, <1>10, <1>11, <1>12, <1>13, <1>14, <1>15, <1>16
  DEF Next, ClientStep, DispatcherStep, CrashStep

(* What was accepted survives every crash and every failing flush, as long  *)
(* as the flush LoadQueue makes at startup does not fail.                   *)
THEOREM Durable ==
  ASSUME LoadOutcomes \subseteq {"ok"}
  PROVE  Spec => []AcceptedSurvives
<1>1. Init => AcceptedSurvives
  BY DEF Init, AcceptedSurvives
<1>2. TypeOK /\ AcceptedSurvives /\ [Next]_vars => AcceptedSurvives'
  BY AcceptedStep
<1> QED
  BY <1>1, <1>2, TypeCorrect, PTL DEF Spec

-----------------------------------------------------------------------------
(* A step in which no task becomes queued or running, and after which every *)
(* dispatcher that has gone away had tried to end its task.                 *)
LEMMA OrderKept ==
  ASSUME OrderInv, req' = req, attempted \subseteq attempted',
         \A i \in Ids :
           /\ mem'[i].status \in Live => mem'[i].status = mem[i].status
           /\ stage'[i] = "reporting" => stage[i] = "reporting" \/ i \in attempted'
           /\ mem'[i].status = "running" /\ stage'[i] = "idle" =>
                stage[i] = "idle" \/ i \in attempted'
  PROVE  OrderInv'
<1> USE DEF Live
<1>1. RunningIsOwned'
  BY DEF OrderInv, RunningIsOwned
<1>2. ReportingIsAttempted'
  BY DEF OrderInv, ReportingIsAttempted
<1>3. NoOvertaking'
  BY DEF OrderInv, NoOvertaking
<1> QED
  BY <1>1, <1>2, <1>3 DEF OrderInv

(* The best task of S is not behind an earlier one that is as urgent.        *)
LEMMA BestIsFirst ==
  ASSUME TypeOK, NEW S \in SUBSET Ids, NEW i \in S, NEW j \in S,
         IsBest(j, S), i < j, req[i].prio <= req[j].prio
  PROVE  FALSE
<1>1. i \in Nat /\ j \in Nat /\ req[i].prio \in Int /\ req[j].prio \in Int
  BY BoundsAssumption, RequestsAssumption DEF TypeOK, Ids
<1>2. Before(j, i)
  BY <1>1 DEF IsBest
<1> QED
  BY <1>1, <1>2 DEF Before

LEMMA OrderStep == TypeOK /\ QueueInv /\ OrderInv /\ [Next]_vars => OrderInv'
<1> SUFFICES ASSUME TypeOK, QueueInv, OrderInv, [Next]_vars PROVE OrderInv'
  OBVIOUS
<1> USE DEF store, clients, Live
<1>inv. /\ DownIsEmpty /\ FreshIsUnknown
        /\ RunningIsOwned /\ ReportingIsAttempted /\ NoOvertaking
  BY DEF QueueInv, OrderInv
<1>typ. /\ submitted \in Nat /\ \A i \in Ids : i \in Nat
        /\ stage \in [Ids -> {"idle", "working", "reporting"}] /\ req \in [Ids -> Requests]
  BY BoundsAssumption DEF TypeOK, Ids
<1>1. ASSUME NEW r \in Requests, NEW o, Submit(r, o) PROVE OrderInv'
  <2> DEFINE n == submitted + 1
  <2>1. n \in Ids /\ n > submitted
    BY <1>1, <1>typ, FreshId DEF Submit
  <2>2. \A i \in Ids : mem'[i].status \in {mem[i].status, IF i = n THEN "queued" ELSE mem[i].status}
    BY <1>1, <2>1, ImageStatus, FlushEffect DEF Submit
  <2>3. stage' = stage /\ attempted' = attempted /\ req' = [req EXCEPT ![n] = r]
    BY <1>1 DEF Submit
  <2>4. \A i \in Ids : i >= n => mem[i].status = "absent"
    BY <2>1, <1>inv, <1>typ DEF FreshIsUnknown
  <2>5. RunningIsOwned' /\ ReportingIsAttempted'
    BY <2>2, <2>3, <1>inv DEF RunningIsOwned, ReportingIsAttempted
  <2>6. NoOvertaking'
    <3> SUFFICES ASSUME NEW i \in Ids, NEW j \in Ids, i < j, mem'[j].status = "running",
                        req'[i].prio <= req'[j].prio,
                        (req'[j].warm /\ ~req'[j].writes) => (req'[i].warm /\ ~req'[i].writes)
                 PROVE  mem'[i].status # "queued"
      BY DEF NoOvertaking
    <3>1. mem[j].status = "running" /\ j < n /\ i < n
      BY <2>1, <2>2, <2>4, <1>typ
    <3>2. req'[i] = req[i] /\ req'[j] = req[j] /\ mem'[i].status = mem[i].status
      BY <2>2, <2>3, <3>1, <1>typ
    <3> QED
      BY <3>1, <3>2, <1>inv DEF NoOvertaking
  <2> QED
    BY <2>5, <2>6 DEF OrderInv
<1>2. ASSUME NEW k \in Ids, NEW o, HandOut(k, o),
             IsBest(k, Queued) \/ IsBest(k, WarmQueued)
      PROVE  OrderInv'
  <2>1. \A i \in Ids : /\ o = "ok" => mem'[i].status = IF i = k THEN "running" ELSE mem[i].status
                       /\ o # "ok" => mem'[i].status = mem[i].status
    BY <1>2, ImageStatus DEF HandOut, FlushOrRollBack
  <2>2. /\ stage' = IF o = "ok" THEN [stage EXCEPT ![k] = "working"] ELSE stage
        /\ attempted' = attempted /\ req' = req
    BY <1>2 DEF HandOut
  <2>3. RunningIsOwned' /\ ReportingIsAttempted'
    BY <2>1, <2>2, <1>inv, <1>typ DEF RunningIsOwned, ReportingIsAttempted
  <2>4. NoOvertaking'
    <3> SUFFICES ASSUME NEW i \in Ids, NEW j \in Ids, i < j, mem'[j].status = "running",
                        req[i].prio <= req[j].prio,
                        (req[j].warm /\ ~req[j].writes) => (req[i].warm /\ ~req[i].writes),
                        mem'[i].status = "queued"
                 PROVE  FALSE
      BY <2>2 DEF NoOvertaking
    <3>1. mem[i].status = "queued"
      BY <2>1
    <3>2. mem[j].status # "running"
      BY <3>1, <1>inv DEF NoOvertaking
    <3>3. j = k
      BY <2>1, <3>2
    <3>4. i \in Queued /\ Queued \subseteq Ids /\ WarmQueued \subseteq Ids
      BY <3>1 DEF Queued, WarmQueued
    <3>5. j \in WarmQueued => i \in WarmQueued
      BY <3>4 DEF WarmQueued
    <3>6. j \in Queued \/ j \in WarmQueued
      BY <1>2, <3>3 DEF IsBest
    <3>7. CASE IsBest(k, Queued)
      <4>1. j \in Queued
        BY <3>3, <3>7 DEF IsBest
      <4> QED
        BY <3>3, <3>4, <3>7, <4>1, BestIsFirst
    <3>8. CASE IsBest(k, WarmQueued)
      <4>1. j \in WarmQueued
        BY <3>3, <3>8 DEF IsBest
      <4> QED
        BY <3>3, <3>4, <3>5, <3>8, <4>1, BestIsFirst
    <3> QED
      BY <1>2, <3>7, <3>8
  <2> QED
    BY <2>3, <2>4 DEF OrderInv
<1>3. ASSUME NEW k \in Ids, NEW st \in Terminal, NEW new, NEW o,
             \A i \in Ids : new[i].status = IF i = k THEN st ELSE mem[i].status,
             Settle(k, new, o), req' = req,
             \A i \in Ids : stage'[i] \in {stage[i], IF i = k THEN "reporting" ELSE stage[i]}
      PROVE  OrderInv'
  <2>1. attempted' = attempted \cup {k}
    BY <1>3 DEF Settle
  <2>2. \A i \in Ids : mem'[i].status \in {mem[i].status, IF i = k THEN st ELSE mem[i].status}
    BY <1>3, FlushEffect DEF Settle
  <2>3. st \notin Live
    BY DEF Terminal
  <2>4. \A i \in Ids :
          /\ mem'[i].status \in Live => mem'[i].status = mem[i].status
          /\ stage'[i] = "reporting" => stage[i] = "reporting" \/ i \in attempted'
          /\ stage'[i] = "idle" => stage[i] = "idle"
    BY <1>3, <1>typ, <2>1, <2>2, <2>3
  <2> QED
    BY <1>3, <2>1, <2>4, OrderKept
<1>4. ASSUME NEW k \in Ids, NEW o, Cancel(k, o) PROVE OrderInv'
  BY <1>4, <1>3, ImageStatus DEF Cancel, Terminal
<1>5. ASSUME NEW k \in Ids, NEW st \in {"completed", "failed"}, NEW o, Finish(k, st, o)
      PROVE  OrderInv'
  <2> DEFINE new == Finished(k, st)
  <2>1. \A i \in Ids : new[i].status = IF i = k THEN st ELSE mem[i].status
    BY ImageStatus
  <2>2. st \in Terminal
    BY DEF Terminal
  <2>3. Settle(k, new, o) /\ req' = req /\ stage' = [stage EXCEPT ![k] = "reporting"]
    BY <1>5 DEF Finish
  <2>4. \A i \in Ids : stage'[i] \in {stage[i], IF i = k THEN "reporting" ELSE stage[i]}
    BY <2>3, <1>typ
  <2> HIDE DEF new
  <2> QED
    BY <2>1, <2>2, <2>3, <2>4, <1>3
<1>6. ASSUME NEW k \in Ids, stage[k] = "reporting", stage' = [stage EXCEPT ![k] = "idle"],
             \A i \in Ids : mem'[i].status = mem[i].status,
             UNCHANGED <<req, attempted>>
      PROVE  OrderInv'
  <2>1. k \in attempted
    BY <1>6, <1>inv DEF ReportingIsAttempted
  <2> QED
    BY <1>6, <1>typ, <2>1, OrderKept
<1>7. ASSUME NEW k \in Ids, NEW o, ReportDelivered(k, o) PROVE OrderInv'
  <2>1. \A i \in Ids : mem'[i].status = mem[i].status
    BY <1>7, ImageStatus, FlushEffect DEF ReportDelivered
  <2> QED
    BY <1>7, <2>1, <1>6 DEF ReportDelivered
<1>8. ASSUME NEW k \in Ids, ReportUnmarked(k) PROVE OrderInv'
  BY <1>8, <1>6 DEF ReportUnmarked
<1>9. ASSUME NEW o, Prune(o) PROVE OrderInv'
  <2>1. \A i \in Ids : mem'[i].status \in {"absent", mem[i].status}
    BY <1>9, PrunedStatus, FlushEffect DEF Prune
  <2> QED
    BY <1>9, <2>1, OrderKept DEF Prune
<1>10. ASSUME GoDown PROVE OrderInv'
  BY <1>10, GoDownEffect
  DEF OrderInv, RunningIsOwned, ReportingIsAttempted, NoOvertaking
<1>11. CASE CrashStep
  BY <1>10, <1>11 DEF CrashStep, Crash, CrashInSubmit, CrashInUpdate
<1>12. ASSUME NEW o, Restart(o) PROVE OrderInv'
  <2>1. \A i \in Ids : mem'[i].status # "running"
    <3>1. CASE (\A i \in Ids : disk[i].status # "running") /\ mem' = disk
      BY <3>1
    <3>2. CASE mem' \in {Recovered(disk), NoTasks}
      BY <3>2, RecoveredStatus, NewTaskType DEF NoTasks
    <3> QED
      BY <1>12, <3>1, <3>2 DEF Restart
  <2>2. stage' = stage /\ attempted' = attempted
    BY <1>12 DEF Restart
  <2> QED
    BY <2>1, <2>2, <1>inv DEF OrderInv, RunningIsOwned, ReportingIsAttempted, NoOvertaking
<1>13. CASE Tick \/ UNCHANGED vars
  BY <1>13, OrderKept DEF Tick, vars
<1>14. ASSUME NEW k \in Ids, NEW o, NextCold(k, o) \/ NextWarm(k, o) PROVE OrderInv'
  BY <1>14, <1>2 DEF NextCold, NextWarm
<1> QED
  BY <1>1, <1>4, <1>5, <1>7, <1>8, <1>9, <1>11, <1>12, <1>13, <1>14
  DEF Next, ClientStep, DispatcherStep

LEMMA OrderInvHolds == Spec => []OrderInv
<1>1. Init => OrderInv
  BY NewTaskType
  DEF Init, NoTasks, OrderInv, RunningIsOwned, ReportingIsAttempted, NoOvertaking
<1>2. TypeOK /\ QueueInv /\ [Next]_vars => QueueInv'
  BY InvStep
<1>3. TypeOK /\ QueueInv /\ OrderInv /\ [Next]_vars => OrderInv'
  BY OrderStep
<1> QED
  BY <1>1, <1>2, <1>3, InvInit, TypeCorrect, PTL DEF Spec

(* A running task has a dispatcher, or its outcome could not be recorded.   *)
THEOREM RunningOwned == Spec => []RunningIsOwned
<1>1. OrderInv => RunningIsOwned
  BY DEF OrderInv
<1> QED
  BY <1>1, OrderInvHolds, PTL

(* No task runs while an earlier one that is as urgent still waits, whether *)
(* both were just submitted, recovered from disk or rolled back.            *)
THEOREM FirstComeFirstServed == Spec => []NoOvertaking
<1>1. OrderInv => NoOvertaking
  BY DEF OrderInv
<1> QED
  BY <1>1, OrderInvHolds, PTL

-----------------------------------------------------------------------------
(* What each method does to the end time of each task. *)
LEMMA ImageEnd ==
  ASSUME TypeOK, NEW i \in Ids, NEW j \in Ids
  PROVE  /\ Submitted(i)[j].completedAt = IF j = i THEN Never ELSE mem[j].completedAt
         /\ Started(i)[j].completedAt = mem[j].completedAt
         /\ \A st : Finished(i, st)[j].completedAt = IF j = i THEN now ELSE mem[j].completedAt
         /\ Cancelled(i)[j].completedAt = mem[j].completedAt
         /\ Marked(i)[j].completedAt = mem[j].completedAt
<1>1. mem[i] \in Task /\ mem[j] \in Task /\ mem \in [Ids -> Task]
  BY DEF TypeOK
<1>2. Submitted(i)[j].completedAt = IF j = i THEN Never ELSE mem[j].completedAt
  BY <1>1 DEF Submitted, NewTask, NoTask
<1>3. Started(i)[j].completedAt = mem[j].completedAt
  BY <1>1 DEF Started, Task
<1>4. \A st : Finished(i, st)[j].completedAt = IF j = i THEN now ELSE mem[j].completedAt
  BY <1>1 DEF Finished, Task
<1>5. Cancelled(i)[j].completedAt = mem[j].completedAt
  BY <1>1 DEF Cancelled, Task
<1>6. Marked(i)[j].completedAt = mem[j].completedAt
  BY <1>1 DEF Marked, Task
<1> QED
  BY <1>2, <1>3, <1>4, <1>5, <1>6

LEMMA PrunedTask ==
  ASSUME NEW j \in Ids
  PROVE  Pruned[j] = IF Expired(mem[j]) THEN NoTask ELSE mem[j]
BY DEF Pruned

LEMMA RecoveredEnd ==
  ASSUME TypeOK, NEW j \in Ids
  PROVE  Recovered(disk)[j].completedAt = disk[j].completedAt
BY DEF Recovered, TypeOK, Task

(* LiveHasNoEnd, for a step whose images give nobody who is live an end.    *)
LEMMA NoEndStep == TypeOK /\ QueueInv /\ LiveHasNoEnd /\ [Next]_vars => LiveHasNoEnd'
<1> SUFFICES ASSUME TypeOK, QueueInv, LiveHasNoEnd, [Next]_vars PROVE LiveHasNoEnd'
  OBVIOUS
<1> USE DEF store, clients, Live
<1> DEFINE Timeless(f) == \A i \in Ids : f[i].status \in Live => f[i].completedAt = Never
<1>typ. stage \in [Ids -> {"idle", "working", "reporting"}] /\ NoTask.completedAt = Never
  BY DEF TypeOK, NoTask
<1>1. \A i \in Ids : Timeless(Submitted(i)) /\ Timeless(Cancelled(i)) /\ Timeless(Marked(i))
  BY ImageStatus, ImageEnd DEF LiveHasNoEnd
<1>2. \A i \in Ids : mem[i].status = "queued" => Timeless(Started(i))
  BY ImageStatus, ImageEnd DEF LiveHasNoEnd
<1>3. ASSUME NEW i \in Ids, NEW st \in {"completed", "failed"} PROVE Timeless(Finished(i, st))
  BY ImageStatus, ImageEnd DEF LiveHasNoEnd
<1>4. Timeless(Pruned)
  BY PrunedTask, NewTaskType DEF LiveHasNoEnd
<1>5. Timeless(Recovered(disk)) /\ Timeless(NoTasks) /\ Timeless(disk) /\ Timeless(mem)
  BY RecoveredStatus, RecoveredEnd, NewTaskType DEF LiveHasNoEnd, NoTasks
<1> DEFINE Quiet == \A i \in Ids : stage'[i] = "working" =>
                      stage[i] = "working" /\ mem'[i].completedAt \in {mem[i].completedAt, Never}
<1>6. ASSUME Timeless(mem'), Timeless(disk'), Quiet PROVE LiveHasNoEnd'
  BY <1>6 DEF LiveHasNoEnd
<1> HIDE DEF Timeless
<1>7. ASSUME NEW new, NEW o, Timeless(new),
             FlushOrRollBack(new, o) \/ FlushRegardless(new, o)
      PROVE  Timeless(mem') /\ Timeless(disk')
  <2>1. mem' \in {mem, new} /\ disk' \in {disk, new}
    BY <1>7, FlushEffect
  <2> QED
    BY <1>5, <1>7, <2>1
<1>8. ASSUME NEW r \in Requests, NEW o, Submit(r, o) PROVE LiveHasNoEnd'
  <2> DEFINE n == submitted + 1
  <2>1. n \in Ids
    BY <1>8, FreshId DEF Submit
  <2>2. FlushOrRollBack(Submitted(n), o) /\ stage' = stage
    BY <1>8 DEF Submit
  <2>3. Timeless(mem') /\ Timeless(disk')
    BY <1>1, <1>7, <2>1, <2>2
  <2>4. Quiet
    BY <2>1, <2>2, ImageEnd, FlushEffect
  <2> QED
    BY <1>6, <2>3, <2>4
<1>9. ASSUME NEW k \in Ids, NEW o, HandOut(k, o), mem[k].status = "queued" PROVE LiveHasNoEnd'
  <2>1. FlushOrRollBack(Started(k), o)
        /\ stage' = IF o = "ok" THEN [stage EXCEPT ![k] = "working"] ELSE stage
    BY <1>9 DEF HandOut
  <2>2. Timeless(mem') /\ Timeless(disk')
    BY <1>2, <1>7, <1>9, <2>1
  <2>3. \A i \in Ids : stage'[i] = "working" => mem'[i].completedAt = Never
    <3>1. \A i \in Ids : mem'[i].completedAt = mem[i].completedAt
      BY <2>1, ImageEnd, FlushEffect
    <3>2. \A i \in Ids : stage'[i] = "working" => i = k \/ stage[i] = "working"
      BY <2>1, <1>typ
    <3> QED
      BY <1>9, <3>1, <3>2 DEF LiveHasNoEnd
  <2> QED
    BY <2>2, <2>3 DEF LiveHasNoEnd, Timeless
<1>10. ASSUME NEW k \in Ids, NEW new, NEW o, Settle(k, new, o), Timeless(new),
              \A i \in Ids : stage'[i] = "working" =>
                stage[i] = "working" /\ new[i].completedAt = mem[i].completedAt
       PROVE  LiveHasNoEnd'
  <2>1. FlushOrRollBack(new, o) \/ UNCHANGED <<mem, disk>>
    BY <1>10 DEF Settle
  <2>2. Timeless(mem') /\ Timeless(disk')
    BY <1>5, <1>7, <1>10, <2>1
  <2>3. Quiet
    BY <1>10, <2>1, FlushEffect
  <2> QED
    BY <1>6, <2>2, <2>3
<1>11. ASSUME NEW k \in Ids, NEW o, Cancel(k, o) PROVE LiveHasNoEnd'
  BY <1>1, <1>10, <1>11, ImageEnd DEF Cancel
<1>12. ASSUME NEW k \in Ids, NEW st \in {"completed", "failed"}, NEW o, Finish(k, st, o)
       PROVE  LiveHasNoEnd'
  <2> DEFINE new == Finished(k, st)
  <2>1. Settle(k, new, o) /\ stage' = [stage EXCEPT ![k] = "reporting"]
    BY <1>12 DEF Finish
  <2>2. Timeless(new)
    BY <1>3
  <2>3. \A i \in Ids : stage'[i] = "working" =>
          stage[i] = "working" /\ new[i].completedAt = mem[i].completedAt
    BY <2>1, <1>typ, ImageEnd
  <2> HIDE DEF new
  <2> QED
    BY <1>10, <2>1, <2>2, <2>3
<1>13. ASSUME NEW k \in Ids, NEW o, ReportDelivered(k, o) PROVE LiveHasNoEnd'
  <2>1. FlushRegardless(Marked(k), o) /\ stage' = [stage EXCEPT ![k] = "idle"]
    BY <1>13 DEF ReportDelivered
  <2>2. Quiet
    BY <2>1, <1>typ, ImageEnd, FlushEffect
  <2> QED
    BY <1>1, <1>6, <1>7, <2>1, <2>2
<1>14. ASSUME NEW k \in Ids, ReportUnmarked(k) PROVE LiveHasNoEnd'
  BY <1>5, <1>6, <1>14, <1>typ DEF ReportUnmarked
<1>15. ASSUME NEW o, Prune(o) PROVE LiveHasNoEnd'
  <2>1. FlushRegardless(Pruned, o) /\ stage' = stage
    BY <1>15 DEF Prune
  <2>2. Quiet
    BY <2>1, <1>typ, PrunedTask, FlushEffect
  <2> QED
    BY <1>4, <1>6, <1>7, <2>1, <2>2
<1>16. ASSUME GoDown, Timeless(disk') PROVE LiveHasNoEnd'
  <2>1. mem' = NoTasks /\ \A i \in Ids : stage'[i] = "idle"
    BY <1>16 DEF GoDown
  <2> QED
    BY <1>5, <1>6, <1>16, <2>1
<1>17. CASE Crash
  BY <1>5, <1>16, <1>17 DEF Crash
<1>18. ASSUME NEW r \in Requests, CrashInSubmit(r) PROVE LiveHasNoEnd'
  <2>1. submitted + 1 \in Ids
    BY <1>18, FreshId DEF CrashInSubmit
  <2> QED
    BY <1>1, <1>16, <1>18, <2>1 DEF CrashInSubmit
<1>19. ASSUME NEW k \in Ids, CrashInUpdate(k) PROVE LiveHasNoEnd'
  <2>1. Timeless(disk')
    BY <1>1, <1>2, <1>3, <1>4, <1>19 DEF CrashInUpdate, IsBest, Queued, WarmQueued
  <2> QED
    BY <1>16, <1>19, <2>1 DEF CrashInUpdate
<1>20. ASSUME NEW o, Restart(o) PROVE LiveHasNoEnd'
  <2>1. mem' \in {disk, Recovered(disk), NoTasks} /\ disk' \in {disk, Recovered(disk)}
    BY <1>20 DEF Restart
  <2>2. \A i \in Ids : stage'[i] = "idle"
    BY <1>20 DEF Restart, QueueInv, DownIsEmpty
  <2> QED
    BY <1>5, <1>6, <2>1, <2>2
<1>21. CASE Tick \/ UNCHANGED vars
  BY <1>21 DEF Tick, vars, LiveHasNoEnd
<1>22. ASSUME NEW k \in Ids, NEW o, NextCold(k, o) \/ NextWarm(k, o) PROVE LiveHasNoEnd'
  BY <1>9, <1>22 DEF NextCold, NextWarm, IsBest, Queued, WarmQueued
<1> QED
  BY <1>8, <1>11, <1>12, <1>13, <1>14, <1>15, <1>17, <1>18, <1>19, <1>20, <1>21, <1>22
  DEF Next, ClientStep, DispatcherStep, CrashStep

(* A recorded outcome that memory has dropped, or may drop now, has expired  *)
(* in the file too, if it is still there.                                    *)
LEMMA GoneIsExpired ==
  ASSUME TypeOK, QueueInv, FileIsNoNewer, up, NEW i \in settled,
         mem[i].status = "absent" \/ Expired(mem[i])
  PROVE  disk[i].status = "absent" \/ Expired(disk[i])
<1>1. i \in Ids /\ disk[i] \in Task
  BY DEF TypeOK
<1>2. disk[i].status \in Terminal \cup {"absent"}
  BY <1>1 DEF QueueInv, SettledIsOver, Task, Status
<1>3. CASE mem[i].status = "absent"
  BY <1>3 DEF FileIsNoNewer
<1>4. CASE Retention <= 0
  BY <1>2, <1>4 DEF Expired
<1>5. CASE ~(Retention <= 0) /\ Expired(mem[i])
  <2>1. mem[i].completedAt # Never /\ mem[i].completedAt < now - Retention
    BY <1>5 DEF Expired
  <2>2. disk[i].status = "absent" \/ disk[i].completedAt = mem[i].completedAt
    BY <2>1 DEF FileIsNoNewer
  <2> QED
    BY <1>2, <2>1, <2>2 DEF Expired
<1> QED
  BY <1>3, <1>4, <1>5

LEMMA NoNewerStep ==
  ASSUME LoadOutcomes \subseteq {"ok"}
  PROVE  TypeOK /\ QueueInv /\ KeepInv /\ [Next]_vars => FileIsNoNewer'
<1> SUFFICES ASSUME TypeOK, QueueInv, KeepInv, [Next]_vars PROVE FileIsNoNewer'
  OBVIOUS
<1> USE DEF store, clients
<1>inv. LiveHasNoEnd /\ FileIsNoNewer /\ SettledIsOver /\ FreshIsUnknown
  BY DEF KeepInv, QueueInv
<1>typ. /\ settled \subseteq Ids /\ now \in Int /\ submitted \in Nat
        /\ mem \in [Ids -> Task] /\ disk \in [Ids -> Task] /\ \A i \in Ids : i \in Nat
  BY BoundsAssumption DEF TypeOK, Ids
(* The three ways a step goes: the file is what memory is, ... *)
<1>1. ASSUME mem' = disk' PROVE FileIsNoNewer'
  BY <1>1 DEF FileIsNoNewer
(* ... the file stays and memory loses at most what has expired, ... *)
<1>2. ASSUME up, disk' = disk, now' = now, settled' = settled,
             \A i \in settled :
               \/ mem'[i].status = mem[i].status /\ mem'[i].completedAt = mem[i].completedAt
               \/ mem'[i] = NoTask /\ Expired(mem[i])
      PROVE  FileIsNoNewer'
  <2> SUFFICES ASSUME NEW i \in settled
               PROVE  /\ mem'[i].status = "absent" =>
                           disk[i].status = "absent" \/ Expired(disk[i])
                      /\ mem'[i].completedAt # Never =>
                           disk[i].status = "absent" \/ disk[i].completedAt = mem'[i].completedAt
    BY <1>2 DEF FileIsNoNewer, Expired
  <2>1. CASE mem'[i].status = mem[i].status /\ mem'[i].completedAt = mem[i].completedAt
    BY <1>2, <1>inv, <2>1 DEF FileIsNoNewer
  <2>2. CASE mem'[i] = NoTask /\ Expired(mem[i])
    <3>1. disk[i].status = "absent" \/ Expired(disk[i])
      BY <1>2, <1>inv, <2>2, GoneIsExpired
    <3> QED
      BY <2>2, <3>1 DEF NoTask
  <2> QED
    BY <1>2, <2>1, <2>2
(* ... or the file is new and memory is rolled back. *)
<1>3. ASSUME mem' = mem, settled' = settled,
             \A i \in settled :
               \/ disk'[i] = mem[i]
               \/ /\ mem[i].status # "absent"
                  /\ mem[i].completedAt \in {Never, disk'[i].completedAt}
      PROVE  FileIsNoNewer'
  BY <1>3 DEF FileIsNoNewer
<1> HIDE DEF FileIsNoNewer
<1>4. ASSUME NEW new, NEW o, up, FlushOrRollBack(new, o), now' = now,
             o # "ok" => settled' = settled,
             \A i \in settled :
               \/ new[i] = mem[i]
               \/ /\ mem[i].status # "absent"
                  /\ mem[i].completedAt \in {Never, new[i].completedAt}
      PROVE  FileIsNoNewer'
  <2>1. CASE o = "ok"
    BY <1>1, <1>4, <2>1 DEF FlushOrRollBack, Flush
  <2>2. CASE o = "unwritten"
    BY <1>2, <1>4, <2>2 DEF FlushOrRollBack, Flush
  <2>3. CASE o # "ok" /\ o # "unwritten"
    BY <1>3, <1>4, <2>3 DEF FlushOrRollBack, Flush
  <2> QED
    BY <2>1, <2>2, <2>3
<1>5. ASSUME NEW new, NEW o, up, FlushRegardless(new, o), now' = now, settled' = settled,
             \A i \in settled :
               \/ new[i].status = mem[i].status /\ new[i].completedAt = mem[i].completedAt
               \/ new[i] = NoTask /\ Expired(mem[i])
      PROVE  FileIsNoNewer'
  <2>1. CASE o = "unwritten"
    BY <1>2, <1>5, <2>1 DEF FlushRegardless, Flush
  <2>2. CASE o # "unwritten"
    BY <1>1, <1>5, <2>2 DEF FlushRegardless, Flush
  <2> QED
    BY <2>1, <2>2
<1>6. ASSUME NEW r \in Requests, NEW o, Submit(r, o) PROVE FileIsNoNewer'
  <2> DEFINE n == submitted + 1
  <2>1. n \in Ids /\ n \notin settled
    BY <1>6, <1>inv, <1>typ, FreshId DEF Submit, FreshIsUnknown
  <2>2. \A i \in settled : Submitted(n)[i] = mem[i]
    BY <1>typ, <2>1 DEF Submitted
  <2>3. up /\ FlushOrRollBack(Submitted(n), o) /\ now' = now /\ settled' = settled
    BY <1>6 DEF Submit
  <2> QED
    BY <1>4, <2>2, <2>3
<1>7. ASSUME NEW k \in Ids, NEW o, HandOut(k, o), mem[k].status = "queued" PROVE FileIsNoNewer'
  <2>1. k \notin settled
    BY <1>7, <1>inv DEF SettledIsOver, Live
  <2>2. \A i \in settled : Started(k)[i] = mem[i]
    BY <1>typ, <2>1 DEF Started
  <2>3. up /\ FlushOrRollBack(Started(k), o) /\ now' = now /\ settled' = settled
    BY <1>7 DEF HandOut
  <2> QED
    BY <1>4, <2>2, <2>3
<1>8. ASSUME NEW k \in Ids, NEW new, NEW o, up, now' = now, Settle(k, new, o),
             \A i \in Ids : i # k => new[i] = mem[i],
             mem[k].completedAt \in {Never, new[k].completedAt}
      PROVE  FileIsNoNewer'
  <2>1. CASE Present(k) /\ FlushOrRollBack(new, o) /\ (o # "ok" => settled' = settled)
    BY <1>4, <1>8, <1>typ, <2>1 DEF Present
  <2>2. CASE UNCHANGED <<store, settled>>
    BY <1>2, <1>3, <1>8, <2>2
  <2> QED
    BY <1>8, <2>1, <2>2 DEF Settle
<1>9. ASSUME NEW k \in Ids, NEW o, Cancel(k, o) PROVE FileIsNoNewer'
  <2>1. \A i \in Ids : i # k => Cancelled(k)[i] = mem[i]
    BY <1>typ DEF Cancelled
  <2> QED
    BY <1>8, <1>9, <2>1, ImageEnd DEF Cancel
<1>10. ASSUME NEW k \in Ids, NEW st \in {"completed", "failed"}, NEW o, Finish(k, st, o)
       PROVE  FileIsNoNewer'
  <2> DEFINE new == Finished(k, st)
  <2>1. \A i \in Ids : i # k => new[i] = mem[i]
    BY <1>typ DEF Finished
  <2>2. up /\ now' = now /\ Settle(k, new, o) /\ mem[k].completedAt = Never
    BY <1>10, <1>inv DEF Finish, LiveHasNoEnd
  <2> HIDE DEF new
  <2> QED
    BY <1>8, <2>1, <2>2
<1>11. ASSUME NEW k \in Ids, NEW o, ReportDelivered(k, o) PROVE FileIsNoNewer'
  <2>1. up /\ FlushRegardless(Marked(k), o) /\ now' = now /\ settled' = settled
    BY <1>11 DEF ReportDelivered
  <2>2. \A i \in settled : /\ Marked(k)[i].status = mem[i].status
                           /\ Marked(k)[i].completedAt = mem[i].completedAt
    BY <1>typ, ImageStatus, ImageEnd
  <2> QED
    BY <1>5, <2>1, <2>2
<1>12. ASSUME NEW o, Prune(o) PROVE FileIsNoNewer'
  <2>1. up /\ FlushRegardless(Pruned, o) /\ now' = now /\ settled' = settled
    BY <1>12 DEF Prune
  <2>2. \A i \in settled : Pruned[i] = mem[i] \/ (Pruned[i] = NoTask /\ Expired(mem[i]))
    BY <1>typ, PrunedTask
  <2> QED
    BY <1>5, <2>1, <2>2
<1>13. CASE Tick
  <2>1. UNCHANGED <<mem, disk, settled, up>> /\ now' = now + 1
    BY <1>13 DEF Tick
  <2>2. \A i \in Ids : disk[i].completedAt \in Int
    BY <1>typ DEF Task
  <2>3. \A i \in settled : Expired(disk[i]) => Expired(disk[i])'
    BY <1>typ, <2>1, <2>2, RetentionAssumption DEF Expired
  <2> QED
    BY <1>inv, <2>1, <2>3 DEF FileIsNoNewer
<1>14. CASE CrashStep
  BY <1>14 DEF CrashStep, Crash, CrashInSubmit, CrashInUpdate, GoDown, FileIsNoNewer
<1>15. ASSUME NEW o, Restart(o) PROVE FileIsNoNewer'
  BY <1>1, <1>15 DEF Restart
<1>16. ASSUME UNCHANGED <<mem, disk, settled, up, now>> PROVE FileIsNoNewer'
  BY <1>16, <1>inv DEF FileIsNoNewer, Expired
<1>17. ASSUME NEW k \in Ids, NEW o, NextCold(k, o) \/ NextWarm(k, o) PROVE FileIsNoNewer'
  BY <1>7, <1>17 DEF NextCold, NextWarm, IsBest, Queued, WarmQueued
<1>18. ASSUME NEW k \in Ids, ReportUnmarked(k) PROVE FileIsNoNewer'
  BY <1>16, <1>18 DEF ReportUnmarked
<1>19. CASE UNCHANGED vars
  BY <1>16, <1>19 DEF vars
<1> QED
  BY <1>6, <1>9, <1>10, <1>11, <1>12, <1>13, <1>14, <1>15, <1>17, <1>18, <1>19
  DEF Next, ClientStep, DispatcherStep

(* No step takes a recorded outcome out of the file before its retention is  *)
(* over, whatever was pruned in memory only and whatever flushes failed.     *)
LEMMA KeptStep ==
  ASSUME TypeOK, QueueInv, KeepInv, Next
  PROVE  \A i \in settled :
           disk[i].status # "absent" /\ disk'[i].status = "absent" => Expired(disk[i])
<1> USE DEF store, clients
<1> SUFFICES ASSUME NEW j \in settled, disk[j].status # "absent", disk'[j].status = "absent"
             PROVE  Expired(disk[j])
  OBVIOUS
<1>typ. j \in Ids
  BY DEF TypeOK
<1>1. ASSUME up, disk'[j] = mem[j] \/ mem[j].status = "absent" \/ Expired(mem[j])
      PROVE  Expired(disk[j])
  BY <1>1, GoneIsExpired DEF KeepInv
<1>2. ASSUME NEW r \in Requests, NEW o, Submit(r, o) PROVE Expired(disk[j])
  <2>1. up /\ submitted + 1 \in Ids /\ disk' \in {disk, Submitted(submitted + 1)}
    BY <1>2, FreshId, FlushEffect DEF Submit
  <2> QED
    BY <1>1, <1>typ, <2>1, ImageStatus
<1>3. ASSUME NEW k \in Ids, NEW o, HandOut(k, o) PROVE Expired(disk[j])
  <2>1. up /\ disk' \in {disk, Started(k)}
    BY <1>3, FlushEffect DEF HandOut
  <2> QED
    BY <1>1, <1>typ, <2>1, ImageStatus
<1>4. ASSUME NEW k \in Ids, NEW o, Cancel(k, o) PROVE Expired(disk[j])
  <2>1. up /\ disk' \in {disk, Cancelled(k)}
    BY <1>4, FlushEffect DEF Cancel, Settle
  <2> QED
    BY <1>1, <1>typ, <2>1, ImageStatus
<1>5. ASSUME NEW k \in Ids, NEW st \in {"completed", "failed"}, NEW o, Finish(k, st, o)
      PROVE  Expired(disk[j])
  <2> DEFINE new == Finished(k, st)
  <2>1. up /\ disk' \in {disk, new}
    BY <1>5, FlushEffect DEF Finish, Settle
  <2>2. new[j].status = IF j = k THEN st ELSE mem[j].status
    BY <1>typ, ImageStatus
  <2> HIDE DEF new
  <2> QED
    BY <1>1, <1>typ, <2>1, <2>2
<1>6. ASSUME NEW k \in Ids, NEW o, ReportDelivered(k, o) PROVE Expired(disk[j])
  <2>1. up /\ disk' \in {disk, Marked(k)}
    BY <1>6, FlushEffect DEF ReportDelivered
  <2> QED
    BY <1>1, <1>typ, <2>1, ImageStatus
<1>7. ASSUME NEW o, Prune(o) PROVE Expired(disk[j])
  <2>1. up /\ disk' \in {disk, Pruned}
    BY <1>7, FlushEffect DEF Prune
  <2> QED
    BY <1>1, <1>typ, <2>1, PrunedTask
<1>8. ASSUME NEW o, Restart(o) PROVE Expired(disk[j])
  BY <1>8, <1>typ, RecoveredStatus DEF Restart
<1>9. ASSUME NEW r \in Requests, CrashInSubmit(r) PROVE Expired(disk[j])
  <2>1. up /\ submitted + 1 \in Ids /\ disk' = Submitted(submitted + 1)
    BY <1>9, FreshId DEF CrashInSubmit, GoDown
  <2> QED
    BY <1>1, <1>typ, <2>1, ImageStatus
<1>10. ASSUME NEW k \in Ids, CrashInUpdate(k) PROVE Expired(disk[j])
  <2> DEFINE Images == {Started(k), Finished(k, "completed"), Finished(k, "failed"),
                        Cancelled(k), Marked(k), Pruned}
  <2>1. up /\ disk' \in Images
    BY <1>10 DEF CrashInUpdate, GoDown
  <2>2. \A f \in Images : f[j].status = "absent" => mem[j].status = "absent" \/ Expired(mem[j])
    BY <1>typ, ImageStatus, PrunedTask
  <2> HIDE DEF Images
  <2> QED
    BY <1>1, <2>1, <2>2
<1>11. CASE Tick \/ Crash \/ \E k \in Ids : ReportUnmarked(k)
  BY <1>11 DEF Tick, Crash, ReportUnmarked
<1>12. ASSUME NEW k \in Ids, NEW o, NextCold(k, o) \/ NextWarm(k, o) PROVE Expired(disk[j])
  BY <1>3, <1>12 DEF NextCold, NextWarm
<1> QED
  BY <1>2, <1>4, <1>5, <1>6, <1>7, <1>8, <1>9, <1>10, <1>11, <1>12
  DEF Next, ClientStep, DispatcherStep, CrashStep

(* What pruning takes is exactly what is overdue. *)
LEMMA ExpiredIsOverdue ==
  ASSUME TypeOK, NEW t \in Task
  PROVE  Expired(t) <=> Overdue(t)
<1>1. t.completedAt \in Int /\ now \in Int /\ Retention \in Int
  BY RetentionAssumption DEF TypeOK, Task
<1> QED
  BY <1>1 DEF Expired, Overdue

(* A running daemon forgets a task in a pruning only, and then only what has *)
(* expired: a rollback gives back what was there.                           *)
LEMMA ForgottenStep ==
  ASSUME TypeOK, QueueInv, Next, up',
         NEW j \in Ids, mem[j].status # "absent", mem'[j].status = "absent"
  PROVE  mem' = Pruned /\ Expired(mem[j])
<1> USE DEF store, clients
<1>up. up
  BY DEF QueueInv, DownIsEmpty
<1>1. ASSUME NEW new, mem' \in {mem, new}, new[j].status # "absent" PROVE FALSE
  BY <1>1
<1>2. ASSUME NEW r \in Requests, NEW o, Submit(r, o) PROVE FALSE
  <2>1. submitted + 1 \in Ids /\ mem' \in {mem, Submitted(submitted + 1)}
    BY <1>2, FreshId, FlushEffect DEF Submit
  <2> QED
    BY <1>1, <2>1, ImageStatus
<1>3. ASSUME NEW k \in Ids, NEW o, HandOut(k, o) PROVE FALSE
  <2>1. mem' \in {mem, Started(k)}
    BY <1>3, FlushEffect DEF HandOut
  <2> QED
    BY <1>1, <2>1, ImageStatus
<1>4. ASSUME NEW k \in Ids, NEW o, Cancel(k, o) PROVE FALSE
  <2>1. mem' \in {mem, Cancelled(k)}
    BY <1>4, FlushEffect DEF Cancel, Settle
  <2> QED
    BY <1>1, <2>1, ImageStatus
<1>5. ASSUME NEW k \in Ids, NEW st \in {"completed", "failed"}, NEW o, Finish(k, st, o)
      PROVE  FALSE
  <2> DEFINE new == Finished(k, st)
  <2>1. mem' \in {mem, new}
    BY <1>5, FlushEffect DEF Finish, Settle
  <2>2. new[j].status = IF j = k THEN st ELSE mem[j].status
    BY ImageStatus
  <2> HIDE DEF new
  <2> QED
    BY <1>1, <2>1, <2>2
<1>6. ASSUME NEW k \in Ids, NEW o, ReportDelivered(k, o) PROVE FALSE
  <2>1. mem' = Marked(k)
    BY <1>6, FlushEffect DEF ReportDelivered
  <2> QED
    BY <1>1, <2>1, ImageStatus
<1>7. ASSUME NEW o, Prune(o) PROVE mem' = Pruned /\ Expired(mem[j])
  <2>1. mem' = Pruned
    BY <1>7, FlushEffect DEF Prune
  <2> QED
    BY <2>1, PrunedTask
<1>8. ASSUME Tick \/ \E k \in Ids : ReportUnmarked(k) PROVE FALSE
  BY <1>8 DEF Tick, ReportUnmarked
<1>9. ASSUME NEW o, Restart(o) PROVE FALSE
  BY <1>9, <1>up DEF Restart
<1>10. ASSUME CrashStep PROVE FALSE
  BY <1>10 DEF CrashStep, Crash, CrashInSubmit, CrashInUpdate, GoDown
<1>11. ASSUME NEW k \in Ids, NEW o, NextCold(k, o) \/ NextWarm(k, o) PROVE FALSE
  BY <1>3, <1>11 DEF NextCold, NextWarm
<1> QED
  BY <1>2, <1>4, <1>5, <1>6, <1>7, <1>8, <1>9, <1>10, <1>11
  DEF Next, ClientStep, DispatcherStep

(* As long as LoadQueue's own flush does not fail, a recorded outcome stays  *)
(* in the file and in the memory of a running daemon until its retention is *)
(* over, and a pruning leaves nothing behind that is overdue.               *)
THEOREM ResultsAreKept ==
  ASSUME LoadOutcomes \subseteq {"ok"}
  PROVE  Spec => ResultKept
<1> DEFINE Kept == \A i \in settled :
      /\ disk[i].status # "absent" /\ disk'[i].status = "absent" => Overdue(disk[i])
      /\ up' /\ mem[i].status # "absent" /\ mem'[i].status = "absent" =>
           Overdue(mem[i]) /\ \A j \in Ids : ~Overdue(mem'[j])
<1>1. Init => KeepInv
  BY DEF Init, KeepInv, LiveHasNoEnd, FileIsNoNewer, NoTasks, NoTask
<1>2. TypeOK /\ QueueInv /\ KeepInv /\ [Next]_vars => KeepInv'
  BY NoEndStep, NoNewerStep DEF KeepInv
<1>3. ASSUME TypeOK, QueueInv, KeepInv, Next PROVE Kept
  <2> SUFFICES ASSUME NEW i \in settled
               PROVE  /\ disk[i].status # "absent" /\ disk'[i].status = "absent" => Overdue(disk[i])
                      /\ up' /\ mem[i].status # "absent" /\ mem'[i].status = "absent" =>
                           Overdue(mem[i]) /\ \A j \in Ids : ~Overdue(mem'[j])
    OBVIOUS
  <2>1. i \in Ids /\ \A j \in Ids : mem[j] \in Task /\ disk[j] \in Task
    BY <1>3 DEF TypeOK
  <2>2. \A j \in Ids : (Expired(mem[j]) <=> Overdue(mem[j])) /\ (Expired(disk[j]) <=> Overdue(disk[j]))
    BY <1>3, <2>1, ExpiredIsOverdue
  <2>3. disk[i].status # "absent" /\ disk'[i].status = "absent" => Overdue(disk[i])
    BY <1>3, <2>1, <2>2, KeptStep
  <2>4. ASSUME up', mem[i].status # "absent", mem'[i].status = "absent"
        PROVE  Overdue(mem[i]) /\ \A j \in Ids : ~Overdue(mem'[j])
    <3>1. mem' = Pruned /\ Expired(mem[i])
      BY <1>3, <2>1, <2>4, ForgottenStep
    <3>2. ASSUME NEW j \in Ids PROVE ~Overdue(mem'[j])
      <4>1. CASE Expired(mem[j])
        BY <3>1, <4>1, PrunedTask DEF Overdue, NoTask, Terminal
      <4>2. CASE ~Expired(mem[j])
        BY <2>2, <3>1, <4>2, PrunedTask
      <4> QED
        BY <4>1, <4>2
    <3> QED
      BY <2>1, <2>2, <3>1, <3>2
  <2> QED
    BY <2>3, <2>4
<1>4. TypeOK /\ QueueInv /\ KeepInv /\ [Next]_vars => [Kept]_vars
  BY <1>3
<1>5. TypeOK /\ QueueInv /\ [Next]_vars => QueueInv'
  BY InvStep
<1> QED
  BY <1>1, <1>2, <1>4, <1>5, InvInit, TypeCorrect, PTL DEF Spec, ResultKept

-----------------------------------------------------------------------------
(* Flush that never fails after the rename: what it leaves is what memory    *)
(* was or what it was given, file and memory alike.                          *)
LEMMA CleanFlush ==
  ASSUME FlushOutcomes \subseteq {"ok", "unwritten"}, NEW new, NEW o, FlushOrRollBack(new, o)
  PROVE  \/ o = "ok" /\ mem' = new /\ disk' = new
         \/ o = "unwritten" /\ mem' = mem /\ disk' = disk
BY DEF FlushOrRollBack, Flush

LEMMA RefusedStep ==
  ASSUME FlushOutcomes \subseteq {"ok", "unwritten"}
  PROVE  TypeOK /\ QueueInv /\ RefusedIsUnknown /\ [Next]_vars => RefusedIsUnknown'
<1> SUFFICES ASSUME TypeOK, QueueInv, RefusedIsUnknown, [Next]_vars PROVE RefusedIsUnknown'
  OBVIOUS
<1> USE DEF store, clients
<1> DEFINE Gone(i) == mem[i].status = "absent" /\ disk[i].status = "absent" /\ stage[i] = "idle"
<1>typ. /\ submitted \in Nat /\ \A i \in Ids : i \in Nat
        /\ stage \in [Ids -> {"idle", "working", "reporting"}]
  BY BoundsAssumption DEF TypeOK, Ids
<1>1. ASSUME UNCHANGED <<answer, submitted>>, \A i \in Ids : Gone(i) => Gone(i)'
      PROVE  RefusedIsUnknown'
  BY <1>1 DEF RefusedIsUnknown
<1>2. ASSUME NEW r \in Requests, NEW o, Submit(r, o) PROVE RefusedIsUnknown'
  <2> DEFINE n == submitted + 1
  <2>1. n \in Ids /\ n > submitted /\ Gone(n)
    BY <1>2, <1>typ, FreshId DEF Submit, QueueInv, FreshIsUnknown
  <2>2. /\ \/ o = "ok" /\ mem' = Submitted(n) /\ disk' = Submitted(n)
           \/ o = "unwritten" /\ mem' = mem /\ disk' = disk
        /\ stage' = stage /\ submitted' = n
        /\ answer' = [answer EXCEPT ![n] = IF o = "ok" THEN "accepted" ELSE "refused"]
    BY <1>2, CleanFlush DEF Submit
  <2>3. \A i \in Ids : Submitted(n)[i].status = IF i = n THEN "queued" ELSE mem[i].status
    BY <2>1, ImageStatus
  <2>4. answer \in [Ids -> {"none", "accepted", "refused"}]
    BY DEF TypeOK
  <2> QED
    BY <1>typ, <2>1, <2>2, <2>3, <2>4 DEF RefusedIsUnknown
<1>3. ASSUME NEW k \in Ids, NEW o, HandOut(k, o), mem[k].status = "queued" PROVE RefusedIsUnknown'
  <2>1. /\ \A i \in Ids : i # k => mem'[i].status = mem[i].status
        /\ disk' \in {disk, Started(k)}
        /\ stage' \in {stage, [stage EXCEPT ![k] = "working"]}
        /\ UNCHANGED <<answer, submitted>>
    BY <1>3, ImageStatus, FlushEffect DEF HandOut
  <2>2. \A i \in Ids : i # k /\ Gone(i) => disk'[i].status = "absent" /\ stage'[i] = "idle"
    BY <1>typ, <2>1, ImageStatus
  <2> QED
    BY <1>1, <1>3, <2>1, <2>2
<1>4. ASSUME NEW k \in Ids, NEW st \in Terminal, NEW new, NEW o,
             \A i \in Ids : new[i].status = IF i = k THEN st ELSE mem[i].status,
             Settle(k, new, o), UNCHANGED <<answer, submitted>>,
             \A i \in Ids : stage[i] = "idle" => stage'[i] = "idle"
      PROVE  RefusedIsUnknown'
  <2>1. CASE Present(k) /\ FlushOrRollBack(new, o)
    <3>1. mem' \in {mem, new} /\ disk' \in {disk, new}
      BY <2>1, FlushEffect
    <3> QED
      BY <1>1, <1>4, <2>1, <3>1 DEF Present
  <2>2. CASE UNCHANGED store
    BY <1>1, <1>4, <2>2
  <2> QED
    BY <1>4, <2>1, <2>2 DEF Settle
<1>5. ASSUME NEW k \in Ids, NEW o, Cancel(k, o) PROVE RefusedIsUnknown'
  BY <1>4, <1>5, ImageStatus DEF Cancel, Terminal
<1>6. ASSUME NEW k \in Ids, NEW st \in {"completed", "failed"}, NEW o, Finish(k, st, o)
      PROVE  RefusedIsUnknown'
  <2> DEFINE new == Finished(k, st)
  <2>1. \A i \in Ids : new[i].status = IF i = k THEN st ELSE mem[i].status
    BY ImageStatus
  <2>2. st \in Terminal /\ Settle(k, new, o) /\ UNCHANGED <<answer, submitted>>
    BY <1>6 DEF Finish, Terminal
  <2>3. \A i \in Ids : stage[i] = "idle" => stage'[i] = "idle"
    BY <1>6, <1>typ DEF Finish
  <2> HIDE DEF new
  <2> QED
    BY <1>4, <2>1, <2>2, <2>3
<1>7. ASSUME NEW k \in Ids, NEW o, ReportDelivered(k, o) PROVE RefusedIsUnknown'
  <2>1. mem' = Marked(k) /\ disk' \in {disk, Marked(k)} /\ stage' = [stage EXCEPT ![k] = "idle"]
    BY <1>7, FlushEffect DEF ReportDelivered
  <2> QED
    BY <1>1, <1>7, <1>typ, <2>1, ImageStatus DEF ReportDelivered
<1>8. ASSUME NEW o, Prune(o) PROVE RefusedIsUnknown'
  <2>1. mem' = Pruned /\ disk' \in {disk, Pruned} /\ stage' = stage
    BY <1>8, FlushEffect DEF Prune
  <2> QED
    BY <1>1, <1>8, <2>1, PrunedStatus DEF Prune
<1>9. ASSUME NEW o, Restart(o) PROVE RefusedIsUnknown'
  <2>1. /\ mem' \in {disk, Recovered(disk), NoTasks} /\ disk' \in {disk, Recovered(disk)}
        /\ UNCHANGED <<answer, submitted, stage>>
    BY <1>9 DEF Restart
  <2>2. \A i \in Ids : disk[i].status = "absent" =>
          Recovered(disk)[i].status = "absent" /\ NoTasks[i].status = "absent"
    BY RecoveredStatus, NewTaskType DEF NoTasks
  <2> QED
    BY <1>1, <2>1, <2>2
<1>10. ASSUME NEW r \in Requests, CrashInSubmit(r) PROVE RefusedIsUnknown'
  <2> DEFINE n == submitted + 1
  <2>1. n \in Ids /\ n > submitted /\ submitted' = n /\ answer' = answer /\ disk' = Submitted(n)
    BY <1>10, <1>typ, FreshId DEF CrashInSubmit
  <2>2. \A i \in Ids : Submitted(n)[i].status = IF i = n THEN "queued" ELSE mem[i].status
    BY <2>1, ImageStatus
  <2>3. \A i \in Ids : mem'[i].status = "absent" /\ stage'[i] = "idle"
    BY <1>10, GoDownEffect DEF CrashInSubmit
  <2> QED
    BY <1>typ, <2>1, <2>2, <2>3 DEF RefusedIsUnknown
<1>11. ASSUME NEW k \in Ids, CrashInUpdate(k) PROVE RefusedIsUnknown'
  <2> DEFINE Images == {Started(k), Finished(k, "completed"), Finished(k, "failed"),
                        Cancelled(k), Marked(k), Pruned}
  <2>1. disk' \in Images /\ mem[k].status # "absent" /\ UNCHANGED <<answer, submitted>>
    BY <1>11 DEF CrashInUpdate, Present, IsBest, Queued, WarmQueued, Expired, Terminal
  <2>2. \A f \in Images, i \in Ids :
          mem[i].status = "absent" /\ i # k => f[i].status = "absent"
    BY ImageStatus, PrunedStatus
  <2>3. \A i \in Ids : mem'[i].status = "absent" /\ stage'[i] = "idle"
    BY <1>11, GoDownEffect DEF CrashInUpdate
  <2> HIDE DEF Images
  <2> QED
    BY <1>1, <2>1, <2>2, <2>3
<1>12. CASE Crash
  BY <1>1, <1>12, GoDownEffect DEF Crash
<1>13. ASSUME NEW k \in Ids, ReportUnmarked(k) PROVE RefusedIsUnknown'
  BY <1>1, <1>13, <1>typ DEF ReportUnmarked
<1>14. CASE Tick \/ UNCHANGED vars
  BY <1>1, <1>14 DEF Tick, vars
<1>15. ASSUME NEW k \in Ids, NEW o, NextCold(k, o) \/ NextWarm(k, o) PROVE RefusedIsUnknown'
  BY <1>3, <1>15 DEF NextCold, NextWarm, IsBest, Queued, WarmQueued
<1> QED
  BY <1>2, <1>5, <1>6, <1>7, <1>8, <1>9, <1>10, <1>11, <1>12, <1>13, <1>14, <1>15
  DEF Next, ClientStep, DispatcherStep, CrashStep

(* If flush fails only before the rename, a task that was refused is never   *)
(* run, in no life of the daemon.                                            *)
THEOREM RefusedSafe ==
  ASSUME FlushOutcomes \subseteq {"ok", "unwritten"}
  PROVE  Spec => []RefusedNeverRuns
<1>1. Init => RefusedIsUnknown
  BY DEF Init, RefusedIsUnknown
<1>2. TypeOK /\ QueueInv /\ RefusedIsUnknown /\ [Next]_vars => RefusedIsUnknown'
  BY RefusedStep
<1>3. RefusedIsUnknown => RefusedNeverRuns
  BY DEF RefusedIsUnknown, RefusedNeverRuns
<1>4. TypeOK /\ QueueInv /\ [Next]_vars => QueueInv'
  BY InvStep
<1> QED
  BY <1>1, <1>2, <1>3, <1>4, InvInit, TypeCorrect, PTL DEF Spec

(* The inductive invariant of the refinement. *)
LEMMA LedgerInvStep ==
  ASSUME FlushOutcomes \subseteq {"ok", "unwritten"}, LoadOutcomes \subseteq {"ok"}
  PROVE  TypeOK /\ QueueInv /\ LedgerInv /\ [Next]_vars => LedgerInv'
<1> SUFFICES ASSUME TypeOK, QueueInv, LedgerInv, [Next]_vars PROVE LedgerInv'
  OBVIOUS
<1> USE DEF store, clients
<1>typ. /\ settled \subseteq Ids /\ attempted \subseteq Ids /\ submitted \in Nat
        /\ mem \in [Ids -> Task] /\ disk \in [Ids -> Task]
        /\ \A i \in Ids : i \in Nat /\ mem[i].status \in Status /\ disk[i].status \in Status
        /\ stage \in [Ids -> {"idle", "working", "reporting"}]
  BY BoundsAssumption DEF TypeOK, Ids, Task
<1>inv. /\ ~up => \A i \in Ids : mem[i].status = "absent" /\ stage[i] = "idle"
        /\ \A i \in Ids : i > submitted => mem[i].status = "absent" /\ disk[i].status = "absent"
                                           /\ stage[i] = "idle"
        /\ \A i \in Ids : stage[i] # "idle" => mem[i].status # "queued"
  BY DEF QueueInv, DownIsEmpty, FreshIsUnknown, InFlightNotQueued
<1> DEFINE Bounded == \A i \in Ids : i > submitted => i \notin attempted
           Honest(d) == \A i \in Ids : d[i].status \in Terminal => i \in attempted
           Synced(i) == /\ mem[i].status \in {"absent", disk[i].status}
                        /\ mem[i].status # disk[i].status => disk[i].status \in Terminal
           AtWork == \A i \in Ids : stage[i] = "working" /\ i \notin attempted =>
                                      mem[i].status = "running"
<1>split. LedgerInv <=> Bounded /\ Honest(disk) /\ AtWork /\ (up => \A i \in Ids : Synced(i))
  BY DEF LedgerInv
<1>split2. LedgerInv' <=> Bounded' /\ Honest(disk)' /\ AtWork' /\ (up' => \A i \in Ids : Synced(i)')
  BY DEF LedgerInv
<1>mem. up => Honest(mem)
  BY <1>split DEF Terminal
(* A flush that is clean leaves memory and file alike, or both as they were. *)
<1>1. ASSUME NEW new, NEW o, up, FlushOrRollBack(new, o) PROVE \A i \in Ids : Synced(i)'
  BY <1>1, <1>split, CleanFlush
<1>2. ASSUME NEW r \in Requests, NEW o, Submit(r, o) PROVE LedgerInv'
  <2> DEFINE n == submitted + 1
  <2>1. /\ n \in Ids /\ submitted' = n /\ FlushOrRollBack(Submitted(n), o) /\ up
        /\ attempted' = attempted /\ stage' = stage
    BY <1>2, FreshId DEF Submit
  <2>2. \A i \in Ids : Submitted(n)[i].status = IF i = n THEN "queued" ELSE mem[i].status
    BY <2>1, ImageStatus
  <2>3. Bounded' /\ Honest(disk)' /\ AtWork'
    BY <1>typ, <1>inv, <1>split, <1>mem, <2>1, <2>2, CleanFlush DEF Terminal
  <2> QED
    BY <1>1, <1>split2, <2>1, <2>3
<1>3. ASSUME NEW k \in Ids, NEW o, HandOut(k, o), mem[k].status = "queued" PROVE LedgerInv'
  <2>1. /\ FlushOrRollBack(Started(k), o) /\ up /\ UNCHANGED <<attempted, submitted>>
        /\ stage' = IF o = "ok" THEN [stage EXCEPT ![k] = "working"] ELSE stage
    BY <1>3 DEF HandOut
  <2>2. \A i \in Ids : Started(k)[i].status = IF i = k THEN "running" ELSE mem[i].status
    BY ImageStatus
  <2>3. Bounded' /\ Honest(disk)' /\ AtWork'
    BY <1>typ, <1>3, <1>split, <1>mem, <2>1, <2>2, CleanFlush DEF Terminal
  <2> QED
    BY <1>1, <1>split2, <2>1, <2>3
<1>4. ASSUME NEW k \in Ids, NEW st \in Terminal, NEW new, NEW o, up, k <= submitted,
             \A i \in Ids : new[i].status = IF i = k THEN st ELSE mem[i].status,
             Settle(k, new, o), submitted' = submitted,
             \A i \in Ids : i # k \/ stage'[i] = "working" => stage'[i] = stage[i]
      PROVE  LedgerInv'
  <2>1. attempted' = attempted \cup {k}
    BY <1>4 DEF Settle
  <2>2. CASE FlushOrRollBack(new, o)
    <3>1. Bounded' /\ Honest(disk)' /\ AtWork'
      BY <1>typ, <1>4, <1>split, <1>mem, <2>1, <2>2, CleanFlush
    <3> QED
      BY <1>1, <1>4, <1>split2, <2>2, <3>1
  <2>3. CASE UNCHANGED store
    <3>1. Bounded' /\ Honest(disk)' /\ AtWork'
      BY <1>typ, <1>4, <1>split, <2>1, <2>3
    <3> QED
      BY <1>4, <1>split, <1>split2, <2>3, <3>1
  <2> QED
    BY <1>4, <2>2, <2>3 DEF Settle
<1>5. ASSUME NEW k \in Ids, NEW o, Cancel(k, o) PROVE LedgerInv'
  <2>1. k <= submitted
    BY <1>5, <1>typ, <1>inv DEF Cancel, Present
  <2> QED
    BY <1>4, <1>5, <2>1, ImageStatus DEF Cancel, Terminal
<1>6. ASSUME NEW k \in Ids, NEW st \in {"completed", "failed"}, NEW o, Finish(k, st, o)
      PROVE  LedgerInv'
  <2> DEFINE new == Finished(k, st)
  <2>1. \A i \in Ids : new[i].status = IF i = k THEN st ELSE mem[i].status
    BY ImageStatus
  <2>2. /\ up /\ st \in Terminal /\ Settle(k, new, o) /\ submitted' = submitted
        /\ k <= submitted
    BY <1>6, <1>typ, <1>inv DEF Finish, Terminal
  <2>3. \A i \in Ids : i # k \/ stage'[i] = "working" => stage'[i] = stage[i]
    BY <1>6, <1>typ DEF Finish
  <2> HIDE DEF new
  <2> QED
    BY <1>4, <2>1, <2>2, <2>3
<1>7. ASSUME NEW k \in Ids, NEW o, ReportDelivered(k, o) PROVE LedgerInv'
  <2>1. /\ mem' = Marked(k) /\ disk' \in {disk, Marked(k)} /\ up /\ up'
        /\ stage' = [stage EXCEPT ![k] = "idle"] /\ UNCHANGED <<attempted, submitted>>
    BY <1>7, FlushEffect DEF ReportDelivered
  <2>2. \A i \in Ids : Marked(k)[i].status = mem[i].status
    BY ImageStatus
  <2>3. Bounded' /\ Honest(disk)' /\ AtWork'
    BY <1>typ, <1>split, <1>mem, <2>1, <2>2
  <2>4. \A i \in Ids : Synced(i)'
    BY <1>split, <2>1, <2>2
  <2> QED
    BY <1>split2, <2>3, <2>4
<1>8. ASSUME NEW o, Prune(o) PROVE LedgerInv'
  <2>1. /\ mem' = Pruned /\ disk' \in {disk, Pruned} /\ up /\ up'
        /\ UNCHANGED <<attempted, submitted, stage>>
    BY <1>8, FlushEffect DEF Prune
  <2>2. \A i \in Ids : /\ Pruned[i].status \in {"absent", mem[i].status}
                       /\ mem[i].status \notin Terminal => Pruned[i].status = mem[i].status
    BY PrunedStatus
  <2>3. Bounded' /\ Honest(disk)' /\ AtWork'
    BY <1>typ, <1>split, <1>mem, <2>1, <2>2 DEF Terminal
  <2>4. \A i \in Ids : Synced(i)'
    BY <1>split, <2>1, <2>2
  <2> QED
    BY <1>split2, <2>3, <2>4
<1>9. ASSUME NEW o, Restart(o) PROVE LedgerInv'
  <2>1. \/ disk' = disk /\ mem' = disk
        \/ disk' = Recovered(disk) /\ mem' = Recovered(disk)
    BY <1>9 DEF Restart
  <2>2. ~up /\ UNCHANGED <<attempted, submitted, stage>>
    BY <1>9 DEF Restart
  <2>3. \A i \in Ids : Recovered(disk)[i].status \in Terminal => disk[i].status \in Terminal
    BY RecoveredStatus DEF Terminal
  <2>4. Bounded' /\ Honest(disk)' /\ AtWork' /\ \A i \in Ids : Synced(i)'
    BY <1>inv, <1>split, <2>1, <2>2, <2>3
  <2> QED
    BY <1>split2, <2>4
(* A crash: whatever became durable, nobody is at work. *)
<1>10. ASSUME GoDown, Bounded', Honest(disk)' PROVE LedgerInv'
  <2>1. AtWork' /\ ~up'
    BY <1>10, GoDownEffect DEF GoDown
  <2> QED
    BY <1>10, <1>split2, <2>1
<1>11. ASSUME NEW r \in Requests, CrashInSubmit(r) PROVE LedgerInv'
  <2> DEFINE n == submitted + 1
  <2>1. /\ n \in Ids /\ submitted' = n /\ disk' = Submitted(n) /\ attempted' = attempted
        /\ up /\ GoDown
    BY <1>11, FreshId DEF CrashInSubmit, GoDown
  <2>2. \A i \in Ids : Submitted(n)[i].status = IF i = n THEN "queued" ELSE mem[i].status
    BY <2>1, ImageStatus
  <2>3. Bounded' /\ Honest(disk)'
    BY <1>typ, <1>split, <1>mem, <2>1, <2>2 DEF Terminal
  <2> QED
    BY <1>10, <2>1, <2>3
<1>12. ASSUME NEW k \in Ids, CrashInUpdate(k) PROVE LedgerInv'
  <2>1. GoDown /\ up /\ submitted' = submitted
    BY <1>12 DEF CrashInUpdate, GoDown
  <2>2. mem[k].status # "absent"
    BY <1>12 DEF CrashInUpdate, Present, IsBest, Queued, WarmQueued, Expired, Terminal
  <2>3. k <= submitted
    BY <1>typ, <1>inv, <2>2
  <2>4. \/ attempted' = attempted /\ disk' \in {Started(k), Marked(k), Pruned}
        \/ /\ attempted' = attempted \cup {k}
           /\ disk' \in {Finished(k, "completed"), Finished(k, "failed"), Cancelled(k)}
    BY <1>12 DEF CrashInUpdate
  <2>5. \A i \in Ids : /\ Started(k)[i].status \in Terminal => mem[i].status \in Terminal
                       /\ Marked(k)[i].status \in Terminal => mem[i].status \in Terminal
                       /\ Pruned[i].status \in Terminal => mem[i].status \in Terminal
    BY ImageStatus, PrunedStatus DEF Terminal
  <2>6. \A i \in Ids : i # k => /\ Finished(k, "completed")[i].status = mem[i].status
                                /\ Finished(k, "failed")[i].status = mem[i].status
                                /\ Cancelled(k)[i].status = mem[i].status
    BY ImageStatus
  <2>7. Bounded' /\ Honest(disk)'
    BY <1>typ, <1>split, <1>mem, <2>1, <2>3, <2>4, <2>5, <2>6
  <2> QED
    BY <1>10, <2>1, <2>7
<1>13. CASE Crash
  BY <1>10, <1>13, <1>split DEF Crash
<1>14. ASSUME NEW k \in Ids, ReportUnmarked(k) PROVE LedgerInv'
  BY <1>14, <1>typ, <1>split, <1>split2 DEF ReportUnmarked
<1>15. CASE Tick \/ UNCHANGED vars
  BY <1>15, <1>split, <1>split2 DEF Tick, vars
<1>16. ASSUME NEW k \in Ids, NEW o, NextCold(k, o) \/ NextWarm(k, o) PROVE LedgerInv'
  BY <1>3, <1>16 DEF NextCold, NextWarm, IsBest, Queued, WarmQueued
<1> QED
  BY <1>2, <1>5, <1>6, <1>7, <1>8, <1>9, <1>11, <1>12, <1>13, <1>14, <1>15, <1>16
  DEF Next, ClientStep, DispatcherStep, CrashStep

(* How the phase of a task follows from what the file says of it. *)
LEMMA PhaseCases ==
  ASSUME NEW i \in Ids
  PROVE  /\ disk[i].status = "queued" => PhaseOf(i) = "pending"
         /\ disk[i].status = "running" => PhaseOf(i) = "active"
         /\ disk[i].status \in Terminal => PhaseOf(i) = "over"
         /\ disk[i].status = "absent" => PhaseOf(i) = IF i \in attempted THEN "over" ELSE "unknown"
BY DEF PhaseOf, Terminal

(* Every step of the queue is a step of the ledger, or leaves it alone. *)
LEMMA LedgerStep ==
  ASSUME FlushOutcomes \subseteq {"ok", "unwritten"}, LoadOutcomes \subseteq {"ok"},
         TypeOK, QueueInv, LedgerInv, [Next]_vars
  PROVE  [Ledger!Next]_(Ledger!vars)
<1> USE DEF store, clients
<1> DEFINE Same(i) == PhaseOf(i)' = PhaseOf(i)
<1>typ. /\ mem \in [Ids -> Task] /\ disk \in [Ids -> Task] /\ attempted \subseteq Ids
        /\ \A i \in Ids : mem[i].status \in Status /\ disk[i].status \in Status
        /\ stage \in [Ids -> {"idle", "working", "reporting"}]
  BY DEF TypeOK, Task
<1>inv. /\ ~up => \A i \in Ids : mem[i].status = "absent" /\ stage[i] = "idle"
        /\ \A i \in Ids : i > submitted => mem[i].status = "absent" /\ disk[i].status = "absent"
        /\ \A i \in Ids : stage[i] # "idle" => mem[i].status # "queued"
  BY DEF QueueInv, DownIsEmpty, FreshIsUnknown, InFlightNotQueued
<1>led. \A i \in Ids : /\ up => mem[i].status \in {"absent", disk[i].status}
                       /\ up /\ mem[i].status # disk[i].status => disk[i].status \in Terminal
                       /\ disk[i].status \in Terminal => i \in attempted
                       /\ i > submitted => i \notin attempted
                       /\ stage[i] = "working" /\ i \notin attempted => mem[i].status = "running"
  BY DEF LedgerInv
(* A step that changes nothing the ledger sees, and one that moves one task. *)
<1>1. ASSUME \A i \in Ids : Same(i), Working' = Working
      PROVE  UNCHANGED Ledger!vars
  BY <1>1 DEF Ledger!vars
<1>2. ASSUME NEW k \in Ids, NEW p, PhaseOf(k)' = p, <<PhaseOf(k), p>> \in Ledger!Moves,
             \A i \in Ids : i # k => Same(i)
      PROVE  Ledger!Move(k, p)
  BY <1>2 DEF Ledger!Move
(* What a task is durably stays when the file says of it what memory says. *)
<1>3. ASSUME up, NEW i \in Ids, disk'[i].status = mem[i].status,
             i \in attempted' <=> i \in attempted
      PROVE  Same(i)
  <2>1. CASE mem[i].status = disk[i].status
    BY <1>3, <2>1 DEF PhaseOf
  <2>2. CASE mem[i].status # disk[i].status
    <3>1. disk[i].status \in Terminal /\ i \in attempted /\ mem[i].status = "absent"
      BY <1>led, <1>3, <2>2
    <3>2. PhaseOf(i) = "over"
      BY <3>1, PhaseCases
    <3>3. PhaseOf(i)' = "over"
      BY <1>3, <3>1 DEF PhaseOf, Terminal
    <3> QED
      BY <3>2, <3>3
  <2> QED
    BY <2>1, <2>2
<1>4. ASSUME NEW i \in Ids, disk'[i].status = disk[i].status,
             i \in attempted' <=> i \in attempted
      PROVE  Same(i)
  BY <1>4 DEF PhaseOf
<1> HIDE DEF Same
<1>work. \A i : i \in Working <=> i \in Ids /\ stage[i] = "working"
  BY DEF Working
<1>work2. Working' = {i \in Ids : stage'[i] = "working"}
  BY DEF Working
<1>5. ASSUME NEW n \in Ids, n > submitted, up, disk' = Submitted(n), attempted' = attempted
      PROVE  Ledger!Move(n, "pending")
  <2>1. \A i \in Ids : Submitted(n)[i].status = IF i = n THEN "queued" ELSE mem[i].status
    BY ImageStatus
  <2>2. PhaseOf(n) = "unknown"
    BY <1>5, <1>inv, <1>led, PhaseCases
  <2>3. PhaseOf(n)' = "pending"
    BY <1>5, <2>1 DEF PhaseOf, Terminal
  <2>4. \A i \in Ids : i # n => Same(i)
    BY <1>3, <1>5, <2>1
  <2> QED
    BY <1>2, <2>2, <2>3, <2>4 DEF Ledger!Moves
<1>6. ASSUME NEW k \in Ids, mem[k].status = "queued", up, disk' = Started(k),
             attempted' = attempted
      PROVE  Ledger!Move(k, "active")
  <2>1. \A i \in Ids : Started(k)[i].status = IF i = k THEN "running" ELSE mem[i].status
    BY ImageStatus
  <2>2. PhaseOf(k) = "pending"
    BY <1>6, <1>led, PhaseCases DEF Terminal
  <2>3. PhaseOf(k)' = "active"
    BY <1>6, <2>1 DEF PhaseOf, Terminal
  <2>4. \A i \in Ids : i # k => Same(i)
    BY <1>3, <1>6, <2>1
  <2> QED
    BY <1>2, <2>2, <2>3, <2>4 DEF Ledger!Moves
<1>7. ASSUME NEW k \in Ids, NEW st \in Terminal, NEW new, up, disk' = new, Present(k),
             \A i \in Ids : new[i].status = IF i = k THEN st ELSE mem[i].status,
             attempted' = attempted \cup {k}
      PROVE  Ledger!Move(k, "over") \/ \A i \in Ids : Same(i)
  <2>1. PhaseOf(k) \in {"pending", "active", "over"}
    BY <1>7, <1>typ, <1>led, PhaseCases DEF Present, Status, Live
  <2>2. PhaseOf(k)' = "over"
    BY <1>7 DEF PhaseOf, Terminal
  <2>3. \A i \in Ids : i # k => Same(i)
    BY <1>3, <1>7
  <2>4. CASE PhaseOf(k) = "over"
    BY <2>2, <2>3, <2>4 DEF Same
  <2>5. CASE PhaseOf(k) \in {"pending", "active"}
    BY <1>2, <2>2, <2>3, <2>5 DEF Ledger!Moves
  <2> QED
    BY <2>1, <2>4, <2>5
<1>8. ASSUME up, disk' = Pruned, attempted' = attempted PROVE \A i \in Ids : Same(i)
  <2> SUFFICES ASSUME NEW i \in Ids PROVE Same(i)
    OBVIOUS
  <2>1. CASE Pruned[i].status = mem[i].status
    BY <1>3, <1>8, <2>1
  <2>2. CASE Pruned[i].status # mem[i].status
    <3>1. Pruned[i].status = "absent" /\ mem[i].status \in Terminal
      BY <2>2, PrunedStatus
    <3>2. disk[i].status \in Terminal /\ i \in attempted
      BY <1>8, <1>led, <3>1 DEF Terminal
    <3>3. PhaseOf(i) = "over"
      BY <3>2, PhaseCases
    <3>4. PhaseOf(i)' = "over"
      BY <1>8, <3>1, <3>2 DEF PhaseOf, Terminal
    <3> QED
      BY <3>3, <3>4 DEF Same
  <2> QED
    BY <2>1, <2>2
<1>9. ASSUME up, disk' = disk, attempted' = attempted PROVE \A i \in Ids : Same(i)
  BY <1>4, <1>9
(* The actions. *)
<1>10. ASSUME NEW r \in Requests, NEW o, Submit(r, o) PROVE [Ledger!Next]_(Ledger!vars)
  <2> DEFINE n == submitted + 1
  <2>1. /\ n \in Ids /\ n > submitted /\ up /\ FlushOrRollBack(Submitted(n), o)
        /\ attempted' = attempted /\ stage' = stage
    BY <1>10, FreshId, BoundsAssumption DEF Submit, TypeOK
  <2>2. Working' = Working
    BY <2>1 DEF Working
  <2>3. CASE disk' = Submitted(n)
    <3>1. Ledger!Accept(n)
      BY <1>5, <2>1, <2>2, <2>3 DEF Ledger!Accept
    <3> QED
      BY <2>1, <3>1 DEF Ledger!Next
  <2>4. CASE disk' = disk
    BY <1>1, <1>9, <2>1, <2>2, <2>4
  <2> QED
    BY <2>1, <2>3, <2>4, CleanFlush
<1>11. ASSUME NEW k \in Ids, NEW o, HandOut(k, o), mem[k].status = "queued"
       PROVE  [Ledger!Next]_(Ledger!vars)
  <2>1. up /\ FlushOrRollBack(Started(k), o) /\ attempted' = attempted
    BY <1>11 DEF HandOut
  <2>2. CASE o = "ok"
    <3>1. k \notin Working /\ Working' = Working \cup {k}
      BY <1>11, <1>inv, <1>typ, <1>work, <1>work2, <2>2 DEF HandOut
    <3>2. Ledger!Start(k)
      BY <1>6, <1>11, <2>1, <2>2, <3>1, CleanFlush DEF Ledger!Start
    <3> QED
      BY <3>2 DEF Ledger!Next
  <2>3. CASE o # "ok"
    <3>1. Working' = Working /\ disk' = disk
      BY <1>11, <2>1, <2>3, CleanFlush DEF HandOut, Working
    <3> QED
      BY <1>1, <1>9, <2>1, <3>1
  <2> QED
    BY <2>2, <2>3
<1>12. ASSUME NEW k \in Ids, NEW st \in Terminal, NEW new, NEW o, up, Settle(k, new, o),
              Present(k) \/ k \in attempted,
              \A i \in Ids : new[i].status = IF i = k THEN st ELSE mem[i].status
       PROVE  Ledger!Move(k, "over") \/ \A i \in Ids : Same(i)
  <2>1. attempted' = attempted \cup {k}
    BY <1>12 DEF Settle
  <2>2. CASE Present(k) /\ disk' = new
    BY <1>7, <1>12, <2>1, <2>2
  <2>3. CASE Present(k) /\ disk' = disk
    <3>1. disk[k].status # "absent"
      BY <1>12, <1>led, <2>3 DEF Present
    <3>2. Same(k)
      BY <2>3, <3>1, <1>typ DEF Same, PhaseOf, Status, Live
    <3> QED
      BY <1>4, <2>1, <2>3, <3>2
  <2>4. CASE ~Present(k)
    BY <1>9, <1>12, <2>1, <2>4 DEF Settle
  <2> QED
    BY <1>12, <2>2, <2>3, <2>4, CleanFlush DEF Settle
<1>13. ASSUME NEW k \in Ids, NEW o, Cancel(k, o) PROVE [Ledger!Next]_(Ledger!vars)
  <2>1. Ledger!Move(k, "over") \/ \A i \in Ids : Same(i)
    BY <1>12, <1>13, ImageStatus DEF Cancel, Terminal
  <2>2. Working' = Working
    BY <1>13 DEF Cancel, Working
  <2> QED
    BY <1>1, <2>1, <2>2 DEF Ledger!Next, Ledger!End
<1>14. ASSUME NEW k \in Ids, NEW st \in {"completed", "failed"}, NEW o, Finish(k, st, o)
       PROVE  [Ledger!Next]_(Ledger!vars)
  <2> DEFINE new == Finished(k, st)
  <2>1. \A i \in Ids : new[i].status = IF i = k THEN st ELSE mem[i].status
    BY ImageStatus
  <2>2. /\ up /\ st \in Terminal /\ Settle(k, new, o) /\ stage[k] = "working"
        /\ stage' = [stage EXCEPT ![k] = "reporting"]
    BY <1>14 DEF Finish, Terminal
  <2> HIDE DEF new
  <2>3. Present(k) \/ k \in attempted
    BY <1>led, <2>2 DEF Present
  <2>4. Ledger!Move(k, "over") \/ \A i \in Ids : Same(i)
    BY <1>12, <2>1, <2>2, <2>3
  <2>5. k \in Working /\ Working' = Working \ {k}
    BY <1>typ, <1>work, <1>work2, <2>2
  <2>6. CASE Ledger!Move(k, "over")
    BY <2>5, <2>6 DEF Ledger!Next, Ledger!End
  <2>7. CASE \A i \in Ids : Same(i)
    BY <2>5, <2>7 DEF Ledger!Next, Ledger!Drop, Same
  <2> QED
    BY <2>4, <2>6, <2>7
<1>15. ASSUME NEW k \in Ids, NEW o, ReportDelivered(k, o) PROVE [Ledger!Next]_(Ledger!vars)
  <2>1. /\ up /\ stage[k] = "reporting" /\ stage' = [stage EXCEPT ![k] = "idle"]
        /\ disk' \in {disk, Marked(k)} /\ attempted' = attempted
    BY <1>15, FlushEffect DEF ReportDelivered
  <2>2. Working' = Working
    BY <1>typ, <1>work, <1>work2, <2>1
  <2>3. \A i \in Ids : Same(i)
    BY <1>3, <1>9, <2>1, ImageStatus
  <2> QED
    BY <1>1, <2>2, <2>3
<1>16. ASSUME NEW k \in Ids, ReportUnmarked(k) PROVE [Ledger!Next]_(Ledger!vars)
  <2>1. Working' = Working
    BY <1>16, <1>typ, <1>work, <1>work2 DEF ReportUnmarked
  <2> QED
    BY <1>1, <1>9, <1>16, <2>1 DEF ReportUnmarked
<1>17. ASSUME NEW o, Prune(o) PROVE [Ledger!Next]_(Ledger!vars)
  <2>1. /\ up /\ disk' \in {disk, Pruned} /\ attempted' = attempted /\ Working' = Working
    BY <1>17, FlushEffect DEF Prune, Working
  <2> QED
    BY <1>1, <1>8, <1>9, <2>1
<1>18. ASSUME NEW o, Restart(o) PROVE [Ledger!Next]_(Ledger!vars)
  <2>1. ~up /\ attempted' = attempted /\ stage' = stage /\ Working' = Working
    BY <1>18 DEF Restart, Working
  <2>2. Working = {}
    BY <1>inv, <1>work, <2>1
  <2>3. CASE disk' = disk
    BY <1>1, <1>4, <2>1, <2>3
  <2>4. CASE disk' = Recovered(disk)
    <3>1. \A i \in Ids : PhaseOf(i)' = IF PhaseOf(i) = "active" THEN "pending" ELSE PhaseOf(i)
      <4> TAKE i \in Ids
      <4>1. disk'[i].status = IF disk[i].status = "running" THEN "queued" ELSE disk[i].status
        BY <2>4, RecoveredStatus
      <4>2. CASE disk[i].status = "running"
        <5>1. PhaseOf(i) = "active"
          BY <4>2, PhaseCases
        <5>2. PhaseOf(i)' = "pending"
          BY <4>1, <4>2 DEF PhaseOf, Terminal
        <5> QED
          BY <5>1, <5>2
      <4>3. CASE disk[i].status # "running"
        <5>1. PhaseOf(i)' = PhaseOf(i)
          BY <2>1, <4>1, <4>3, <1>4 DEF Same
        <5>2. PhaseOf(i) # "active"
          BY <4>3, <1>typ, PhaseCases DEF Status, Live
        <5> QED
          BY <5>1, <5>2
      <4> QED
        BY <4>2, <4>3
    <3>2. Ledger!Recover
      BY <2>1, <2>2, <3>1 DEF Ledger!Recover
    <3> QED
      BY <3>2 DEF Ledger!Next
  <2> QED
    BY <1>18, <2>3, <2>4 DEF Restart
<1>19. ASSUME GoDown,
              \/ \A i \in Ids : Same(i)
              \/ \E k \in Ids, p \in {"pending", "active", "over"} : Ledger!Move(k, p)
       PROVE  [Ledger!Next]_(Ledger!vars)
  <2>1. Working' = {}
    BY <1>19, <1>work2, GoDownEffect
  <2>2. Ledger!Crash
    BY <1>19, <2>1 DEF Ledger!Crash, Ledger!Phases, Same
  <2> QED
    BY <2>2 DEF Ledger!Next
<1>20. ASSUME NEW r \in Requests, CrashInSubmit(r) PROVE [Ledger!Next]_(Ledger!vars)
  <2> DEFINE n == submitted + 1
  <2>1. /\ n \in Ids /\ n > submitted /\ up /\ disk' = Submitted(n)
        /\ attempted' = attempted /\ GoDown
    BY <1>20, FreshId, BoundsAssumption DEF CrashInSubmit, GoDown, TypeOK
  <2> QED
    BY <1>5, <1>19, <2>1
<1>21. ASSUME NEW k \in Ids, CrashInUpdate(k) PROVE [Ledger!Next]_(Ledger!vars)
  <2>1. up /\ GoDown
    BY <1>21 DEF CrashInUpdate, GoDown
  <2>2. \/ mem[k].status = "queued" /\ disk' = Started(k) /\ attempted' = attempted
        \/ /\ Present(k) /\ attempted' = attempted \cup {k}
           /\ \/ disk' = Cancelled(k)
              \/ \E st \in {"completed", "failed"} : disk' = Finished(k, st)
        \/ disk' \in {Marked(k), Pruned} /\ attempted' = attempted
    BY <1>21 DEF CrashInUpdate, IsBest, Queued, WarmQueued
  <2>3. CASE mem[k].status = "queued" /\ disk' = Started(k) /\ attempted' = attempted
    BY <1>6, <1>19, <2>1, <2>3
  <2>4. CASE Present(k) /\ attempted' = attempted \cup {k} /\ disk' = Cancelled(k)
    BY <1>7, <1>19, <2>1, <2>4, ImageStatus DEF Terminal
  <2>5. ASSUME Present(k), attempted' = attempted \cup {k}, NEW st \in {"completed", "failed"},
               disk' = Finished(k, st)
        PROVE  [Ledger!Next]_(Ledger!vars)
    <3> DEFINE new == Finished(k, st)
    <3>1. \A i \in Ids : new[i].status = IF i = k THEN st ELSE mem[i].status
      BY ImageStatus
    <3>2. disk' = new /\ st \in Terminal
      BY <2>5 DEF Terminal
    <3> HIDE DEF new
    <3> QED
      BY <1>7, <1>19, <2>1, <2>5, <3>1, <3>2
  <2>6. CASE disk' = Marked(k) /\ attempted' = attempted
    <3>1. \A i \in Ids : Same(i)
      BY <1>3, <2>1, <2>6, ImageStatus
    <3> QED
      BY <1>19, <2>1, <3>1
  <2>7. CASE disk' = Pruned /\ attempted' = attempted
    BY <1>8, <1>19, <2>1, <2>7
  <2> QED
    BY <2>2, <2>3, <2>4, <2>5, <2>6, <2>7
<1>22. CASE Crash
  <2>1. GoDown /\ up /\ disk' = disk /\ attempted' = attempted
    BY <1>22 DEF Crash, GoDown
  <2> QED
    BY <1>9, <1>19, <2>1
<1>23. CASE Tick \/ UNCHANGED vars
  <2>1. disk' = disk /\ attempted' = attempted /\ Working' = Working
    BY <1>23 DEF Tick, vars, Working
  <2> QED
    BY <1>1, <1>4, <2>1
<1>24. ASSUME NEW k \in Ids, NEW o, NextCold(k, o) \/ NextWarm(k, o)
       PROVE  [Ledger!Next]_(Ledger!vars)
  BY <1>11, <1>24 DEF NextCold, NextWarm, IsBest, Queued, WarmQueued
<1> QED
  BY <1>10, <1>13, <1>14, <1>15, <1>16, <1>17, <1>18, <1>20, <1>21, <1>22, <1>23, <1>24
  DEF Next, ClientStep, DispatcherStep, CrashStep

(* The queue keeps the promise of the ledger, crashes at any point and       *)
(* failing flushes included, as long as flush fails only before the rename   *)
(* and the load at startup does not fail.                                    *)
THEOREM LedgerKept ==
  ASSUME FlushOutcomes \subseteq {"ok", "unwritten"}, LoadOutcomes \subseteq {"ok"}
  PROVE  Spec => ImplementsLedger
<1>1. Init => Ledger!Init
  BY DEF Init, Ledger!Init, PhaseOf, Working, NoTasks, NoTask, Terminal
<1>2. Init => LedgerInv
  BY DEF Init, LedgerInv, NoTasks, NoTask, Terminal
<1>3. TypeOK /\ QueueInv /\ LedgerInv /\ [Next]_vars => LedgerInv'
  BY LedgerInvStep
<1>4. TypeOK /\ QueueInv /\ LedgerInv /\ [Next]_vars => [Ledger!Next]_(Ledger!vars)
  BY LedgerStep
<1>5. TypeOK /\ QueueInv /\ [Next]_vars => QueueInv'
  BY InvStep
<1> QED
  BY <1>1, <1>2, <1>3, <1>4, <1>5, InvInit, TypeCorrect, PTL
  DEF Spec, ImplementsLedger, Ledger!Spec
=============================================================================
