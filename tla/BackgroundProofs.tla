-------------------------- MODULE BackgroundProofs ---------------------------
(***************************************************************************)
(* Theorems about Session - a lone supervisor keeps to its restart limit    *)
(* and to what status reports, for every limit and every number of          *)
(* supervisors that could be started besides it - and about MCBackground,   *)
(* the parts side by side: what is proved of each holds of all of them.     *)
(***************************************************************************)
EXTENDS MCBackground, SchedulerProofs, MemoryStoreProofs, ChannelProofs

-----------------------------------------------------------------------------
(* The supervisor *)

(* What a step of supervisor s does to the program counters. *)
LEMMA BecomeEffect ==
  ASSUME SessionTypeOK, NEW s \in Supervisors,
         NEW pc \in {"check", "spawn", "running", "failed", "unstarted", "backoff", "gaveup"}, Become(s, pc)
  PROVE  /\ sup' \in [Supervisors -> {"new", "check", "spawn", "running", "failed", "unstarted", "backoff", "gaveup"}]
         /\ sup'[s] = pc
         /\ \A t \in Supervisors : t # s => sup'[t] = sup[t]
BY DEF SessionTypeOK, Become

LEMMA KillEffect ==
  ASSUME SessionTypeOK, NEW s \in Supervisors, KillProcess(s)
  PROVE  /\ proc' \in [Supervisors -> {"none", "alive", "asked", "dead"}]
         /\ \A t \in Supervisors : proc[t] = "none" => proc'[t] = "none"
<1> DEFINE new == IF proc[s] = "alive" THEN "asked" ELSE proc[s]
<1>1. proc' = [proc EXCEPT ![s] = new] /\ proc \in [Supervisors -> {"none", "alive", "asked", "dead"}]
  BY DEF KillProcess, SessionTypeOK
<1>2. new \in {"none", "alive", "asked", "dead"} /\ (proc[s] = "none" => new = "none")
  BY <1>1
<1> HIDE DEF new
<1> QED
  BY <1>1, <1>2

LEMMA SessionTypeStep == SessionTypeOK /\ [SessionNext]_sessionVars => SessionTypeOK'
<1> SUFFICES ASSUME SessionTypeOK, [SessionNext]_sessionVars PROVE SessionTypeOK'
  OBVIOUS
<1> USE SessionAssumption DEF machine, manager, tally
<1>1. ASSUME NEW s \in Supervisors, CheckAttempts(s) PROVE SessionTypeOK'
  <2>1. PICK pc \in {"spawn", "gaveup"} : Become(s, pc)
    BY <1>1 DEF CheckAttempts
  <2> QED
    BY <1>1, <2>1, BecomeEffect DEF CheckAttempts, SessionTypeOK
<1>2. ASSUME NEW s \in Supervisors, SpawnSession(s) PROVE SessionTypeOK'
  <2>1. spawns' \in 0 .. MaxSpawns /\ sup[s] = "spawn"
    BY <1>2 DEF SpawnSession, SessionTypeOK
  <2>2. CASE Become(s, "running") /\ proc' = [proc EXCEPT ![s] = "alive"]
    BY <1>2, <2>1, <2>2, BecomeEffect, ZenonT(40) DEF SpawnSession, SessionTypeOK
  <2>3. CASE Become(s, "unstarted") /\ UNCHANGED <<machine, manager, tally, operator>>
    BY <2>1, <2>3, BecomeEffect DEF SessionTypeOK
  <2> QED
    BY <1>2, <2>2, <2>3 DEF SpawnSession
<1>3. ASSUME NEW s \in Supervisors, Exit(s) \/ ChildExits(s) PROVE SessionTypeOK'
  BY <1>3 DEF Exit, ChildExits, SessionTypeOK
<1>4. ASSUME NEW s \in Supervisors, Reap(s) PROVE SessionTypeOK'
  BY <1>4, BecomeEffect DEF Reap, SessionTypeOK
<1>5. ASSUME NEW s \in Supervisors, CountRestart(s) PROVE SessionTypeOK'
  BY <1>5, BecomeEffect DEF CountRestart, SessionTypeOK
<1>6. ASSUME NEW s \in Supervisors, BackedOff(s) PROVE SessionTypeOK'
  BY <1>6, BecomeEffect DEF BackedOff, SessionTypeOK
<1>7. CASE FiveMinutesPass
  BY <1>7 DEF FiveMinutesPass, SessionTypeOK
<1>8. ASSUME NEW s \in Supervisors, Rotate(s) PROVE SessionTypeOK'
  BY <1>8, KillEffect DEF Rotate, SessionTypeOK
<1>9. ASSUME NEW request \in {"stop", "restart"}, StopSession(request) PROVE SessionTypeOK'
  BY <1>9, KillEffect DEF StopSession, After, SessionTypeOK
<1>10. CASE Stopped
  BY <1>10 DEF Stopped, After, SessionTypeOK
<1>11. CASE StartSession
  <2>1. PICK s \in Supervisors : sup[s] = "new" /\ Become(s, "check")
    BY <1>11 DEF StartSession
  <2> QED
    BY <1>11, <2>1, BecomeEffect DEF StartSession, SessionTypeOK
<1>12. CASE UNCHANGED sessionVars
  BY <1>12 DEF sessionVars, SessionTypeOK
<1> QED
  BY <1>1, <1>2, <1>3, <1>4, <1>5, <1>6, <1>7, <1>8, <1>9, <1>10, <1>11, <1>12
  DEF SessionNext, SuperviseSteps, Escalate

-----------------------------------------------------------------------------
(* A lone supervisor *)

LEMMA LoneStep ==
  SessionTypeOK /\ LoneInv /\ [SessionNext]_sessionVars => LoneInv'
<1> SUFFICES ASSUME SessionTypeOK, LoneInv, [SessionNext]_sessionVars PROVE LoneInv'
  OBVIOUS
<1> USE SessionAssumption DEF machine, manager, tally
<1>t. /\ restarts \in Nat /\ MaxRestartAttempts \in Nat \ {0}
      /\ sup \in [Supervisors -> {"new", "check", "spawn", "running", "failed", "unstarted", "backoff", "gaveup"}]
  BY DEF SessionTypeOK
(* A step of a supervisor that was started: if it is alone, it is the first. *)
<1>0. ASSUME NEW s \in Supervisors,
             NEW pc \in {"check", "spawn", "running", "failed", "unstarted", "backoff", "gaveup"},
             sup[s] # "new", Become(s, pc),
             s = First /\ Started = {First} =>
               /\ restarts' = shorts' /\ restarts' <= MaxRestartAttempts
               /\ pc \in {"spawn", "running", "failed", "unstarted"} => restarts' < MaxRestartAttempts
               /\ running' <=> pc = "running"
      PROVE  LoneInv'
  <2>1. sup'[s] = pc /\ \A t \in Supervisors : t # s => sup'[t] = sup[t]
    BY <1>0, BecomeEffect
  <2>2. Started' = Started
    BY <1>0, <2>1 DEF Started
  <2>3. Started = {First} => s = First
    BY <1>0 DEF Started
  <2>4. sup'[First] # "new"
    BY <2>1 DEF LoneInv
  <2> QED
    BY <1>0, <2>1, <2>2, <2>3, <2>4 DEF LoneInv
<1>1. ASSUME NEW s \in Supervisors, CheckAttempts(s) PROVE LoneInv'
  <2>1. PICK pc \in {"spawn", "gaveup"} :
          pc = IF restarts >= MaxRestartAttempts THEN "gaveup" ELSE "spawn"
    OBVIOUS
  <2>2. sup[s] = "check" /\ Become(s, pc) /\ UNCHANGED <<restarts, shorts, running>>
    BY <1>1, <2>1 DEF CheckAttempts
  <2>3. pc = "spawn" => restarts < MaxRestartAttempts
    BY <1>t, <2>1
  <2> QED
    BY <1>0, <2>2, <2>3 DEF LoneInv
<1>2. ASSUME NEW s \in Supervisors, SpawnSession(s) PROVE LoneInv'
  <2>1. sup[s] = "spawn" /\ UNCHANGED <<restarts, shorts>>
    BY <1>2 DEF SpawnSession
  <2>2. PICK pc \in {"running", "unstarted"} :
          Become(s, pc) /\ (IF pc = "running" THEN running' = TRUE ELSE running' = running)
    BY <1>2 DEF SpawnSession
  <2> QED
    BY <1>0, <2>1, <2>2 DEF LoneInv
<1>3. ASSUME NEW s \in Supervisors, Reap(s) PROVE LoneInv'
  <2>1. sup[s] = "running" /\ Become(s, "failed") /\ UNCHANGED <<restarts, shorts>> /\ running' = FALSE
    BY <1>3 DEF Reap
  <2> QED
    BY <1>0, <2>1 DEF LoneInv
<1>4. ASSUME NEW s \in Supervisors, CountRestart(s) PROVE LoneInv'
  <2>1. sup[s] \in {"failed", "unstarted"} /\ Become(s, "backoff") /\ running' = running
    BY <1>4 DEF CountRestart
  <2>2. CASE startedAt = "recent"
    <3>1. restarts' = restarts + 1 /\ shorts' = shorts + 1
      BY <1>4, <2>2 DEF CountRestart
    <3>2. s = First /\ Started = {First} => restarts' = shorts' /\ restarts' <= MaxRestartAttempts
      BY <1>t, <2>1, <3>1 DEF LoneInv
    <3> QED
      BY <1>0, <2>1, <3>2 DEF LoneInv
  <2>3. CASE startedAt # "recent"
    <3>1. restarts' = 0 /\ shorts' = 0
      BY <1>4, <2>3 DEF CountRestart
    <3> QED
      BY <1>0, <1>t, <2>1, <3>1 DEF LoneInv
  <2> QED
    BY <2>2, <2>3
<1>5. ASSUME NEW s \in Supervisors, BackedOff(s) PROVE LoneInv'
  <2>1. sup[s] = "backoff" /\ Become(s, "check") /\ UNCHANGED <<restarts, shorts, running>>
    BY <1>5 DEF BackedOff
  <2> QED
    BY <1>0, <2>1 DEF LoneInv
<1>6. CASE StartSession
  <2>1. PICK s \in Supervisors : sup[s] = "new" /\ Become(s, "check")
    BY <1>6 DEF StartSession
  <2>2. sup'[s] = "check" /\ s # First /\ sup'[First] = sup[First]
    BY <2>1, BecomeEffect DEF LoneInv
  <2>3. Started' # {First}
    BY <2>2 DEF Started
  <2> QED
    BY <2>2, <2>3 DEF LoneInv
<1>7. CASE UNCHANGED <<sup, running, restarts, shorts>>
  BY <1>7 DEF LoneInv, Started
<1> QED
  BY <1>1, <1>2, <1>3, <1>4, <1>5, <1>6, <1>7
  DEF SessionNext, SuperviseSteps, Escalate, Exit, ChildExits, Rotate, FiveMinutesPass, StopSession, Stopped,
    sessionVars

-----------------------------------------------------------------------------
(* The theorems *)

LEMMA SessionStart == SessionInit => SessionTypeOK /\ LoneInv
<1> SUFFICES ASSUME SessionInit PROVE SessionTypeOK /\ LoneInv
  OBVIOUS
<1>1. SessionTypeOK
  <2>1. sup \in [Supervisors -> {"new", "check", "spawn", "running", "failed", "unstarted", "backoff", "gaveup"}]
    BY DEF SessionInit
  <2>2. /\ proc \in [Supervisors -> {"none", "alive", "asked", "dead"}]
        /\ \A s \in Supervisors : proc[s] = "none"
    BY DEF SessionInit
  <2>3. spawns \in 0 .. MaxSpawns
    BY SessionAssumption DEF SessionInit
  <2> QED
    BY <2>1, <2>2, <2>3 DEF SessionInit, SessionTypeOK
<1>2. LoneInv
  BY SessionAssumption DEF SessionInit, LoneInv
<1> QED
  BY <1>1, <1>2

(* Every variable of the supervisors keeps to its domain. *)
THEOREM SessionTypeCorrect == SessionSpec => []SessionTypeOK
BY SessionStart, SessionTypeStep, PTL DEF SessionSpec

LEMMA LoneSound == SessionTypeOK /\ LoneInv => LoneSupervisor
BY SessionAssumption DEF SessionTypeOK, LoneInv, LoneSupervisor

(* While no second supervisor was started, the restart counter is the number of
   short sessions in a row and never passes the limit, and the manager reports a
   session exactly while its supervisor has one to wait for. *)
THEOREM SupervisorAlone == SessionSpec => []LoneSupervisor
BY SessionStart, SessionTypeStep, LoneStep, LoneSound, PTL DEF SessionSpec

-----------------------------------------------------------------------------
(* The parts side by side *)

LEMMA BackgroundStart ==
  BackgroundInit => SchedulerInit /\ MemoryInit /\ SessionInit /\ ChannelInit
BY DEF BackgroundInit

(* A step of the product is a step of one part, and leaves the others alone. *)
LEMMA BackgroundStep ==
  [BackgroundNext]_backgroundVars =>
    /\ [SchedulerNext]_schedVars /\ [MemoryNext]_memVars
    /\ [SessionNext]_sessionVars /\ [ChannelNext]_channelVars
BY DEF BackgroundNext, backgroundVars, InScheduler, InMemory, InSession, InChannel

(* Every variable of the scheduler, the memory store, the supervisor and the
   bot keeps to its domain while the four run side by side. *)
THEOREM BackgroundTypeCorrect == BackgroundSpec => []BackgroundTypeOK
BY BackgroundStart, BackgroundStep, SchedulerStart, SchedulerTypeStep, MemoryStart, MemoryTypeStep,
   SessionStart, SessionTypeStep, ChannelStart, ChannelTypeStep, PTL DEF BackgroundSpec, BackgroundTypeOK

(* What is proved of each part holds while the four run side by side. *)
THEOREM BackgroundSafe ==
  BackgroundSpec => [](/\ RunOncePerDueTime /\ RoutesAreDurable
                       /\ StoreIsDurable /\ SearchIsRight /\ LoneSupervisor
                       /\ VerdictIsOperators /\ OnlyPairedReachClaude /\ EyesHaveAnOwner)
<1>1. BackgroundSpec => []RunOncePerDueTime /\ []RoutesAreDurable
  BY BackgroundStart, BackgroundStep, SchedulerStart, SchedulerTypeStep, RoutesStep, DueStep, OrderedStep,
     PTL DEF BackgroundSpec
<1>2. BackgroundSpec => MemorySpec
  BY BackgroundStart, BackgroundStep, PTL DEF BackgroundSpec, MemorySpec
<1>3. BackgroundSpec => []LoneSupervisor
  BY BackgroundStart, BackgroundStep, SessionStart, SessionTypeStep, LoneStep, LoneSound,
     PTL DEF BackgroundSpec
<1>4. BackgroundSpec => []VerdictIsOperators
  BY BackgroundStart, BackgroundStep, ChannelStart, ChannelTypeStep, VerdictStep, VerdictSound,
     PTL DEF BackgroundSpec
<1>5. BackgroundSpec => []OnlyPairedReachClaude /\ []EyesHaveAnOwner
  BY BackgroundStart, BackgroundStep, ChannelStart, ChannelTypeStep, GateStep, GateSound, EyesStep, EyesSound,
     PTL DEF BackgroundSpec
<1> QED
  BY <1>1, <1>2, <1>3, <1>4, <1>5, StoreDurable, SearchRight, PTL
=============================================================================
