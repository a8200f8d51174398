------------------------------- MODULE Session -------------------------------
(***************************************************************************)
(* The supervisor of the Telegram session (internal/session/manager.go) and *)
(* the routes that start, stop and restart it (routes_session.go).          *)
(*                                                                         *)
(* Start is called by the daemon's start and by the routes; each call is a  *)
(* goroutine with a loop of its own, and they share the manager's fields.   *)
(* Durations are abstracted to what the code compares: startedAt lies more  *)
(* than five minutes back or not, or was never set, which counts as long    *)
(* ago.  A process may ignore SIGTERM, and may leave a child behind that    *)
(* keeps its terminal open.                                                *)
(***************************************************************************)
EXTENDS Naturals, FiniteSets

CONSTANTS
  Supervisors,         \* goroutines in Manager.Run, started one after another
  First,               \* the one that Daemon.Run starts
  MaxRestartAttempts,  \* telegram_session.max_restart_attempts
  MaxSpawns            \* bound: attempts to start Claude

Unset == "unset"

ASSUME SessionAssumption ==
  /\ First \in Supervisors /\ Unset \notin Supervisors
  /\ MaxRestartAttempts \in Nat \ {0} /\ MaxSpawns \in Nat

VARIABLES
  sup,        \* program counter of each supervisor
  proc,       \* its Claude process: "none", "alive", "asked" (SIGTERM), "dead"
  held,       \* supervisors whose terminal is still open in a child process
  watching,   \* supervisors whose monitorLoop runs
  cmd,        \* Manager.cmd: whose process it is, or Unset
  running,    \* Manager.running
  startedAt,  \* Manager.startedAt: Unset (long ago), "recent" or "old"
  restarts,   \* Manager.restarts
  shorts,     \* sessions in a row that ended within five minutes
  operator,   \* a request in handleSessionStop or handleSessionRestart
  spawns      \* attempts so far

sessionVars == <<sup, proc, held, watching, cmd, running, startedAt, restarts,
                 shorts, operator, spawns>>
machine == <<proc, held, watching>>
manager == <<cmd, running, startedAt>>
tally == <<restarts, shorts>>

-----------------------------------------------------------------------------
SessionInit ==
  /\ sup = [s \in Supervisors |-> IF s = First THEN "check" ELSE "new"]
  /\ proc = [s \in Supervisors |-> "none"] /\ held = {} /\ watching = {}
  /\ cmd = Unset /\ running = FALSE /\ startedAt = Unset
  /\ restarts = 0 /\ shorts = 0
  /\ operator = "idle" /\ spawns = 0

Become(s, pc) == sup' = [sup EXCEPT ![s] = pc]

(* The head of the loop in Run. *)
CheckAttempts(s) ==
  /\ sup[s] = "check"
  /\ Become(s, IF restarts >= MaxRestartAttempts THEN "gaveup" ELSE "spawn")
  /\ UNCHANGED <<machine, manager, tally, operator, spawns>>

(* runOnce: Claude starts in a terminal and is entered in the manager, or does
   not start, and nothing is entered. *)
SpawnSession(s) ==
  /\ sup[s] = "spawn" /\ spawns < MaxSpawns /\ spawns' = spawns + 1
  /\ \/ /\ Become(s, "running")
        /\ proc' = [proc EXCEPT ![s] = "alive"]
        /\ watching' = watching \union {s}
        /\ cmd' = s /\ running' = TRUE /\ startedAt' = "recent"
        /\ UNCHANGED <<held, tally, operator>>
     \/ /\ Become(s, "unstarted")
        /\ UNCHANGED <<machine, manager, tally, operator>>

(* The process ends by itself or because it was asked to. *)
Exit(s) ==
  /\ proc[s] \in {"alive", "asked"}
  /\ proc' = [proc EXCEPT ![s] = "dead"]
  /\ held' \in {held, held \union {s}}
  /\ UNCHANGED <<sup, watching, manager, tally, operator, spawns>>

ChildExits(s) ==
  /\ s \in held /\ held' = held \ {s}
  /\ UNCHANGED <<sup, proc, watching, manager, tally, operator, spawns>>

(* The tail of runOnce: it waits for the process, for the monitor and for the
   end of the output, and then clears the manager's fields, whoever set them. *)
Reap(s) ==
  /\ sup[s] = "running" /\ proc[s] = "dead" /\ s \notin held
  /\ Become(s, "failed")
  /\ proc' = [proc EXCEPT ![s] = "none"] /\ watching' = watching \ {s}
  /\ cmd' = Unset /\ running' = FALSE
  /\ UNCHANGED <<held, startedAt, tally, operator, spawns>>

(* Fault: a session that exits cleanly is not counted, whatever its length. *)
CountFailuresOnly(s) ==
  /\ sup[s] \in {"failed", "unstarted"} /\ Become(s, "backoff")
  /\ LET ended == startedAt = "recent" IN
       /\ restarts' \in IF ended THEN {restarts, restarts + 1} ELSE {0}
       /\ shorts' = IF ended THEN shorts + 1 ELSE 0
  /\ UNCHANGED <<machine, manager, operator, spawns>>

(* The restart counter looks at startedAt alone: a start that fails resets it,
   so that the supervisor keeps trying. *)
CountRestart(s) ==
  /\ sup[s] \in {"failed", "unstarted"} /\ Become(s, "backoff")
  /\ restarts' = IF startedAt = "recent" THEN restarts + 1 ELSE 0
  /\ shorts' = IF startedAt = "recent" THEN shorts + 1 ELSE 0
  /\ UNCHANGED <<machine, manager, operator, spawns>>

BackedOff(s) ==
  /\ sup[s] = "backoff" /\ Become(s, "check")
  /\ UNCHANGED <<machine, manager, tally, operator, spawns>>

FiveMinutesPass ==
  /\ startedAt = "recent" /\ startedAt' = "old"
  /\ UNCHANGED <<sup, machine, cmd, running, tally, operator, spawns>>

-----------------------------------------------------------------------------
(* Ending a session. *)

KillProcess(s) == proc' = [proc EXCEPT ![s] = IF @ = "alive" THEN "asked" ELSE @]

(* monitorLoop: too much memory, or up for too long and idle; a monitor that
   finds the manager not running returns for good. *)
Rotate(s) ==
  /\ s \in watching /\ watching' = watching \ {s}
  /\ IF running THEN KillProcess(s) ELSE UNCHANGED proc
  /\ UNCHANGED <<sup, held, manager, tally, operator, spawns>>


(* killProcess: SIGKILL a minute after SIGTERM. *)
Escalate(s) == proc[s] = "asked" /\ Exit(s)

(* Stop looks the process up once and waits until the manager is not running,
   for 90 seconds at most; it leaves the supervisor in its loop. *)
After(request) == IF request = "restart" THEN "start" ELSE "idle"

StopSession(request) ==
  /\ operator = "idle"
  /\ operator' = IF cmd = Unset THEN After(request) ELSE request
  /\ IF cmd = Unset THEN UNCHANGED proc ELSE KillProcess(cmd)
  /\ UNCHANGED <<sup, held, watching, manager, tally, spawns>>

Stopped ==
  /\ operator \in {"stop", "restart"} /\ operator' = After(operator)
  /\ UNCHANGED <<sup, machine, manager, tally, spawns>>

(* Start: the counter is reset and one more goroutine enters Run.  The start
   route refuses while a session runs, the restart route does not look; neither
   asks whether a supervisor is in its loop without a process. *)
StartSession ==
  /\ operator = "idle" => ~running
  /\ operator \in {"idle", "start"}
  /\ operator' = "idle"
  /\ \E s \in Supervisors : sup[s] = "new" /\ Become(s, "check")
  /\ restarts' = 0 /\ shorts' = 0
  /\ UNCHANGED <<machine, manager, spawns>>

SuperviseSteps(s) ==
  CheckAttempts(s) \/ Reap(s) \/ CountRestart(s) \/ BackedOff(s) \/ Escalate(s)

SessionNext ==
  \/ \E s \in Supervisors :
       SuperviseSteps(s) \/ SpawnSession(s) \/ Exit(s) \/ ChildExits(s) \/ Rotate(s)
  \/ FiveMinutesPass
  \/ \E request \in {"stop", "restart"} : StopSession(request)
  \/ Stopped
  \/ StartSession

(* Supervisors and the timers of killProcess run; Claude, its children and the
   operator do as they please. *)
SessionFairness == \A s \in Supervisors : WF_sessionVars(Escalate(s)) /\ WF_sessionVars(SuperviseSteps(s))
SessionSpec == SessionInit /\ [][SessionNext]_sessionVars /\ SessionFairness

-----------------------------------------------------------------------------
(* Correctness. *)

Started == {s \in Supervisors : sup[s] # "new"}
Alive == {s \in Supervisors : proc[s] \in {"alive", "asked"}}

(* Every variable keeps to its domain, and a supervisor outside of runOnce has
   no process. *)
SessionTypeOK ==
  /\ sup \in [Supervisors -> {"new", "check", "spawn", "running", "failed", "unstarted", "backoff", "gaveup"}]
  /\ proc \in [Supervisors -> {"none", "alive", "asked", "dead"}]
  /\ restarts \in Nat /\ shorts \in Nat
  /\ operator \in {"idle", "start", "stop", "restart"}
  /\ \A s \in Supervisors : sup[s] # "running" => proc[s] = "none"
  /\ held \subseteq Supervisors /\ watching \subseteq Supervisors
  /\ cmd \in Supervisors \union {Unset} /\ running \in BOOLEAN
  /\ startedAt \in {Unset, "recent", "old"} /\ spawns \in 0 .. MaxSpawns

(* A lone supervisor stops after max_restart_attempts sessions in a row that
   started and ended within five minutes, and status reports a session exactly
   while it has one to wait for. *)
LoneSupervisor ==
  Started = {First} =>
    /\ shorts <= MaxRestartAttempts
    /\ running <=> sup[First] = "running"

(* The inductive invariant behind it: the counter counts exactly the short
   sessions in a row, and a supervisor that got past the check is below the
   limit, so that the session it is about to count reaches it at most. *)
LoneInv ==
  /\ sup[First] # "new"
  /\ Started = {First} =>
       /\ restarts = shorts /\ restarts <= MaxRestartAttempts
       /\ sup[First] \in {"spawn", "running", "failed", "unstarted"} => restarts < MaxRestartAttempts
       /\ running <=> sup[First] = "running"


(* manager.go:58: the manager "supervises a Claude Code channel-mode process",
   one of them: it has one cmd, one terminal and one restart counter. *)
OneSession == Cardinality(Alive) <= 1
=============================================================================
