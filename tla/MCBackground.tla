---------------------------- MODULE MCBackground -----------------------------
(***************************************************************************)
(* The parts of the daemon that run beside the tasks and share no state:    *)
(* the scheduler, the memory store, the session supervisor and the Telegram *)
(* channel bot.  A behaviour is one of any single part (interleaving parts  *)
(* that share nothing adds nothing), so that one run checks them all.       *)
(***************************************************************************)
EXTENDS Scheduler, MemoryStore, Session, Channel

VARIABLE part   \* the part that this behaviour is about

EveryTick == [n \in Names |-> 1]

From(chat, user, group, mention, verdict) ==
  [chat |-> chat, user |-> user, group |-> group, mention |-> mention, verdict |-> verdict, code |-> "q"]
MCMail == [m \in Messages |->
  CASE m = "talk" -> From("me", "me", FALSE, FALSE, "")
    [] m = "more" -> From("me", "me", FALSE, FALSE, "")
    [] m = "yes" -> From("me", "me", FALSE, FALSE, "y")
    [] m = "knock" -> From("you", "you", FALSE, FALSE, "y")
    [] m = "other" -> From("other", "other", FALSE, FALSE, "")
    [] OTHER -> From("room", "me", TRUE, TRUE, "")]
MCBatches == {{}, {"talk", "more"}, {"yes", "knock"}, {"knock", "other"}, {"room", "yes"}}
MCGroups == [g \in {"room"} |-> {"me"}]

BackgroundInit ==
  /\ part \in {"scheduler", "memory", "session", "channel"}
  /\ SchedulerInit /\ MemoryInit /\ SessionInit /\ ChannelInit
  /\ part = "channel" <=> \E m \in Messages : inbound[m].pc # "never"

InScheduler(A) == part = "scheduler" /\ A /\ UNCHANGED <<part, memVars, sessionVars, channelVars>>
InMemory(A) == part = "memory" /\ A /\ UNCHANGED <<part, schedVars, sessionVars, channelVars>>
InSession(A) == part = "session" /\ A /\ UNCHANGED <<part, schedVars, memVars, channelVars>>
InChannel(A) == part = "channel" /\ A /\ UNCHANGED <<part, schedVars, memVars, sessionVars>>

BackgroundNext ==
  InScheduler(SchedulerNext) \/ InMemory(MemoryNext) \/ InSession(SessionNext) \/ InChannel(ChannelNext)

backgroundVars == <<part, schedVars, memVars, sessionVars, channelVars>>

(* The fairness of Scheduler, Session and Channel. *)
BackgroundSpec ==
  /\ BackgroundInit /\ [][BackgroundNext]_backgroundVars
  /\ WF_backgroundVars(InScheduler(SchedulerSteps))
  /\ \A s \in Supervisors :
       /\ WF_backgroundVars(InSession(Escalate(s)))
       /\ WF_backgroundVars(InSession(SuperviseSteps(s)))
  /\ \A q \in Prompts : WF_backgroundVars(InChannel(PromptSteps(q)))

(* The state of each part keeps to its domain. *)
BackgroundTypeOK == SchedulerTypeOK /\ MemoryTypeOK /\ SessionTypeOK /\ ChannelTypeOK
=============================================================================
