----------------------------- MODULE Approvals -------------------------------
(***************************************************************************)
(* Pending approvals, from the request to the card on the operator's phone: *)
(* the dispatcher and its files (internal/daemon/approvals_*.go), the hourly*)
(* expiry (maintenance.go), the skill installation that asks for one        *)
(* (skill_routes.go, skill_install_handler.go) and the bot that renders     *)
(* them (cmd/gobrrr-telegram/bot/approvals.go).                             *)
(*                                                                         *)
(* Decide runs in one goroutine per caller and takes no lock: reading the   *)
(* file, removing it, running the handler and announcing the removal are    *)
(* four steps.  The bot's subscriber is one goroutine; an event is one step *)
(* of it.  An id is drawn once: a reuse of one of the 65536 ids is left out.*)
(* So is a file that is there and cannot be read or removed.                *)
(***************************************************************************)
EXTENDS Naturals, Sequences, FiniteSets

CONSTANTS
  Ids,          \* approval ids
  Leftover,     \* approvals found on disk whose kind has no handler
  Callers,      \* goroutines in Decide: one per HTTP request in flight
  Decisions,    \* the strings POST /approvals/{id} is called with
  Buffer,       \* approvalBufferSize
  MaxCrashes,   \* bound: daemon crashes
  MaxConnects   \* bound: starts of the bot

Maintenance == "maintenance"
NoIdOf == "none"

ASSUME ApprovalsAssumption ==
  /\ Leftover \subseteq Ids /\ Maintenance \notin Callers
  /\ Buffer \in Nat /\ MaxCrashes \in Nat /\ MaxConnects \in Nat
  /\ "deny" \in Decisions

VARIABLES
  files,      \* _approvals/<id>.json
  expired,    \* approvals whose expires_at has passed
  staging,    \* staged bundles, by the id of the approval that owns them
  create,     \* progress of handleSkillsInstall for each id
  call,       \* progress of Decide for each caller
  sweep,      \* PruneExpiredApprovals: entries still to look at
  bot,        \* the subscriber: its stream and what it has still to read
  pending,    \* ApprovalSubscriber.pending: cards it can resolve
  live,       \* approvals with a card in the chat that has its buttons
  slipped,    \* approvals with such a card that the bot will not touch again
  shown,      \* resolutions posted in the chat
  result,     \* outcomes of the handler, in the order it ran
  missed,     \* ids this stream lost, was never told of or could not show
  crashes, connects

daemonVars == <<files, staging, create, call, sweep, result>>
chatVars == <<pending, live, slipped, shown>>
botVars == <<bot, chatVars, missed, connects>>
approvalVars == <<files, expired, staging, create, call, sweep, result,
                  bot, pending, live, slipped, shown, missed, crashes, connects>>

-----------------------------------------------------------------------------
CreatedEvent(i) == [type |-> "created", id |-> i, decision |-> "", failed |-> FALSE]
RemovedEvent(i, d, f) == [type |-> "removed", id |-> i, decision |-> d, failed |-> f]
NoCall == [pc |-> "idle", id |-> NoIdOf, decision |-> "", failed |-> FALSE]
NoStream == [stream |-> "none", listing |-> {}, chan |-> <<>>]

ApprovalsInit ==
  /\ files = Leftover /\ expired = {} /\ staging = {}
  /\ create = [i \in Ids |-> IF i \in Leftover THEN "done" ELSE "new"]
  /\ call = [c \in Callers \union {Maintenance} |-> NoCall]
  /\ sweep = {}
  /\ bot = NoStream /\ pending = {} /\ live = {} /\ slipped = {}
  /\ shown = [i \in Ids |-> "nothing"]
  /\ result = [i \in Ids |-> <<>>] /\ missed = {}
  /\ crashes = 0 /\ connects = 0

-----------------------------------------------------------------------------
(* The hub. *)

(* Fault: a stream subscribes only after it has listed the pending approvals. *)
SubscribedAfterListing == bot.stream = "live"

Subscribed == bot.stream \in {"listing", "live"}

(* Fault: the buffer grows with what the subscriber has not read. *)
EmitGrowing(e) ==
  IF ~Subscribed THEN UNCHANGED <<bot, missed>>
  ELSE bot' = [bot EXCEPT !.chan = Append(@, e)] /\ UNCHANGED missed

(* Emit never blocks: a subscriber with a full buffer loses the event. *)
Emit(e) ==
  IF ~Subscribed THEN UNCHANGED <<bot, missed>>
  ELSE IF Len(bot.chan) < Buffer
    THEN bot' = [bot EXCEPT !.chan = Append(@, e)] /\ UNCHANGED missed
    ELSE missed' = missed \union {e.id} /\ UNCHANGED bot

-----------------------------------------------------------------------------
(* Creating an approval for a skill installation. *)

Stage(i) ==
  /\ create[i] = "new"
  /\ create' = [create EXCEPT ![i] = "staged"]
  /\ staging' = staging \union {i}
  /\ UNCHANGED <<files, expired, call, sweep, result, botVars, crashes>>

(* A request that cannot be saved answers 500 and leaves the bundle staged.  So
   does one that fails after the rename, when its directory cannot be synced: it
   then waits on disk, and no event tells of it. *)
Save(i) ==
  /\ create[i] = "staged"
  /\ \/ /\ create' = [create EXCEPT ![i] = "saved"]
        /\ files' = files \union {i} /\ UNCHANGED missed
     \/ /\ create' = [create EXCEPT ![i] = "unannounced"]
        /\ files' = files \union {i}
        /\ missed' = IF Subscribed THEN missed \union {i} ELSE missed
     \/ /\ create' = [create EXCEPT ![i] = "refused"]
        /\ UNCHANGED <<files, missed>>
  /\ UNCHANGED <<expired, staging, call, sweep, result, bot, chatVars, connects, crashes>>

Announce(i) ==
  /\ create[i] = "saved"
  /\ create' = [create EXCEPT ![i] = IF i \in files THEN "done" ELSE "late"]
  /\ Emit(CreatedEvent(i))
  /\ UNCHANGED <<files, expired, staging, call, sweep, result,
                 chatVars, connects, crashes>>

-----------------------------------------------------------------------------
(* Deciding one. *)

(* Load: a caller that finds no file answers "not found" and changes nothing. *)
BeginDecide(c, i, d) ==
  /\ call[c] = NoCall
  /\ i \in files
  /\ call' = [call EXCEPT ![c] = [NoCall EXCEPT !.pc = "loaded", !.id = i, !.decision = d]]

DecideOverHTTP(c, i, d) ==
  /\ c \in Callers
  /\ BeginDecide(c, i, d)
  /\ UNCHANGED <<files, expired, staging, create, sweep, result, botVars, crashes>>

(* Fault: the caller that finds the file gone carries on. *)
ClaimLoose(c) ==
  /\ call[c].pc = "loaded"
  /\ files' = files \ {call[c].id}
  /\ call' = [call EXCEPT ![c].pc = "claimed"]
  /\ UNCHANGED <<expired, staging, create, sweep, result, botVars, crashes>>

(* Delete is the claim: of several callers only one finds the file.  An approval
   whose kind has no handler ends here, without an event. *)
Claim(c) ==
  /\ call[c].pc = "loaded"
  /\ files' = files \ {call[c].id}
  /\ call' = IF call[c].id \in files \ Leftover
               THEN [call EXCEPT ![c].pc = "claimed"]
               ELSE [call EXCEPT ![c] = NoCall]
  /\ UNCHANGED <<expired, staging, create, sweep, result, botVars, crashes>>

(* skillInstallHandler.Handle, with the commit as one step that works or not
   (SkillInstall has its steps).  Deny removes the staged bundle, so does a
   commit that works; a commit that fails and an unknown decision leave it. *)
Handle(c) ==
  /\ call[c].pc = "claimed"
  /\ LET i == call[c].id
         d == call[c].decision
     IN \E failed \in BOOLEAN :
          /\ d = "deny" => ~failed
          /\ d \notin {"approve", "skip_binary", "deny"} => failed
          /\ i \notin staging /\ d # "deny" => failed
          /\ staging' = IF failed THEN staging ELSE staging \ {i}
          /\ result' = [result EXCEPT ![i] = Append(@, [decision |-> d, failed |-> failed])]
          /\ call' = [call EXCEPT ![c].pc = "handled", ![c].failed = failed]
  /\ UNCHANGED <<files, expired, create, sweep, botVars, crashes>>

(* Fault: only a handler that worked is announced. *)
AnnounceRemovalOfSuccess(c) ==
  /\ call[c].pc = "handled"
  /\ call' = [call EXCEPT ![c] = NoCall]
  /\ IF call[c].failed THEN UNCHANGED <<bot, missed>>
     ELSE Emit(RemovedEvent(call[c].id, call[c].decision, FALSE))
  /\ UNCHANGED <<files, expired, staging, create, sweep, result,
                 chatVars, connects, crashes>>

AnnounceRemoval(c) ==
  /\ call[c].pc = "handled"
  /\ call' = [call EXCEPT ![c] = NoCall]
  /\ Emit(RemovedEvent(call[c].id, call[c].decision, call[c].failed))
  /\ UNCHANGED <<files, expired, staging, create, sweep, result,
                 chatVars, connects, crashes>>

-----------------------------------------------------------------------------
(* Expiry. *)

Expire(i) ==
  /\ i \in files \ expired
  /\ expired' = expired \union {i}
  /\ UNCHANGED <<daemonVars, botVars, crashes>>

(* Faults: the sweep looks only at kinds it knows; it removes the file itself. *)
SweepKnownKinds ==
  /\ call[Maintenance] = NoCall /\ sweep = {}
  /\ files \intersect expired # {}
  /\ sweep' = (files \intersect expired) \ Leftover
  /\ UNCHANGED <<files, expired, staging, create, call, result, botVars, crashes>>

DenyByRemovingTheFile(i) ==
  /\ call[Maintenance] = NoCall /\ i \in sweep
  /\ sweep' = sweep \ {i}
  /\ files' = files \ {i}
  /\ UNCHANGED <<expired, staging, create, call, result, botVars, crashes>>

(* The list, restricted to what has expired: the rest is skipped. *)
Sweep ==
  /\ call[Maintenance] = NoCall /\ sweep = {}
  /\ files \intersect expired # {}
  /\ sweep' = files \intersect expired
  /\ UNCHANGED <<files, expired, staging, create, call, result, botVars, crashes>>

DenyExpired(i) ==
  /\ call[Maintenance] = NoCall /\ i \in sweep
  /\ sweep' = sweep \ {i}
  /\ IF i \in files THEN BeginDecide(Maintenance, i, "deny") ELSE UNCHANGED call
  /\ UNCHANGED <<files, expired, staging, create, result, botVars, crashes>>

-----------------------------------------------------------------------------
(* The bot. *)

(* The stream handler subscribes, then reads the directory; if that fails the
   stream goes on without a list.  A bot that starts anew has forgotten its
   cards, which stay in the chat with their buttons. *)
Connect ==
  /\ connects < MaxConnects
  /\ connects' = connects + 1
  /\ \/ /\ bot' = [stream |-> "listing", listing |-> files, chan |-> <<>>]
        /\ missed' = {}
     \/ /\ bot' = [stream |-> "listing", listing |-> {}, chan |-> <<>>]
        /\ missed' = {i \in files : create[i] # "saved"}
  /\ pending' = {} /\ slipped' = slipped \union pending
  /\ UNCHANGED <<files, expired, staging, create, call, sweep, result, live, shown, crashes>>

(* handleCreated does not ask whether the approval has a card: a second one takes
   the place of the first in pending.  With no owner to send to, or a send that
   fails, nothing changes, but the message may have arrived all the same. *)
ShowCard(i) ==
  \/ /\ pending' = pending \union {i} /\ live' = live \union {i}
     /\ slipped' = slipped \union ({i} \intersect pending)
     /\ UNCHANGED missed
  \/ /\ missed' = missed \union ({i} \ pending)
     /\ \/ UNCHANGED <<live, slipped>>
        \/ live' = live \union {i} /\ slipped' = slipped \union {i}
     /\ UNCHANGED pending

(* List skips a file that is gone by the time it is read. *)
Rehydrate(i) ==
  /\ bot.stream = "listing" /\ i \in bot.listing
  /\ bot' = [bot EXCEPT !.listing = @ \ {i}]
  /\ IF i \in files THEN ShowCard(i) ELSE UNCHANGED <<pending, live, slipped, missed>>
  /\ UNCHANGED <<files, expired, staging, create, call, sweep, result, shown, connects, crashes>>

GoLive ==
  /\ bot.stream = "listing" /\ bot.listing = {}
  /\ bot' = [bot EXCEPT !.stream = "live"]
  /\ UNCHANGED <<daemonVars, expired, chatVars, missed, connects, crashes>>

(* Fault: the card ignores the error in the event. *)
ResolutionByDecision(e) ==
  IF e.decision = "approve" THEN "approved"
  ELSE IF e.decision = "skip_binary" THEN "skipped" ELSE "denied"

Resolution(e) ==
  IF e.failed THEN "failed"
  ELSE IF e.decision = "approve" THEN "approved"
  ELSE IF e.decision = "skip_binary" THEN "skipped" ELSE "denied"

(* handleRemoved: the card it knows loses its buttons and the outcome is posted;
   either call may fail, and neither is repeated. *)
Resolve(e) ==
  /\ pending' = pending \ {e.id}
  /\ IF e.id \in pending
       THEN /\ \/ live' = live \ ({e.id} \ slipped) /\ UNCHANGED slipped
               \/ slipped' = slipped \union {e.id} /\ UNCHANGED live
            /\ shown' \in {shown, [shown EXCEPT ![e.id] = Resolution(e)]}
       ELSE UNCHANGED <<live, slipped, shown>>
  /\ UNCHANGED missed

ReadEvent ==
  /\ bot.stream \in {"live", "ended"} /\ bot.chan # <<>>
  /\ bot' = [bot EXCEPT !.chan = Tail(@)]
  /\ LET e == Head(bot.chan)
     IN \/ e.type = "created" /\ ShowCard(e.id) /\ UNCHANGED shown
        \/ e.type = "removed" /\ Resolve(e)
  /\ UNCHANGED <<daemonVars, expired, connects, crashes>>

-----------------------------------------------------------------------------
(* The daemon dies and systemd starts it again: its goroutines are gone, the
   files stay.  The bot reads what was already sent; its Run returns when the
   stream ends, and nothing starts it again before the bot is restarted. *)
DaemonCrash ==
  /\ crashes < MaxCrashes
  /\ crashes' = crashes + 1
  /\ call' = [c \in DOMAIN call |-> NoCall] /\ sweep' = {}
  /\ create' = [i \in Ids |-> IF create[i] \in {"staged", "saved"} THEN "cut" ELSE create[i]]
  /\ \E n \in 0..Len(bot.chan) :
       bot' = [stream |-> IF bot.stream = "none" THEN "none" ELSE "ended",
               listing |-> {}, chan |-> SubSeq(bot.chan, 1, n)]
  /\ UNCHANGED <<files, expired, staging, result, chatVars, missed, connects>>

Creating == \E i \in Ids : Stage(i) \/ Save(i) \/ Announce(i)
Deciding == \E c \in Callers, i \in Ids, d \in Decisions : DecideOverHTTP(c, i, d)
CallStep(c) == Claim(c) \/ Handle(c) \/ AnnounceRemoval(c)
Expiring == Sweep \/ (\E i \in Ids : DenyExpired(i))
BotStep == (\E i \in Ids : Rehydrate(i)) \/ GoLive \/ ReadEvent

ApprovalsNext ==
  \/ Creating
  \/ Deciding
  \/ \E c \in DOMAIN call : CallStep(c)
  \/ \E i \in Ids : Expire(i)
  \/ Expiring
  \/ Connect \/ BotStep
  \/ DaemonCrash

(* The goroutine of a call runs on, and the hourly ticker comes round. *)
ApprovalsSpec ==
  /\ ApprovalsInit /\ [][ApprovalsNext]_approvalVars
  /\ WF_approvalVars(Expiring)
  /\ \A c \in Callers \union {Maintenance} : WF_approvalVars(CallStep(c))

-----------------------------------------------------------------------------
Workers == Callers \union {Maintenance}

Outcome == [decision: Decisions, failed: BOOLEAN]
Event == [type: {"created", "removed"}, id: Ids, decision: Decisions \union {""}, failed: BOOLEAN]
CallType == [pc: {"idle", "loaded", "claimed", "handled"}, id: Ids \union {NoIdOf},
             decision: Decisions \union {""}, failed: BOOLEAN]
BotType == [stream: {"none", "listing", "live", "ended"}, listing: SUBSET Ids, chan: Seq(Event)]

(* Every variable has its type. *)
ApprovalsTypeOK ==
  /\ files \subseteq Ids /\ expired \subseteq Ids /\ staging \subseteq Ids /\ sweep \subseteq Ids
  /\ create \in [Ids -> {"new", "staged", "saved", "unannounced", "done", "late", "refused", "cut"}]
  /\ call \in [Workers -> CallType]
  /\ \A c \in Workers : call[c].pc # "idle" => call[c].id \in Ids /\ call[c].decision \in Decisions
  /\ bot \in BotType /\ Len(bot.chan) <= Buffer
  /\ pending \subseteq Ids /\ missed \subseteq Ids /\ live \subseteq Ids /\ slipped \subseteq Ids
  /\ shown \in [Ids -> {"nothing", "approved", "skipped", "denied", "failed"}]
  /\ result \in [Ids -> Seq(Outcome)]
  /\ crashes \in 0..MaxCrashes /\ connects \in 0..MaxConnects

(* However many callers decide an approval, and whatever the expiry sweep does
   meanwhile, its handler runs at most once (the claim semantics of Decide). *)
HandledOnce == \A i \in Ids : Len(result[i]) <= 1

(* The chat never says more than what happened: a card is resolved as approved,
   skipped or denied only if the handler ran with that decision and worked. *)
ResolutionIsTrue ==
  \A i \in Ids : shown[i] # "nothing" =>
    \E k \in DOMAIN result[i] : LET r == result[i][k]
      IN shown[i] = IF r.failed THEN "failed" ELSE Resolution(r)

(* A bot that has caught up shows every pending approval: subscribing before
   listing leaves no gap between the list and the events.  Left out are those
   being announced, and those of which this stream dropped the event, could not
   list or send the card, or was sent no event, as Create answered an error
   although the approval was on disk. *)
NoApprovalMissed ==
  bot.stream = "live" /\ bot.chan = <<>> =>
    \A i \in files : i \in pending \union missed \/ create[i] = "saved"

(* With a bot that has caught up, no card of an approval that is over keeps its
   buttons, unless the bot lost track of it: it sent a second card, could not
   edit it, sent it without hearing so or was restarted since.  Left out are
   removals that were dropped, are being announced, are of a kind without a
   handler, or came before the approval had been announced. *)
NoStaleCard ==
  bot.stream = "live" /\ bot.chan = <<>> =>
    \A i \in live \ (slipped \union files \union missed \union Leftover) :
      create[i] = "late" \/ \E c \in DOMAIN call : call[c].id = i /\ call[c].pc \in {"claimed", "handled"}

(* A staged bundle has an owner: a pending approval, a request or a decision
   under way.  What is left behind comes from a request that could not be
   saved, from a handler that failed, or from a crash. *)
StagedHasOwner ==
  \A i \in staging :
    \/ i \in files
    \/ create[i] \in {"staged", "refused", "cut"}
    \/ \E c \in DOMAIN call : call[c].id = i /\ call[c].pc = "claimed"
    \/ \E k \in DOMAIN result[i] : result[i][k].failed
    \/ crashes > 0

(***************************************************************************)
(* The inductive invariants behind these.  The claim: an approval is in its *)
(* file, or claimed by one caller, or its handler has run, never two of     *)
(* these; before it is saved it is none of them; whoever is to announce it  *)
(* announces what the handler returned.                                     *)
(***************************************************************************)
Claims(c, i) == call[c].id = i /\ call[c].pc = "claimed"
Handled(i, d, f) == \E k \in DOMAIN result[i] : result[i][k] = [decision |-> d, failed |-> f]
TellsTrue(c) == call[c].pc = "handled" => Handled(call[c].id, call[c].decision, call[c].failed)

ClaimInv ==
  /\ \A i \in Ids :
       /\ Len(result[i]) <= 1
       /\ create[i] \in {"new", "staged"} =>
            i \notin files /\ result[i] = <<>> /\ \A c \in Workers : ~Claims(c, i)
       /\ i \in files => result[i] = <<>> /\ \A c \in Workers : ~Claims(c, i)
  /\ \A i \in Ids, c \in Workers : Claims(c, i) =>
       result[i] = <<>> /\ \A b \in Workers : Claims(b, i) => b = c
  /\ \A c \in Workers : TellsTrue(c)

(* A removal is announced, and shown, only of what was handled.             *)
Created(k, i) == bot.chan[k].type = "created" /\ bot.chan[k].id = i
Removed(k, i) == bot.chan[k].type = "removed" /\ bot.chan[k].id = i

ToldInv ==
  \A k \in 1..Len(bot.chan) : LET e == bot.chan[k]
    IN e.type = "removed" => Handled(e.id, e.decision, e.failed)

(* A pending approval the bot shows no card of is still to be listed, still *)
(* to be announced, or its event is on the way.                             *)
ListInv == bot.stream = "live" => bot.listing = {}

MissInv ==
  Subscribed => \A i \in files :
    \/ i \in pending \union missed
    \/ create[i] = "saved"
    \/ i \in bot.listing
    \/ \E k \in 1..Len(bot.chan) : Created(k, i)

(* The end of an approval that is over is on the way to the bot: behind the *)
(* event of its creation, if that one is on the way too.                    *)
Ending(i) == create[i] = "late" \/ \E c \in Workers : call[c].id = i /\ call[c].pc \in {"claimed", "handled"}
EndIsComing(i, n) == Ending(i) \/ \E m \in 1..Len(bot.chan) : m > n /\ Removed(m, i)

StaleInv ==
  Subscribed => \A i \in Ids \ (files \union missed \union Leftover) :
    /\ i \in pending => EndIsComing(i, 0)
    /\ \A k \in 1..Len(bot.chan) : Created(k, i) => EndIsComing(i, k)

(* A card with buttons is one the bot can resolve, or one it lost track of.  *)
LiveInv == live \subseteq pending \union slipped

(* What another version left behind is nobody's installation.               *)
LeftoverInv == \A i \in Leftover : create[i] = "done" /\ i \notin staging

(* An approval nobody answers does not stay: once expired it is removed, even
   when the daemon restarts or another sweep of it failed. *)
ExpiredIsRemoved == \A i \in Ids : i \in expired \intersect files ~> i \notin files
=============================================================================
