------------------------------- MODULE Channel -------------------------------
(***************************************************************************)
(* The Telegram channel bot (cmd/gobrrr-telegram): messages that pass the   *)
(* gate and reach Claude, permission prompts that the operator answers, and *)
(* the reply and react tools that Claude calls.                             *)
(*                                                                         *)
(* Every update, every prompt, every timer and every tool call has a        *)
(* goroutine of its own.  They share the pending prompts and the pending    *)
(* acknowledgements, each under a mutex, and access.json, which is read and *)
(* rewritten without one and which the operator edits too.  Codes are told  *)
(* apart by what they stand for: a prompt's is its request, a pairing's is  *)
(* the message it answers.                                                 *)
(***************************************************************************)
EXTENDS Naturals, Sequences, FiniteSets

CONSTANTS
  Messages,      \* messages that people may send to the bot
  Batches,       \* sets of messages that are sent in one behaviour
  Mail,          \* their chat, sender, whether in a group, mention, verdict, code
  Prompts,       \* permission requests of Claude
  ToolCalls,     \* calls of the reply and react tools
  GroupMembers,  \* for each group in access.json: the users it allows
  Owner,         \* ownerChatId
  DMPolicy       \* "pairing", "allowlist" or "disabled"

NoMessage == "nothing"

ASSUME ChannelAssumption ==
  /\ NoMessage \notin Messages /\ Batches \subseteq SUBSET Messages
  /\ \A m \in Messages : Mail[m].verdict \in {"", "y", "n"} /\ Mail[m].code \in Prompts
  /\ DMPolicy \in {"pairing", "allowlist", "disabled"}

VARIABLES
  access,      \* access.json: allowed chats, pending pairing codes, whether configured
  stale,       \* pairing codes older than ten minutes
  inbound,     \* progress of handleUpdate for each message
  paired,      \* chats the operator ever approved
  inbox,       \* messages emitted to Claude
  prompt,      \* progress of HandlePermissionRequest
  permPending, \* prompts that can be answered
  claimed,     \* verdicts whose prompt was taken out and that are not sent yet
  verdicts,    \* verdicts sent to Claude, for each prompt
  answers,     \* what the operator answered to each prompt
  pendingAck,  \* by chat, the message whose reaction the next reply swaps
  reaction,    \* the bot's reaction on each message
  tool         \* progress of each tool call

channelVars == <<access, stale, inbound, paired, inbox, prompt, permPending, claimed,
                 verdicts, answers, pendingAck, reaction, tool>>
gateVars == <<access, stale, paired>>
permVars == <<prompt, permPending, claimed, verdicts, answers>>
ackVars == <<pendingAck, reaction>>

-----------------------------------------------------------------------------
Chats == {Mail[m].chat : m \in Messages} \union {Owner}

(* access.Default: nobody is let in, no owner, no groups, pairing. *)
Default == [allowed |-> {}, pending |-> {}, configured |-> FALSE]
NotReceived == [pc |-> "new", saw |-> Default]
NoTool == [pc |-> "idle", chat |-> Owner, on |-> NoMessage]

ChannelInit ==
  /\ access = [Default EXCEPT !.allowed = {Owner}, !.configured = TRUE] /\ stale = {} /\ paired = {Owner}
  /\ \E batch \in Batches :
       inbound = [m \in Messages |-> [NotReceived EXCEPT !.pc = IF m \in batch THEN "new" ELSE "never"]]
  /\ inbox = {}
  /\ prompt = [q \in Prompts |-> "new"] /\ permPending = {} /\ claimed = {}
  /\ verdicts = [q \in Prompts |-> <<>>] /\ answers = [q \in Prompts |-> {}]
  /\ pendingAck = [c \in Chats |-> NoMessage]
  /\ reaction = [m \in Messages |-> "none"]
  /\ tool = [k \in ToolCalls |-> NoTool]

(* What a handler has loaded is of no use once it has decided. *)
Handling(m, pc) == inbound' = [inbound EXCEPT ![m] = [NotReceived EXCEPT !.pc = pc]]

-----------------------------------------------------------------------------
(* The gate. *)

(* Fault: a stranger is let in while pairing is on. *)
CheckLoose(file, m) ==
  IF Mail[m].chat \in file.allowed \/ DMPolicy = "pairing" THEN "allow" ELSE "drop"

(* access.Check: groups by sender and mention, direct messages by policy. *)
Check(file, m) ==
  LET mail == Mail[m]
      policy == IF file.configured THEN DMPolicy ELSE "pairing"
      member == file.configured /\ mail.chat \in DOMAIN GroupMembers /\ mail.user \in GroupMembers[mail.chat]
  IN CASE mail.group -> IF member /\ mail.mention THEN "allow" ELSE "drop"
       [] ~mail.group /\ policy # "disabled" /\ mail.chat \in file.allowed -> "allow"
       [] ~mail.group /\ policy = "pairing" /\ mail.chat \notin file.allowed -> "pair"
       [] OTHER -> "drop"

(* Store.Load: a file that the operator's edit left unreadable is moved aside;
   everybody starts from the defaults. *)
LoadCorrupt ==
  /\ access.configured /\ access' = Default
  /\ UNCHANGED <<stale, paired, inbound, inbox, permVars, ackVars, tool>>

(* handleUpdate: load access.json and decide; without the file nobody gets in. *)
ReceiveUpdate(m) ==
  /\ inbound[m].pc = "new"
  /\ \E pc \in {Check(access, m), "drop"} :
       inbound' = [inbound EXCEPT ![m] = [pc |-> pc, saw |-> IF pc = "pair" THEN access ELSE Default]]
  /\ UNCHANGED <<gateVars, inbox, permVars, ackVars, tool>>

(* handlePairing writes back the file as it was loaded, without the expired
   codes and with one more; the chat is not let in. *)
HandlePairing(m) ==
  /\ inbound[m].pc = "pair"
  /\ \/ access' = [inbound[m].saw EXCEPT !.pending = (@ \ stale) \union {m}]
     \/ UNCHANGED access
  /\ Handling(m, "end")
  /\ UNCHANGED <<stale, paired, inbox, permVars, ackVars, tool>>

(* The operator approves a code in a terminal. *)
ApprovePairing(m) ==
  /\ m \in access.pending
  /\ access' = [access EXCEPT !.allowed = @ \union {Mail[m].chat}, !.pending = @ \ {m}]
  /\ paired' = paired \union {Mail[m].chat}
  /\ UNCHANGED <<stale, inbound, inbox, permVars, ackVars, tool>>

CodeExpires(m) ==
  /\ m \in access.pending \ stale /\ stale' = stale \union {m}
  /\ UNCHANGED <<access, paired, inbound, inbox, permVars, ackVars, tool>>

-----------------------------------------------------------------------------
(* Permission prompts. *)

Send(q, allow) == verdicts' = [verdicts EXCEPT ![q] = Append(@, allow)]

(* Fault: a prompt that cannot be sent is dropped without an answer. *)
RequestPermissionSilently(q) ==
  /\ prompt[q] = "new"
  /\ \E pc \in {"sent", "end"} : prompt' = [prompt EXCEPT ![q] = pc]
  /\ UNCHANGED <<gateVars, inbound, inbox, permPending, claimed, verdicts, answers, ackVars, tool>>

(* HandlePermissionRequest up to SendMessage: without an owner, and when the
   message cannot be sent, Claude is told "deny". *)
RequestPermission(q) ==
  /\ prompt[q] = "new"
  /\ \/ access.configured /\ prompt' = [prompt EXCEPT ![q] = "sent"] /\ UNCHANGED verdicts
     \/ prompt' = [prompt EXCEPT ![q] = "end"] /\ Send(q, FALSE)
  /\ UNCHANGED <<gateVars, inbound, inbox, permPending, claimed, answers, ackVars, tool>>

(* The card is on the operator's screen before the entry is listed, ... *)
ListPrompt(q) ==
  /\ prompt[q] = "sent" /\ prompt' = [prompt EXCEPT ![q] = "listed"]
  /\ permPending' = permPending \union {q}
  /\ UNCHANGED <<gateVars, inbound, inbox, claimed, verdicts, answers, ackVars, tool>>

(* ... and the entry is listed before its timer is set. *)
ArmTimer(q) ==
  /\ prompt[q] = "listed" /\ prompt' = [prompt EXCEPT ![q] = "armed"]
  /\ UNCHANGED <<gateVars, inbound, inbox, permPending, claimed, verdicts, answers, ackVars, tool>>

(* Fault: the entry stays listed until the verdict is out. *)
ClaimKeeping(q, allow) ==
  IF q \in permPending
    THEN claimed' = claimed \union {<<q, allow>>} /\ UNCHANGED permPending
    ELSE UNCHANGED <<permPending, claimed>>

(* resolvePermission: whoever takes the entry out sends the verdict. *)
Claim(q, allow) ==
  IF q \in permPending
    THEN permPending' = permPending \ {q} /\ claimed' = claimed \union {<<q, allow>>}
    ELSE UNCHANGED <<permPending, claimed>>

(* A button of the card; before the entry is listed it answers "expired". *)
TapButton(q, allow) ==
  /\ prompt[q] \in {"sent", "listed", "armed"}
  /\ answers' = [answers EXCEPT ![q] = @ \union {allow}]
  /\ Claim(q, allow)
  /\ UNCHANGED <<gateVars, inbound, inbox, prompt, verdicts, ackVars, tool>>

(* Fault: the message is looked at before the gate has decided. *)
AnswerByTextUngated(m) == LET q == Mail[m].code IN
  /\ inbound[m].pc \in {"allow", "pair", "drop"} /\ Mail[m].verdict # "" /\ q \in permPending
  /\ Claim(q, Mail[m].verdict = "y") /\ Handling(m, "end")
  /\ UNCHANGED answers
  /\ UNCHANGED <<gateVars, inbox, prompt, verdicts, ackVars, tool>>

(* "y code" and "n code" from a chat the gate allows, whichever it is. *)
AnswerByText(m) == LET q == Mail[m].code IN
  /\ inbound[m].pc = "allow" /\ Mail[m].verdict # "" /\ q \in permPending
  /\ Claim(q, Mail[m].verdict = "y")
  /\ answers' = [answers EXCEPT ![q] = @ \union {Mail[m].verdict = "y"}]
  /\ Handling(m, "end")
  /\ \E shown \in {"thumb", reaction[m]} : reaction' = [reaction EXCEPT ![m] = shown]
  /\ UNCHANGED <<gateVars, inbox, prompt, verdicts, pendingAck, tool>>

(* The timer stops when the prompt is resolved after it was set; one that was
   set too late fires and finds nothing. *)
TimerFires(q) ==
  /\ prompt[q] = "armed" /\ prompt' = [prompt EXCEPT ![q] = "end"]
  /\ Claim(q, FALSE)
  /\ UNCHANGED <<gateVars, inbound, inbox, verdicts, answers, ackVars, tool>>

SendVerdict(q, allow) ==
  /\ <<q, allow>> \in claimed /\ claimed' = claimed \ {<<q, allow>>}
  /\ Send(q, allow)
  /\ UNCHANGED <<gateVars, inbound, inbox, prompt, permPending, answers, ackVars, tool>>

-----------------------------------------------------------------------------
(* Delivering a message and acknowledging it. *)

(* A text that answers no pending prompt is delivered like any other. *)
EmitInbound(m) ==
  /\ inbound[m].pc = "allow" /\ (Mail[m].verdict # "" => Mail[m].code \notin permPending)
  /\ Handling(m, "emitted") /\ inbox' = inbox \union {m}
  /\ UNCHANGED <<gateVars, permVars, ackVars, tool>>

AckReaction(m) ==
  /\ inbound[m].pc = "emitted"
  /\ \/ Handling(m, "acked") /\ reaction' = [reaction EXCEPT ![m] = "eyes"]
     \/ Handling(m, "end") /\ UNCHANGED reaction
  /\ UNCHANGED <<gateVars, inbox, permVars, pendingAck, tool>>

SetPendingAck(m) ==
  /\ inbound[m].pc = "acked" /\ Handling(m, "end")
  /\ pendingAck' = [pendingAck EXCEPT ![Mail[m].chat] = m]
  /\ UNCHANGED <<gateVars, inbox, permVars, reaction, tool>>

-----------------------------------------------------------------------------
(* The tools. *)

AllowedChat(c) == c \in access.allowed \/ (access.configured /\ c \in DOMAIN GroupMembers)

(* Fault: the acknowledgement is taken before the chunks are sent. *)
ReplyTakingFirst(k, c) ==
  /\ tool[k].pc = "idle" /\ \E m \in inbox : Mail[m].chat = c
  /\ \E pc \in {"swap", "end"} :
       /\ AllowedChat(c) /\ pendingAck[c] # NoMessage
       /\ tool' = [tool EXCEPT ![k] = [pc |-> pc, chat |-> c, on |-> IF pc = "swap" THEN pendingAck[c] ELSE NoMessage]]
  /\ pendingAck' = [pendingAck EXCEPT ![c] = NoMessage]
  /\ UNCHANGED <<gateVars, inbound, inbox, permVars, reaction>>

(* handleReply, until every chunk and file is sent; an error ends it. *)
Reply(k, c) ==
  /\ tool[k].pc = "idle" /\ \E m \in inbox : Mail[m].chat = c
  /\ \E pc \in {"sent", "end"} :
       /\ pc = "sent" => AllowedChat(c)
       /\ tool' = [tool EXCEPT ![k] = [pc |-> pc, chat |-> c, on |-> NoMessage]]
  /\ UNCHANGED <<gateVars, inbound, inbox, permVars, ackVars>>

ConsumePendingAck(k) ==
  /\ tool[k].pc = "sent"
  /\ LET c == tool[k].chat IN
       /\ tool' = [tool EXCEPT ![k].pc = IF pendingAck[c] = NoMessage THEN "end" ELSE "swap",
                               ![k].on = pendingAck[c]]
       /\ pendingAck' = [pendingAck EXCEPT ![c] = NoMessage]
  /\ UNCHANGED <<gateVars, inbound, inbox, permVars, reaction>>

SwapReaction(k) ==
  /\ tool[k].pc = "swap" /\ tool' = [tool EXCEPT ![k].pc = "end"]
  /\ \/ reaction' = [reaction EXCEPT ![tool[k].on] = "done"]
     \/ UNCHANGED reaction
  /\ UNCHANGED <<gateVars, inbound, inbox, permVars, pendingAck>>

(* handleReact takes over the reactions of the chat, whatever its message. *)
React(k, m) ==
  /\ tool[k].pc = "idle" /\ m \in inbox /\ AllowedChat(Mail[m].chat)
  /\ tool' = [tool EXCEPT ![k] = [pc |-> "manual", chat |-> Mail[m].chat, on |-> m]]
  /\ pendingAck' = [pendingAck EXCEPT ![Mail[m].chat] = NoMessage]
  /\ UNCHANGED <<gateVars, inbound, inbox, permVars, reaction>>

SetReaction(k) ==
  /\ tool[k].pc = "manual" /\ tool' = [tool EXCEPT ![k].pc = "took over"]
  /\ \/ reaction' = [reaction EXCEPT ![tool[k].on] = "manual"]
     \/ UNCHANGED reaction
  /\ UNCHANGED <<gateVars, inbound, inbox, permVars, pendingAck>>

PromptSteps(q) ==
  ListPrompt(q) \/ ArmTimer(q) \/ TimerFires(q) \/ \E allow \in BOOLEAN : SendVerdict(q, allow)

ChannelNext ==
  \/ LoadCorrupt
  \/ \E m \in Messages :
       \/ ReceiveUpdate(m) \/ HandlePairing(m) \/ ApprovePairing(m) \/ CodeExpires(m)
       \/ EmitInbound(m) \/ AckReaction(m) \/ SetPendingAck(m)
       \/ AnswerByText(m)
  \/ \E q \in Prompts :
       RequestPermission(q) \/ PromptSteps(q) \/ \E allow \in BOOLEAN : TapButton(q, allow)
  \/ \E k \in ToolCalls :
       \/ \E c \in Chats : Reply(k, c)
       \/ ConsumePendingAck(k) \/ SwapReaction(k) \/ SetReaction(k)
       \/ \E m \in Messages : React(k, m)

(* A prompt's goroutine runs, its timer fires; people and Claude do as they
   please. *)
ChannelFairness == \A q \in Prompts : WF_channelVars(PromptSteps(q))
ChannelSpec == ChannelInit /\ [][ChannelNext]_channelVars /\ ChannelFairness

-----------------------------------------------------------------------------
(* Correctness. *)

AccessFile == [allowed: SUBSET Chats, pending: SUBSET Messages, configured: BOOLEAN]
Handler == [pc: {"never", "new", "allow", "pair", "drop", "emitted", "acked", "end"}, saw: AccessFile]
ToolCall == [pc: {"idle", "sent", "swap", "manual", "took over", "end"}, chat: Chats,
             on: Messages \union {NoMessage}]

(* Every variable keeps to its domain. *)
ChannelTypeOK ==
  /\ access \in AccessFile /\ stale \subseteq Messages /\ paired \subseteq Chats
  /\ inbound \in [Messages -> Handler] /\ inbox \subseteq Messages
  /\ prompt \in [Prompts -> {"new", "sent", "listed", "armed", "end"}]
  /\ permPending \subseteq Prompts /\ claimed \subseteq Prompts \X BOOLEAN
  /\ verdicts \in [Prompts -> Seq(BOOLEAN)] /\ answers \in [Prompts -> SUBSET BOOLEAN]
  /\ pendingAck \in [Chats -> Messages \union {NoMessage}]
  /\ reaction \in [Messages -> {"none", "eyes", "done", "manual", "thumb"}]
  /\ tool \in [ToolCalls -> ToolCall]

(* Claude gets one verdict for a prompt, however the answers of the operator and
   the two-minute timer race, and "allow" only if the operator answered so: by
   a button of the card or by a text from a chat the gate allows. *)
VerdictIsOperators ==
  \A q \in Prompts :
    /\ Len(verdicts[q]) + Cardinality({v \in claimed : v[1] = q}) <= 1
    /\ verdicts[q] = <<TRUE>> => TRUE \in answers[q]

(* The inductive invariant behind it: a prompt is listed, or one verdict on it is
   on the way, or one was sent, never two of these; none before it is listed. *)
Taken(q, allow) == <<q, allow>> \in claimed
Undecided(q) == verdicts[q] = <<>> /\ \A allow \in BOOLEAN : ~Taken(q, allow)

PromptInv(q) ==
  /\ prompt[q] \in {"new", "sent"} => q \notin permPending /\ Undecided(q)
  /\ q \in permPending => prompt[q] \in {"listed", "armed"} /\ Undecided(q)
  /\ ~(Taken(q, TRUE) /\ Taken(q, FALSE))
  /\ \A allow \in BOOLEAN : Taken(q, allow) => verdicts[q] = <<>>
  /\ Len(verdicts[q]) <= 1
  /\ Taken(q, TRUE) \/ verdicts[q] = <<TRUE>> => TRUE \in answers[q]

VerdictInv == \A q \in Prompts : PromptInv(q)

(* Claude is never left waiting: a prompt gets a verdict. *)
PromptIsAnswered ==
  \A q \in Prompts : prompt[q] # "new" ~> verdicts[q] # <<>>

(* A message reaches Claude only if its chat is a group that allows its sender,
   or if the operator paired the chat in a terminal: nothing a stranger sends,
   not even two messages at once, lets the stranger in. *)
OnlyPairedReachClaude ==
  \A m \in inbox :
    IF Mail[m].group THEN Mail[m].user \in GroupMembers[Mail[m].chat]
                     ELSE Mail[m].chat \in paired

(* The inductive invariant behind it: whatever anybody once loaded from
   access.json lets nobody in but the paired, and so do the decisions on it. *)
Admitted(m) ==
  IF Mail[m].group THEN Mail[m].user \in GroupMembers[Mail[m].chat] ELSE Mail[m].chat \in paired

GateInv ==
  /\ access.allowed \subseteq paired
  /\ \A m \in Messages : inbound[m].saw.allowed \subseteq paired
  /\ \A m \in Messages : inbound[m].pc = "allow" \/ m \in inbox => Admitted(m)

(* A message that still shows the eyes is the one the next reply will mark as
   done, or is about to be; otherwise another message of its chat took its
   place, a reply took it and was to change it, or Claude took over the
   reactions of that chat.  A reply that fails takes nothing. *)
EyesHaveAnOwner ==
  \A m \in Messages : LET c == Mail[m].chat IN
    reaction[m] = "eyes" =>
      \/ pendingAck[c] = m \/ inbound[m].pc = "acked"
      \/ \E n \in Messages \ {m} : Mail[n].chat = c /\ reaction[n] \in {"eyes", "done", "manual"} /\ inbound[n].pc = "end"
      \/ \E k \in ToolCalls : tool[k].chat = c /\ (tool[k].on = m \/ tool[k].pc \in {"manual", "took over"})

(* The inductive invariant behind it: a message whose reaction was set shows it
   until its acknowledgement is entered; a call that swaps nothing holds none. *)
EyesInv ==
  /\ EyesHaveAnOwner
  /\ \A m \in Messages : inbound[m].pc = "acked" => reaction[m] \in {"eyes", "done", "manual"}
  /\ \A k \in ToolCalls : tool[k].pc \in {"idle", "sent"} => tool[k].on = NoMessage
=============================================================================
