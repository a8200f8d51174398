---------------------------- MODULE ChannelProofs ----------------------------
(***************************************************************************)
(* Theorems about Channel: one verdict for a prompt and the operator's,     *)
(* nobody reaches Claude whom the operator did not let in, and no message   *)
(* keeps the eyes that nobody will take away - for every set of messages,   *)
(* prompts, tool calls, groups and every policy.                            *)
(***************************************************************************)
EXTENDS Channel, FiniteSetTheorems, TLAPS

LEMMA ChannelTyped ==
  ASSUME ChannelTypeOK
  PROVE  /\ access.allowed \in SUBSET Chats /\ access.pending \in SUBSET Messages
         /\ access.configured \in BOOLEAN
         /\ \A m \in Messages : /\ inbound[m].pc \in {"never", "new", "allow", "pair", "drop", "emitted", "acked", "end"}
                                /\ inbound[m].saw \in AccessFile
                                /\ inbound[m].saw.allowed \in SUBSET Chats
                                /\ inbound[m].saw.pending \in SUBSET Messages
                                /\ inbound[m].saw.configured \in BOOLEAN
                                /\ Mail[m].chat \in Chats /\ Mail[m].code \in Prompts
         /\ \A q \in Prompts : verdicts[q] \in Seq(BOOLEAN) /\ answers[q] \in SUBSET BOOLEAN
         /\ \A k \in ToolCalls : tool[k].chat \in Chats /\ tool[k].on \in Messages \union {NoMessage}
BY ChannelAssumption DEF ChannelTypeOK, AccessFile, Handler, ToolCall, Chats

LEMMA Defaults ==
  Default \in AccessFile /\ NotReceived \in Handler /\ NoTool \in ToolCall
  /\ Default.allowed = {} /\ NotReceived.saw = Default
  /\ NoTool.pc = "idle" /\ NoTool.on = NoMessage
BY DEF Default, NotReceived, NoTool, AccessFile, Handler, ToolCall, Chats

(* What a handler that has decided is left with. *)
LEMMA HandlingEffect ==
  ASSUME ChannelTypeOK, NEW m \in Messages, NEW pc \in {"end", "emitted", "acked"}, Handling(m, pc)
  PROVE  /\ inbound' \in [Messages -> Handler]
         /\ inbound'[m].pc = pc /\ inbound'[m].saw.allowed = {}
         /\ \A n \in Messages : n # m => inbound'[n] = inbound[n]
<1> DEFINE h == [NotReceived EXCEPT !.pc = pc]
<1>1. h \in Handler /\ h.pc = pc /\ h.saw.allowed = {}
  BY Defaults DEF Handler
<1>2. inbound \in [Messages -> Handler] /\ inbound' = [inbound EXCEPT ![m] = h]
  BY DEF ChannelTypeOK, Handling
<1> HIDE DEF h
<1> QED
  BY <1>1, <1>2

LEMMA ReceiveEffect ==
  ASSUME ChannelTypeOK, NEW m \in Messages, ReceiveUpdate(m)
  PROVE  /\ inbound[m].pc = "new" /\ inbound' \in [Messages -> Handler]
         /\ inbound'[m].pc \in {Check(access, m), "drop"}
         /\ inbound'[m].pc \in {"allow", "pair", "drop"}
         /\ inbound'[m].saw.allowed \subseteq access.allowed
         /\ \A n \in Messages : n # m => inbound'[n] = inbound[n]
<1>1. PICK pc \in {Check(access, m), "drop"} :
        inbound' = [inbound EXCEPT ![m] = [pc |-> pc, saw |-> IF pc = "pair" THEN access ELSE Default]]
  BY DEF ReceiveUpdate
<1>2. Check(access, m) \in {"allow", "pair", "drop"}
  BY DEF Check
<1> DEFINE h == [pc |-> pc, saw |-> IF pc = "pair" THEN access ELSE Default]
<1>3. h \in Handler /\ h.pc = pc /\ h.saw.allowed \subseteq access.allowed
  BY <1>2, Defaults DEF Handler, ChannelTypeOK
<1>4. inbound \in [Messages -> Handler] /\ inbound' = [inbound EXCEPT ![m] = h]
  BY <1>1 DEF ChannelTypeOK
<1> HIDE DEF h
<1> QED
  BY <1>1, <1>2, <1>3, <1>4 DEF ReceiveUpdate

LEMMA PairingEffect ==
  ASSUME ChannelTypeOK, NEW m \in Messages, HandlePairing(m) \/ ApprovePairing(m)
  PROVE  /\ access' \in AccessFile /\ paired' \subseteq Chats /\ paired \subseteq paired'
         /\ \/ access'.allowed \subseteq inbound[m].saw.allowed
            \/ access'.allowed \subseteq access.allowed \union (paired' \cap {Mail[m].chat})
<1>1. CASE HandlePairing(m)
  <2> DEFINE saw == inbound[m].saw
             pending == (saw.pending \ stale) \union {m}
  <2>1. saw \in AccessFile /\ pending \in SUBSET Messages
    BY ChannelTyped
  <2>2. access' = [saw EXCEPT !.pending = pending] \/ access' = access
    BY <1>1 DEF HandlePairing
  <2> HIDE DEF saw, pending
  <2>3. access' \in AccessFile /\ (access'.allowed = saw.allowed \/ access' = access)
    BY <2>1, <2>2 DEF AccessFile, ChannelTypeOK
  <2>4. paired' = paired
    BY <1>1 DEF HandlePairing
  <2> QED
    BY <2>3, <2>4 DEF ChannelTypeOK, saw
<1>2. CASE ApprovePairing(m)
  <2> DEFINE allowed == access.allowed \union {Mail[m].chat}
             pending == access.pending \ {m}
  <2>1. access' = [access EXCEPT !.allowed = allowed, !.pending = pending]
    BY <1>2 DEF ApprovePairing
  <2>2. allowed \in SUBSET Chats /\ pending \in SUBSET Messages /\ access \in AccessFile
    BY ChannelTyped DEF ChannelTypeOK
  <2>3. paired' = paired \union {Mail[m].chat} /\ paired' \subseteq Chats
    BY <1>2, ChannelTyped DEF ApprovePairing, ChannelTypeOK
  <2>4. access' \in AccessFile /\ access'.allowed = allowed
    <3> HIDE DEF allowed, pending
    <3> QED
      BY <2>1, <2>2 DEF AccessFile
  <2> QED
    BY <2>3, <2>4
<1> QED
  BY <1>1, <1>2

(* What the steps make of a tool call. *)
LEMMA ToolTypes ==
  ASSUME ChannelTypeOK, NEW k \in ToolCalls, NEW new \in ToolCall, tool' = [tool EXCEPT ![k] = new]
  PROVE  /\ tool' \in [ToolCalls -> ToolCall] /\ tool'[k] = new
         /\ \A j \in ToolCalls : j # k => tool'[j] = tool[j]
BY DEF ChannelTypeOK

LEMMA ReplyEffect ==
  ASSUME ChannelTypeOK, NEW k \in ToolCalls, NEW c \in Chats, Reply(k, c)
  PROVE  /\ tool[k].pc = "idle" /\ tool' \in [ToolCalls -> ToolCall]
         /\ tool'[k].pc \in {"sent", "end"} /\ tool'[k].on = NoMessage
         /\ \A j \in ToolCalls : j # k => tool'[j] = tool[j]
<1>1. PICK pc \in {"sent", "end"} : tool' = [tool EXCEPT ![k] = [pc |-> pc, chat |-> c, on |-> NoMessage]]
  BY DEF Reply
<1>2. [pc |-> pc, chat |-> c, on |-> NoMessage] \in ToolCall
  BY DEF ToolCall
<1> QED
  BY <1>1, <1>2, ToolTypes DEF Reply

LEMMA ConsumeEffect ==
  ASSUME ChannelTypeOK, NEW k \in ToolCalls, ConsumePendingAck(k)
  PROVE  /\ tool[k].pc = "sent" /\ tool' \in [ToolCalls -> ToolCall]
         /\ tool'[k].pc \in {"end", "swap"} /\ tool'[k].chat = tool[k].chat
         /\ tool'[k].on = pendingAck[tool[k].chat]
         /\ \A j \in ToolCalls : j # k => tool'[j] = tool[j]
         /\ pendingAck' \in [Chats -> Messages \union {NoMessage}]
         /\ \A c \in Chats : c # tool[k].chat => pendingAck'[c] = pendingAck[c]
<1> DEFINE pc == IF pendingAck[tool[k].chat] = NoMessage THEN "end" ELSE "swap"
           on == pendingAck[tool[k].chat]
           new == [tool[k] EXCEPT !.pc = pc, !.on = on]
<1>1. tool' = [tool EXCEPT ![k].pc = pc, ![k].on = on]
  BY DEF ConsumePendingAck
<1>2. /\ tool[k] \in ToolCall /\ on \in Messages \union {NoMessage} /\ pc \in {"end", "swap"}
      /\ tool \in [ToolCalls -> ToolCall]
  BY ChannelTyped DEF ChannelTypeOK
<1>3. pendingAck' = [pendingAck EXCEPT ![tool[k].chat] = NoMessage]
  BY DEF ConsumePendingAck
<1>4. tool' = [tool EXCEPT ![k] = new]
  <2> HIDE DEF pc, on
  <2> QED
    BY <1>1, <1>2
<1>5. new \in ToolCall /\ new.pc = pc /\ new.on = on /\ new.chat = tool[k].chat
  <2> HIDE DEF pc, on
  <2> QED
    BY <1>2 DEF ToolCall
<1> HIDE DEF new
<1>6. /\ pendingAck' \in [Chats -> Messages \union {NoMessage}]
      /\ \A c \in Chats : c # tool[k].chat => pendingAck'[c] = pendingAck[c]
  BY <1>3, ChannelTyped DEF ChannelTypeOK
<1> QED
  BY <1>2, <1>4, <1>5, <1>6, ToolTypes DEF ConsumePendingAck

LEMMA SwapEffect ==
  ASSUME ChannelTypeOK, NEW k \in ToolCalls, SwapReaction(k) \/ SetReaction(k)
  PROVE  /\ tool' \in [ToolCalls -> ToolCall]
         /\ tool'[k].chat = tool[k].chat /\ tool'[k].on = tool[k].on
         /\ tool'[k].pc \in {"end", "took over"}
         /\ tool[k].pc = "manual" => tool'[k].pc = "took over"
         /\ tool[k].pc # "took over"
         /\ \A j \in ToolCalls : j # k => tool'[j] = tool[j]
         /\ reaction' \in [Messages -> {"none", "eyes", "done", "manual", "thumb"}]
         /\ \A m \in Messages : reaction'[m] = reaction[m] \/ reaction'[m] \in {"done", "manual"}
<1>1. PICK pc \in {"end", "took over"} :
        /\ tool' = [tool EXCEPT ![k].pc = pc]
        /\ tool[k].pc = "manual" => pc = "took over"
        /\ tool[k].pc # "took over"
  BY DEF SwapReaction, SetReaction
<1>2. tool[k] \in ToolCall /\ tool \in [ToolCalls -> ToolCall]
  BY DEF ChannelTypeOK
<1> DEFINE new == [tool[k] EXCEPT !.pc = pc]
<1>3. new \in ToolCall /\ new.pc = pc /\ new.on = tool[k].on /\ new.chat = tool[k].chat
  BY <1>2 DEF ToolCall
<1>4. tool' = [tool EXCEPT ![k] = new]
  BY <1>1, <1>2
<1> HIDE DEF new
<1>5. /\ reaction' \in [Messages -> {"none", "eyes", "done", "manual", "thumb"}]
      /\ \A m \in Messages : reaction'[m] = reaction[m] \/ reaction'[m] \in {"done", "manual"}
  BY DEF SwapReaction, SetReaction, ChannelTypeOK
<1> QED
  BY <1>1, <1>3, <1>4, <1>5, ToolTypes

LEMMA ReactEffect ==
  ASSUME ChannelTypeOK, NEW k \in ToolCalls, NEW m \in Messages, React(k, m)
  PROVE  /\ tool[k].pc = "idle" /\ tool' \in [ToolCalls -> ToolCall]
         /\ tool'[k].pc = "manual" /\ tool'[k].chat = Mail[m].chat
         /\ \A j \in ToolCalls : j # k => tool'[j] = tool[j]
         /\ pendingAck' \in [Chats -> Messages \union {NoMessage}]
         /\ \A c \in Chats : c # Mail[m].chat => pendingAck'[c] = pendingAck[c]
<1>1. [pc |-> "manual", chat |-> Mail[m].chat, on |-> m] \in ToolCall
  BY ChannelTyped DEF ToolCall
<1>2. tool' = [tool EXCEPT ![k] = [pc |-> "manual", chat |-> Mail[m].chat, on |-> m]]
  BY DEF React
<1>3. pendingAck' = [pendingAck EXCEPT ![Mail[m].chat] = NoMessage] /\ tool[k].pc = "idle"
  BY DEF React
<1>4. /\ pendingAck' \in [Chats -> Messages \union {NoMessage}]
      /\ \A c \in Chats : c # Mail[m].chat => pendingAck'[c] = pendingAck[c]
  BY <1>3, ChannelTyped DEF ChannelTypeOK
<1> QED
  BY <1>1, <1>2, <1>3, <1>4, ToolTypes

LEMMA ClaimTypes ==
  ASSUME ChannelTypeOK, NEW q \in Prompts, NEW allow \in BOOLEAN, Claim(q, allow)
  PROVE  permPending' \subseteq Prompts /\ claimed' \subseteq Prompts \X BOOLEAN
BY DEF Claim, ChannelTypeOK

LEMMA SendTypes ==
  ASSUME ChannelTypeOK, NEW q \in Prompts, NEW allow \in BOOLEAN, Send(q, allow)
  PROVE  /\ verdicts' \in [Prompts -> Seq(BOOLEAN)] /\ verdicts'[q] = Append(verdicts[q], allow)
         /\ \A p \in Prompts : p # q => verdicts'[p] = verdicts[p]
<1>1. Append(verdicts[q], allow) \in Seq(BOOLEAN)
  BY ChannelTyped
<1>2. verdicts \in [Prompts -> Seq(BOOLEAN)] /\ verdicts' = [verdicts EXCEPT ![q] = Append(verdicts[q], allow)]
  BY DEF Send, ChannelTypeOK
<1> QED
  BY <1>1, <1>2

LEMMA ChannelTypeStep == ChannelTypeOK /\ [ChannelNext]_channelVars => ChannelTypeOK'
<1> SUFFICES ASSUME ChannelTypeOK, [ChannelNext]_channelVars PROVE ChannelTypeOK'
  OBVIOUS
<1> USE DEF gateVars, permVars, ackVars
<1>1. CASE LoadCorrupt
  BY <1>1, Defaults DEF LoadCorrupt, ChannelTypeOK
<1>2. ASSUME NEW m \in Messages, ReceiveUpdate(m) PROVE ChannelTypeOK'
  <2>1. inbound' \in [Messages -> Handler]
    BY <1>2, ReceiveEffect
  <2> QED
    BY <1>2, <2>1 DEF ReceiveUpdate, ChannelTypeOK
<1>3. ASSUME NEW m \in Messages, HandlePairing(m) PROVE ChannelTypeOK'
  <2>1. access' \in AccessFile /\ inbound' \in [Messages -> Handler]
    BY <1>3, PairingEffect, HandlingEffect DEF HandlePairing
  <2> QED
    BY <1>3, <2>1 DEF HandlePairing, ChannelTypeOK
<1>4. ASSUME NEW m \in Messages, ApprovePairing(m) PROVE ChannelTypeOK'
  <2>1. access' \in AccessFile /\ paired' \subseteq Chats
    BY <1>4, PairingEffect
  <2> QED
    BY <1>4, <2>1 DEF ApprovePairing, ChannelTypeOK
<1>5. ASSUME NEW m \in Messages, CodeExpires(m) PROVE ChannelTypeOK'
  BY <1>5 DEF CodeExpires, ChannelTypeOK
<1>6. ASSUME NEW m \in Messages, EmitInbound(m) PROVE ChannelTypeOK'
  <2>1. inbound' \in [Messages -> Handler]
    BY <1>6, HandlingEffect DEF EmitInbound
  <2> QED
    BY <1>6, <2>1 DEF EmitInbound, ChannelTypeOK
<1>7. ASSUME NEW m \in Messages, AckReaction(m) PROVE ChannelTypeOK'
  <2>1. inbound' \in [Messages -> Handler]
    BY <1>7, HandlingEffect DEF AckReaction
  <2>2. reaction' \in [Messages -> {"none", "eyes", "done", "manual", "thumb"}]
    BY <1>7 DEF AckReaction, ChannelTypeOK
  <2> QED
    BY <1>7, <2>1, <2>2 DEF AckReaction, ChannelTypeOK
<1>8. ASSUME NEW m \in Messages, SetPendingAck(m) PROVE ChannelTypeOK'
  <2>1. inbound' \in [Messages -> Handler]
    BY <1>8, HandlingEffect DEF SetPendingAck
  <2>2. pendingAck' \in [Chats -> Messages \union {NoMessage}]
    BY <1>8 DEF SetPendingAck, ChannelTypeOK
  <2> QED
    BY <1>8, <2>1, <2>2 DEF SetPendingAck, ChannelTypeOK
<1>9. ASSUME NEW m \in Messages, AnswerByText(m) PROVE ChannelTypeOK'
  <2>1. PICK q \in Prompts : q = Mail[m].code
    BY ChannelTyped
  <2>2. PICK a \in BOOLEAN : a = (Mail[m].verdict = "y")
    OBVIOUS
  <2>3. /\ Claim(q, a) /\ answers' = [answers EXCEPT ![q] = @ \union {a}] /\ Handling(m, "end")
        /\ \E shown \in {"thumb", reaction[m]} : reaction' = [reaction EXCEPT ![m] = shown]
        /\ UNCHANGED <<gateVars, inbox, prompt, verdicts, pendingAck, tool>>
    BY <1>9, <2>1, <2>2 DEF AnswerByText
  <2>4. permPending' \subseteq Prompts /\ claimed' \subseteq Prompts \X BOOLEAN
    BY <2>3, ClaimTypes
  <2>5. inbound' \in [Messages -> Handler]
    BY <2>3, HandlingEffect
  <2>6. /\ answers' \in [Prompts -> SUBSET BOOLEAN]
        /\ reaction' \in [Messages -> {"none", "eyes", "done", "manual", "thumb"}]
    BY <2>3 DEF ChannelTypeOK
  <2> QED
    BY <2>3, <2>4, <2>5, <2>6 DEF ChannelTypeOK
<1>10. ASSUME NEW q \in Prompts, RequestPermission(q) PROVE ChannelTypeOK'
  <2>1. verdicts' \in [Prompts -> Seq(BOOLEAN)]
    BY <1>10, SendTypes DEF RequestPermission, ChannelTypeOK
  <2>2. prompt' \in [Prompts -> {"new", "sent", "listed", "armed", "end"}]
    BY <1>10 DEF RequestPermission, ChannelTypeOK
  <2> QED
    BY <1>10, <2>1, <2>2 DEF RequestPermission, ChannelTypeOK
<1>11. ASSUME NEW q \in Prompts, ListPrompt(q) \/ ArmTimer(q) PROVE ChannelTypeOK'
  BY <1>11 DEF ListPrompt, ArmTimer, ChannelTypeOK
<1>12. ASSUME NEW q \in Prompts, TimerFires(q) PROVE ChannelTypeOK'
  <2>1. permPending' \subseteq Prompts /\ claimed' \subseteq Prompts \X BOOLEAN
    BY <1>12, ClaimTypes DEF TimerFires
  <2> QED
    BY <1>12, <2>1 DEF TimerFires, ChannelTypeOK
<1>13. ASSUME NEW q \in Prompts, NEW a \in BOOLEAN, SendVerdict(q, a) PROVE ChannelTypeOK'
  <2>1. verdicts' \in [Prompts -> Seq(BOOLEAN)]
    BY <1>13, SendTypes DEF SendVerdict
  <2> QED
    BY <1>13, <2>1 DEF SendVerdict, ChannelTypeOK
<1>14. ASSUME NEW q \in Prompts, NEW a \in BOOLEAN, TapButton(q, a) PROVE ChannelTypeOK'
  <2>1. permPending' \subseteq Prompts /\ claimed' \subseteq Prompts \X BOOLEAN
    BY <1>14, ClaimTypes DEF TapButton
  <2>2. answers' \in [Prompts -> SUBSET BOOLEAN]
    BY <1>14 DEF TapButton, ChannelTypeOK
  <2> QED
    BY <1>14, <2>1, <2>2 DEF TapButton, ChannelTypeOK
<1>15. ASSUME NEW k \in ToolCalls, NEW c \in Chats, Reply(k, c) PROVE ChannelTypeOK'
  BY <1>15, ReplyEffect DEF Reply, ChannelTypeOK
<1>16. ASSUME NEW k \in ToolCalls, ConsumePendingAck(k) PROVE ChannelTypeOK'
  BY <1>16, ConsumeEffect DEF ConsumePendingAck, ChannelTypeOK
<1>17. ASSUME NEW k \in ToolCalls, SwapReaction(k) \/ SetReaction(k) PROVE ChannelTypeOK'
  BY <1>17, SwapEffect DEF SwapReaction, SetReaction, ChannelTypeOK
<1>18. ASSUME NEW k \in ToolCalls, NEW m \in Messages, React(k, m) PROVE ChannelTypeOK'
  BY <1>18, ReactEffect DEF React, ChannelTypeOK
<1>19. CASE UNCHANGED channelVars
  BY <1>19 DEF channelVars, ChannelTypeOK
<1> QED
  BY <1>1, <1>2, <1>3, <1>4, <1>5, <1>6, <1>7, <1>8, <1>9, <1>10, <1>11, <1>12, <1>13, <1>14, <1>15,
     <1>16, <1>17, <1>18, <1>19
  DEF ChannelNext, PromptSteps

-----------------------------------------------------------------------------
(* One verdict *)

LEMMA OneElement ==
  ASSUME NEW a \in BOOLEAN
  PROVE  /\ Append(<<>>, a) = <<a>> /\ Len(<<a>>) = 1 /\ <<a>> # <<>>
         /\ <<a>> = <<TRUE>> => a = TRUE
<1>1. Append(<<>>, a) = <<a>> /\ Len(<<a>>) = 1 /\ <<a>> # <<>> /\ <<a>>[1] = a
  OBVIOUS
<1>2. <<TRUE>>[1] = TRUE
  OBVIOUS
<1>3. <<a>> = <<TRUE>> => <<a>>[1] = <<TRUE>>[1]
  OBVIOUS
<1> QED
  BY <1>1, <1>2, <1>3

LEMMA ClaimKeeps ==
  ASSUME ChannelTypeOK, NEW q \in Prompts, NEW a \in BOOLEAN, NEW p \in Prompts, PromptInv(p),
         Claim(q, a), verdicts' = verdicts, answers[p] \subseteq answers'[p],
         a = TRUE /\ q \in permPending => TRUE \in answers'[q],
         prompt'[p] = prompt[p] \/ (p = q /\ prompt[p] = "armed" /\ prompt'[p] = "end")
  PROVE  PromptInv(p)'
<1>1. CASE q \in permPending /\ p = q
  <2>1. claimed' = claimed \union {<<q, a>>} /\ permPending' = permPending \ {q}
    BY <1>1 DEF Claim
  <2>2. prompt[q] \in {"listed", "armed"} /\ verdicts[q] = <<>> /\ ~Taken(q, TRUE) /\ ~Taken(q, FALSE)
    BY <1>1 DEF PromptInv, Undecided
  <2>3. Len(<<>>) = 0 /\ <<>> # <<TRUE>>
    OBVIOUS
  <2>4. prompt'[q] \in {"listed", "armed", "end"} /\ q \notin permPending' /\ verdicts'[q] = <<>>
    BY <1>1, <2>1, <2>2
  <2>5. CASE a = TRUE
    <3>1. ~Taken(q, FALSE)'
      BY <2>1, <2>2, <2>5 DEF Taken
    <3>2. TRUE \in answers'[q]
      BY <1>1, <2>5
    <3> QED
      BY <1>1, <2>3, <2>4, <3>1, <3>2 DEF PromptInv
  <2>6. CASE a = FALSE
    <3>1. ~Taken(q, TRUE)'
      BY <2>1, <2>2, <2>6 DEF Taken
    <3> QED
      BY <1>1, <2>3, <2>4, <3>1 DEF PromptInv
  <2> QED
    BY <2>5, <2>6
<1>2. CASE ~(q \in permPending /\ p = q)
  <2>1. /\ p \in permPending <=> p \in permPending'
        /\ \A b \in BOOLEAN : <<p, b>> \in claimed <=> <<p, b>> \in claimed'
    BY <1>2 DEF Claim
  <2>2. \A b \in BOOLEAN : Taken(p, b) <=> Taken(p, b)'
    BY <2>1 DEF Taken
  <2>3. Undecided(p) <=> Undecided(p)'
    BY <2>2 DEF Undecided
  <2>4. CASE prompt'[p] = prompt[p]
    BY <2>1, <2>2, <2>3, <2>4 DEF PromptInv
  <2>5. CASE p = q /\ prompt[p] = "armed" /\ prompt'[p] = "end"
    BY <1>2, <2>1, <2>2, <2>3, <2>5 DEF PromptInv
  <2> QED
    BY <2>4, <2>5
<1> QED
  BY <1>1, <1>2

LEMMA VerdictStep ==
  ChannelTypeOK /\ VerdictInv /\ [ChannelNext]_channelVars => VerdictInv'
<1> SUFFICES ASSUME ChannelTypeOK, VerdictInv, [ChannelNext]_channelVars, NEW p \in Prompts
             PROVE  PromptInv(p)'
  BY DEF VerdictInv
<1> USE DEF gateVars, permVars, ackVars
<1>v. PromptInv(p)
  BY DEF VerdictInv
(* Steps that leave the prompt alone. *)
<1>0. ASSUME prompt'[p] = prompt[p], p \in permPending' <=> p \in permPending,
             \A b \in BOOLEAN : Taken(p, b)' <=> Taken(p, b),
             verdicts'[p] = verdicts[p], answers' = answers
      PROVE  PromptInv(p)'
  BY <1>0, <1>v DEF PromptInv, Undecided
<1>1. ASSUME NEW q \in Prompts, RequestPermission(q) PROVE PromptInv(p)'
  <2>1. \A b \in BOOLEAN : Taken(p, b)' <=> Taken(p, b)
    BY <1>1 DEF RequestPermission, Taken
  <2>2. permPending' = permPending /\ answers' = answers
    BY <1>1 DEF RequestPermission
  <2>3. CASE p # q
    <3>1. prompt'[p] = prompt[p] /\ verdicts'[p] = verdicts[p]
      BY <1>1, <2>3, SendTypes DEF RequestPermission, ChannelTypeOK
    <3> QED
      BY <1>0, <2>1, <2>2, <3>1
  <2>4. CASE p = q
    <3>1. p \notin permPending /\ Undecided(p) /\ prompt[p] = "new"
      BY <1>1, <1>v, <2>4 DEF RequestPermission, PromptInv
    <3>2. CASE prompt' = [prompt EXCEPT ![q] = "sent"] /\ verdicts' = verdicts
      <4>1. prompt'[p] = "sent" /\ Undecided(p)'
        BY <2>1, <2>4, <3>1, <3>2 DEF Undecided, ChannelTypeOK
      <4> QED
        BY <1>v, <2>1, <2>2, <3>1, <3>2, <4>1 DEF PromptInv
    <3>3. CASE prompt' = [prompt EXCEPT ![q] = "end"] /\ Send(q, FALSE)
      <4>1. prompt'[p] = "end"
        BY <2>4, <3>3 DEF ChannelTypeOK
      <4>2. verdicts'[p] = <<FALSE>>
        BY <2>4, <3>1, <3>3, SendTypes, OneElement DEF Undecided
      <4>3. \A b \in BOOLEAN : ~Taken(p, b)'
        BY <2>1, <3>1 DEF Undecided
      <4>4. Len(verdicts'[p]) <= 1 /\ verdicts'[p] # <<TRUE>>
        BY <4>2, OneElement
      <4> QED
        BY <2>2, <3>1, <4>1, <4>3, <4>4 DEF PromptInv
    <3> QED
      BY <1>1, <3>2, <3>3 DEF RequestPermission
  <2> QED
    BY <2>3, <2>4
<1>2. ASSUME NEW q \in Prompts, ListPrompt(q) \/ ArmTimer(q) PROVE PromptInv(p)'
  <2>1. UNCHANGED <<claimed, verdicts, answers>>
    BY <1>2 DEF ListPrompt, ArmTimer
  <2>2. \A b \in BOOLEAN : Taken(p, b)' <=> Taken(p, b)
    BY <2>1 DEF Taken
  <2>3. CASE p # q
    <3>1. prompt'[p] = prompt[p] /\ (p \in permPending' <=> p \in permPending)
      BY <1>2, <2>3 DEF ListPrompt, ArmTimer, ChannelTypeOK
    <3> QED
      BY <1>0, <2>1, <2>2, <3>1
  <2>4. CASE p = q
    <3>1. /\ prompt'[p] \in {"listed", "armed"}
          /\ p \in permPending \/ prompt[p] = "sent" \/ p \notin permPending'
      BY <1>2, <2>4 DEF ListPrompt, ArmTimer, ChannelTypeOK
    <3>2. Undecided(p)' <=> Undecided(p)
      BY <2>1, <2>2 DEF Undecided
    <3>3. p \in permPending' => Undecided(p)
      BY <1>v, <3>1 DEF PromptInv
    <3> QED
      BY <1>v, <2>1, <2>2, <3>1, <3>2, <3>3 DEF PromptInv
  <2> QED
    BY <2>3, <2>4
<1>3. ASSUME NEW q \in Prompts, TimerFires(q) PROVE PromptInv(p)'
  <2>1. /\ Claim(q, FALSE) /\ UNCHANGED <<verdicts, answers>>
        /\ prompt'[p] = prompt[p] \/ (p = q /\ prompt[p] = "armed" /\ prompt'[p] = "end")
    BY <1>3 DEF TimerFires, ChannelTypeOK
  <2> QED
    BY <1>v, <2>1, ClaimKeeps
<1>4. ASSUME NEW q \in Prompts, NEW a \in BOOLEAN, Claim(q, a),
             answers' = [answers EXCEPT ![q] = @ \union {a}], UNCHANGED <<prompt, verdicts>>
      PROVE  PromptInv(p)'
  <2>1. answers[p] \subseteq answers'[p] /\ (a = TRUE => TRUE \in answers'[q])
    BY <1>4 DEF ChannelTypeOK
  <2> QED
    BY <1>v, <1>4, <2>1, ClaimKeeps
<1>5. ASSUME NEW q \in Prompts, NEW a \in BOOLEAN, TapButton(q, a) PROVE PromptInv(p)'
  BY <1>4, <1>5 DEF TapButton
<1>6. ASSUME NEW m \in Messages, AnswerByText(m) PROVE PromptInv(p)'
  <2>1. PICK q \in Prompts : q = Mail[m].code
    BY ChannelTyped
  <2>2. PICK a \in BOOLEAN : a = (Mail[m].verdict = "y")
    OBVIOUS
  <2>3. /\ Claim(q, a) /\ answers' = [answers EXCEPT ![q] = @ \union {a}]
        /\ UNCHANGED <<prompt, verdicts>>
    BY <1>6, <2>1, <2>2 DEF AnswerByText
  <2> QED
    BY <1>4, <2>3
<1>7. ASSUME NEW q \in Prompts, NEW a \in BOOLEAN, SendVerdict(q, a) PROVE PromptInv(p)'
  <2>1. /\ claimed' = claimed \ {<<q, a>>} /\ <<q, a>> \in claimed /\ Send(q, a)
        /\ UNCHANGED <<prompt, permPending, answers>>
    BY <1>7 DEF SendVerdict
  <2>2. CASE p # q
    <3>1. \A b \in BOOLEAN : Taken(p, b)' <=> Taken(p, b)
      BY <2>1, <2>2 DEF Taken
    <3>2. verdicts'[p] = verdicts[p]
      BY <2>1, <2>2, SendTypes
    <3> QED
      BY <1>0, <2>1, <3>1, <3>2
  <2>3. CASE p = q
    <3>1. Taken(p, a) /\ verdicts[p] = <<>> /\ ~Undecided(p)
      BY <1>v, <2>1, <2>3 DEF Taken, PromptInv, Undecided
    <3>2. p \notin permPending /\ prompt[p] \notin {"new", "sent"}
      BY <1>v, <3>1 DEF PromptInv
    <3>3. verdicts'[p] = <<a>>
      BY <2>1, <2>3, <3>1, SendTypes, OneElement
    <3>4. ~Taken(p, TRUE)' /\ ~Taken(p, FALSE)'
      <4>1. CASE a = TRUE
        BY <1>v, <2>1, <2>3, <3>1, <4>1 DEF Taken, PromptInv
      <4>2. CASE a = FALSE
        BY <1>v, <2>1, <2>3, <3>1, <4>2 DEF Taken, PromptInv
      <4> QED
        BY <4>1, <4>2
    <3>5. Len(verdicts'[p]) <= 1 /\ (verdicts'[p] = <<TRUE>> => a = TRUE)
      <4>1. Len(<<a>>) = 1 /\ (<<a>> = <<TRUE>> => a = TRUE)
        BY OneElement
      <4>2. Len(<<a>>) <= 1
        BY <4>1
      <4> QED
        BY <3>3, <4>1, <4>2, Zenon
    <3>6. verdicts'[p] = <<TRUE>> => TRUE \in answers'[p]
      BY <1>v, <2>1, <3>1, <3>5 DEF PromptInv
    <3> QED
      BY <2>1, <3>2, <3>4, <3>5, <3>6 DEF PromptInv
  <2> QED
    BY <2>2, <2>3
<1>8. CASE UNCHANGED permVars
  BY <1>0, <1>8 DEF Taken
<1> QED
  BY <1>1, <1>2, <1>3, <1>5, <1>6, <1>7, <1>8
  DEF ChannelNext, PromptSteps, LoadCorrupt, ReceiveUpdate, HandlePairing, ApprovePairing, CodeExpires,
    EmitInbound, AckReaction, SetPendingAck, Reply, ConsumePendingAck, SwapReaction, SetReaction, React,
    channelVars

(* No two verdicts on a prompt, sent or on the way. *)
LEMMA AtMostOne ==
  ASSUME ChannelTypeOK, VerdictInv, NEW q \in Prompts
  PROVE  Len(verdicts[q]) + Cardinality({v \in claimed : v[1] = q}) <= 1
<1> DEFINE mine == {v \in claimed : v[1] = q}
<1>1. PromptInv(q) /\ Len(verdicts[q]) \in Nat
  BY ChannelTyped DEF VerdictInv
<1>2. ASSUME NEW v \in mine PROVE v = <<q, TRUE>> \/ v = <<q, FALSE>>
  <2>1. PICK p \in Prompts, a \in BOOLEAN : v = <<p, a>>
    BY DEF ChannelTypeOK
  <2>2. p = q
    BY <2>1
  <2>3. a = TRUE \/ a = FALSE
    OBVIOUS
  <2> QED
    BY <2>1, <2>2, <2>3
<1>3. ASSUME mine = {} PROVE Len(verdicts[q]) + Cardinality(mine) <= 1
  <2>1. Cardinality(mine) = 0
    BY <1>3, FS_EmptySet
  <2>2. Len(verdicts[q]) <= 1
    BY <1>1 DEF PromptInv
  <2> HIDE DEF mine
  <2> QED
    BY <1>1, <2>1, <2>2
<1>4. ASSUME NEW v \in mine PROVE Len(verdicts[q]) + Cardinality(mine) <= 1
  <2>1. mine = {v}
    BY <1>1, <1>2 DEF PromptInv, Taken
  <2>2. verdicts[q] = <<>>
    BY <1>1, <1>2 DEF PromptInv, Taken
  <2>3. Cardinality(mine) = 1 /\ Len(<<>>) = 0
    BY <2>1, FS_Singleton
  <2> QED
    BY <2>2, <2>3
<1> QED
  BY <1>3, <1>4

-----------------------------------------------------------------------------
(* The gate *)

(* What the gate lets through was let in by the operator. *)
LEMMA CheckAdmits ==
  ASSUME NEW file, NEW m \in Messages, file.allowed \subseteq paired, Check(file, m) = "allow"
  PROVE  Admitted(m)
BY DEF Check, Admitted

LEMMA GateStep ==
  ChannelTypeOK /\ GateInv /\ [ChannelNext]_channelVars => GateInv'
<1> SUFFICES ASSUME ChannelTypeOK, GateInv, [ChannelNext]_channelVars PROVE GateInv'
  OBVIOUS
<1> USE DEF gateVars, permVars, ackVars
(* Nobody's admission is taken back. *)
<1>0. ASSUME paired \subseteq paired', NEW m \in Messages, Admitted(m) PROVE Admitted(m)'
  BY <1>0 DEF Admitted
<1>1. CASE LoadCorrupt
  <2>1. access'.allowed = {} /\ UNCHANGED <<paired, inbound, inbox>>
    BY <1>1, Defaults DEF LoadCorrupt
  <2> QED
    BY <2>1 DEF GateInv, Admitted
<1>2. ASSUME NEW m \in Messages, ReceiveUpdate(m) PROVE GateInv'
  <2>1. UNCHANGED <<access, paired, inbox>>
    BY <1>2 DEF ReceiveUpdate
  <2>2. /\ inbound'[m].pc \in {Check(access, m), "drop"}
        /\ inbound'[m].saw.allowed \subseteq access.allowed
        /\ \A n \in Messages : n # m => inbound'[n] = inbound[n]
    BY <1>2, ReceiveEffect
  <2>3. inbound'[m].pc = "allow" => Admitted(m)
    BY <2>2, CheckAdmits DEF GateInv
  <2>4. \A n \in Messages : inbound'[n].saw.allowed \subseteq paired
    BY <2>2 DEF GateInv
  <2>5. \A n \in Messages : inbound'[n].pc = "allow" \/ n \in inbox => Admitted(n)
    BY <2>2, <2>3 DEF GateInv
  <2>6. \A n \in Messages : Admitted(n)' <=> Admitted(n)
    BY <2>1 DEF Admitted
  <2> QED
    BY <2>1, <2>4, <2>5, <2>6 DEF GateInv
(* Decisions that go on: nothing new is loaded or let in. *)
<1>3. ASSUME NEW m \in Messages, NEW pc \in {"end", "emitted", "acked"}, Handling(m, pc),
             UNCHANGED <<access, paired>>,
             inbox' = inbox \/ (inbox' = inbox \union {m} /\ inbound[m].pc = "allow")
      PROVE  GateInv'
  <2>1. /\ inbound'[m].pc = pc /\ inbound'[m].saw.allowed = {}
        /\ \A n \in Messages : n # m => inbound'[n] = inbound[n]
    BY <1>3, HandlingEffect
  <2>2. \A n \in Messages : Admitted(n)' <=> Admitted(n)
    BY <1>3 DEF Admitted
  <2>3. \A n \in Messages : inbound'[n].saw.allowed \subseteq paired
    BY <2>1 DEF GateInv
  <2>4. \A n \in Messages : inbound'[n].pc = "allow" => inbound[n].pc = "allow"
    BY <2>1
  <2>5. \A n \in Messages : n \in inbox' => n \in inbox \/ inbound[n].pc = "allow"
    BY <1>3
  <2> QED
    BY <1>3, <2>2, <2>3, <2>4, <2>5 DEF GateInv
<1>4. ASSUME NEW m \in Messages, HandlePairing(m) PROVE GateInv'
  <2>1. /\ access'.allowed \subseteq paired
        /\ UNCHANGED <<paired, inbox>>
    BY <1>4, PairingEffect DEF HandlePairing, GateInv
  <2>2. /\ inbound'[m].pc = "end" /\ inbound'[m].saw.allowed = {}
        /\ \A n \in Messages : n # m => inbound'[n] = inbound[n]
    BY <1>4, HandlingEffect DEF HandlePairing
  <2>3. \A n \in Messages : Admitted(n)' <=> Admitted(n)
    BY <2>1 DEF Admitted
  <2>4. \A n \in Messages : inbound'[n].saw.allowed \subseteq paired
    BY <2>2 DEF GateInv
  <2>5. \A n \in Messages : inbound'[n].pc = "allow" => inbound[n].pc = "allow"
    BY <2>2
  <2> QED
    BY <2>1, <2>3, <2>4, <2>5 DEF GateInv
<1>5. ASSUME NEW m \in Messages, ApprovePairing(m) PROVE GateInv'
  <2>1. /\ access'.allowed \subseteq paired' /\ paired \subseteq paired'
        /\ UNCHANGED <<inbound, inbox>>
    <3>1. paired' = paired \union {Mail[m].chat} /\ UNCHANGED <<inbound, inbox>>
      BY <1>5 DEF ApprovePairing
    <3>2. \/ access'.allowed \subseteq inbound[m].saw.allowed
          \/ access'.allowed \subseteq access.allowed \union (paired' \cap {Mail[m].chat})
      BY <1>5, PairingEffect
    <3> QED
      BY <3>1, <3>2 DEF GateInv
  <2>2. \A n \in Messages : Admitted(n) => Admitted(n)'
    BY <1>0, <2>1
  <2>3. \A n \in Messages : inbound'[n].saw.allowed \subseteq paired'
    BY <2>1 DEF GateInv
  <2> QED
    BY <2>1, <2>2, <2>3 DEF GateInv
<1>6. ASSUME NEW m \in Messages, EmitInbound(m) PROVE GateInv'
  BY <1>3, <1>6 DEF EmitInbound
<1>7. ASSUME NEW m \in Messages, AckReaction(m) \/ SetPendingAck(m) \/ AnswerByText(m) PROVE GateInv'
  <2>1. PICK pc \in {"end", "emitted", "acked"} : Handling(m, pc)
    BY <1>7 DEF AckReaction, SetPendingAck, AnswerByText
  <2>2. UNCHANGED <<access, paired>> /\ inbox' = inbox
    BY <1>7 DEF AckReaction, SetPendingAck, AnswerByText
  <2> QED
    BY <1>3, <2>1, <2>2
<1>8. CASE UNCHANGED <<access, paired, inbound, inbox>>
  <2>1. \A n \in Messages : Admitted(n)' <=> Admitted(n)
    BY <1>8 DEF Admitted
  <2> QED
    BY <1>8, <2>1 DEF GateInv
<1> QED
  BY <1>1, <1>2, <1>4, <1>5, <1>6, <1>7, <1>8
  DEF ChannelNext, PromptSteps, CodeExpires, RequestPermission, ListPrompt, ArmTimer, TimerFires,
    SendVerdict, TapButton, Reply, ConsumePendingAck, SwapReaction, SetReaction, React, channelVars

-----------------------------------------------------------------------------
(* The eyes *)

Done == {"eyes", "done", "manual"}
Replaced(m, n) == n # m /\ Mail[n].chat = Mail[m].chat /\ reaction[n] \in Done /\ inbound[n].pc = "end"
Held(m, k) ==
  tool[k].chat = Mail[m].chat /\ (tool[k].on = m \/ tool[k].pc \in {"manual", "took over"})
Cared(m) ==
  \/ pendingAck[Mail[m].chat] = m \/ inbound[m].pc = "acked"
  \/ \E n \in Messages : Replaced(m, n)
  \/ \E k \in ToolCalls : Held(m, k)

EyesCaredFor == \A m \in Messages : reaction[m] = "eyes" => Cared(m)

LEMMA EyesAreCaredFor == EyesHaveAnOwner <=> EyesCaredFor
BY DEF EyesCaredFor, EyesHaveAnOwner, Cared, Replaced, Held, Done

(* What a step must keep for the eyes to keep their owner. *)
LEMMA EyesKept ==
  ASSUME EyesInv,
         \A n \in Messages : reaction'[n] = "eyes" => reaction[n] = "eyes" \/ inbound'[n].pc = "acked",
         \A n \in Messages : inbound[n].pc = "end" /\ reaction[n] \in Done
                               => inbound'[n].pc = "end" /\ reaction'[n] \in Done,
         \A n \in Messages : inbound'[n].pc = "acked" => reaction'[n] \in Done,
         \A n \in Messages : inbound[n].pc = "acked" => Cared(n)',
         \A k \in ToolCalls : tool'[k].pc \in {"idle", "sent"} => tool'[k].on = NoMessage,
         \A n \in Messages : \A k \in ToolCalls : Held(n, k) => Held(n, k)',
         \A n \in Messages : pendingAck[Mail[n].chat] = n => Cared(n)'
  PROVE  EyesInv'
<1>1. ASSUME NEW m \in Messages, Cared(m) PROVE Cared(m)'
  <2>1. CASE pendingAck[Mail[m].chat] = m \/ inbound[m].pc = "acked"
    BY <2>1
  <2>2. ASSUME NEW n \in Messages, Replaced(m, n) PROVE Cared(m)'
    <3>1. Replaced(m, n)'
      BY <2>2 DEF Replaced, Done
    <3> QED
      BY <3>1 DEF Cared
  <2>3. ASSUME NEW k \in ToolCalls, Held(m, k) PROVE Cared(m)'
    BY <2>3 DEF Cared
  <2> QED
    BY <1>1, <2>1, <2>2, <2>3 DEF Cared
<1>2. \A m \in Messages : reaction[m] = "eyes" => Cared(m)
  BY EyesAreCaredFor DEF EyesInv, EyesCaredFor
<1>3. ASSUME NEW m \in Messages, reaction'[m] = "eyes" PROVE Cared(m)'
  <2>1. CASE inbound'[m].pc = "acked"
    BY <2>1 DEF Cared
  <2>2. CASE reaction[m] = "eyes"
    BY <1>1, <1>2, <2>2
  <2> QED
    BY <1>3, <2>1, <2>2
<1>4. EyesCaredFor'
  BY <1>3 DEF EyesCaredFor
<1>5. EyesHaveAnOwner'
  BY <1>4, EyesAreCaredFor, PTL
<1> QED
  BY <1>5 DEF EyesInv, Done

LEMMA EyesStep ==
  ChannelTypeOK /\ EyesInv /\ [ChannelNext]_channelVars => EyesInv'
<1> SUFFICES ASSUME ChannelTypeOK, EyesInv, [ChannelNext]_channelVars PROVE EyesInv'
  OBVIOUS
<1> USE DEF gateVars, permVars, ackVars
<1>n. NoMessage \notin Messages
  BY ChannelAssumption
<1>h. \A m \in Messages, k \in ToolCalls : Held(m, k) => tool[k].pc \notin {"idle", "sent"}
  BY <1>n DEF Held, EyesInv
(* A message is handled further, short of being acknowledged. *)
<1>0. ASSUME NEW m \in Messages, UNCHANGED <<pendingAck, tool>>,
             inbound[m].pc \notin {"end", "acked"}, inbound'[m].pc # "acked",
             \A n \in Messages : n # m => inbound'[n] = inbound[n] /\ reaction'[n] = reaction[n],
             reaction'[m] = reaction[m] \/ reaction'[m] = "thumb"
      PROVE  EyesInv'
  <2>1. \A n \in Messages : inbound[n].pc = "acked" => Cared(n)'
    BY <1>0 DEF Cared
  <2>2. \A n \in Messages : pendingAck[Mail[n].chat] = n => Cared(n)'
    BY <1>0 DEF Cared
  <2>3. \A n \in Messages : \A k \in ToolCalls : Held(n, k) => Held(n, k)'
    BY <1>0 DEF Held
  <2>4. \A n \in Messages : inbound'[n].pc = "acked" => reaction'[n] \in Done
    BY <1>0 DEF EyesInv, Done
  <2>5. \A k \in ToolCalls : tool'[k].pc \in {"idle", "sent"} => tool'[k].on = NoMessage
    BY <1>0 DEF EyesInv
  <2>6. \A n \in Messages : reaction'[n] = "eyes" => reaction[n] = "eyes" \/ inbound'[n].pc = "acked"
    BY <1>0
  <2>7. \A n \in Messages : inbound[n].pc = "end" /\ reaction[n] \in Done
                              => inbound'[n].pc = "end" /\ reaction'[n] \in Done
    BY <1>0
  <2> QED
    BY <2>1, <2>2, <2>3, <2>4, <2>5, <2>6, <2>7, EyesKept
<1>1. ASSUME NEW m \in Messages, ReceiveUpdate(m) PROVE EyesInv'
  <2>1. UNCHANGED <<pendingAck, tool, reaction>>
    BY <1>1 DEF ReceiveUpdate
  <2> QED
    BY <1>0, <1>1, <2>1, ReceiveEffect
<1>2. ASSUME NEW m \in Messages, HandlePairing(m) \/ EmitInbound(m) PROVE EyesInv'
  <2>1. PICK pc \in {"end", "emitted"} : Handling(m, pc)
    BY <1>2 DEF HandlePairing, EmitInbound
  <2>2. UNCHANGED <<pendingAck, tool, reaction>> /\ inbound[m].pc \in {"pair", "allow"}
    BY <1>2 DEF HandlePairing, EmitInbound
  <2> QED
    BY <1>0, <2>1, <2>2, HandlingEffect
<1>3. ASSUME NEW m \in Messages, AnswerByText(m) PROVE EyesInv'
  <2>1. /\ Handling(m, "end") /\ UNCHANGED <<pendingAck, tool>> /\ inbound[m].pc = "allow"
        /\ \E shown \in {"thumb", reaction[m]} : reaction' = [reaction EXCEPT ![m] = shown]
    BY <1>3 DEF AnswerByText
  <2>2. /\ reaction'[m] = reaction[m] \/ reaction'[m] = "thumb"
        /\ \A n \in Messages : n # m => reaction'[n] = reaction[n]
    BY <2>1 DEF ChannelTypeOK
  <2> QED
    BY <1>0, <2>1, <2>2, HandlingEffect
<1>4. ASSUME NEW m \in Messages, AckReaction(m) PROVE EyesInv'
  <2>1. UNCHANGED <<pendingAck, tool>> /\ inbound[m].pc = "emitted"
    BY <1>4 DEF AckReaction
  <2>2. CASE Handling(m, "end") /\ UNCHANGED reaction
    BY <1>0, <2>1, <2>2, HandlingEffect
  <2>3. CASE Handling(m, "acked") /\ reaction' = [reaction EXCEPT ![m] = "eyes"]
    <3>1. /\ inbound'[m].pc = "acked" /\ reaction'[m] = "eyes"
          /\ \A n \in Messages : n # m => inbound'[n] = inbound[n] /\ reaction'[n] = reaction[n]
      BY <2>3, HandlingEffect DEF ChannelTypeOK
    <3>2. \A n \in Messages : inbound[n].pc = "acked" => Cared(n)'
      BY <2>1, <3>1 DEF Cared
    <3>3. \A n \in Messages : pendingAck[Mail[n].chat] = n => Cared(n)'
      BY <2>1 DEF Cared
    <3>4. \A n \in Messages : \A k \in ToolCalls : Held(n, k) => Held(n, k)'
      BY <2>1 DEF Held
    <3>5. \A n \in Messages : inbound'[n].pc = "acked" => reaction'[n] \in Done
      BY <3>1 DEF EyesInv, Done
    <3>6. \A k \in ToolCalls : tool'[k].pc \in {"idle", "sent"} => tool'[k].on = NoMessage
      BY <2>1 DEF EyesInv
    <3> QED
      BY <2>1, <3>1, <3>2, <3>3, <3>4, <3>5, <3>6, EyesKept
  <2> QED
    BY <1>4, <2>2, <2>3 DEF AckReaction
<1>5. ASSUME NEW m \in Messages, SetPendingAck(m) PROVE EyesInv'
  <2>1. /\ inbound[m].pc = "acked" /\ UNCHANGED <<reaction, tool>>
        /\ inbound'[m].pc = "end" /\ \A n \in Messages : n # m => inbound'[n] = inbound[n]
    BY <1>5, HandlingEffect DEF SetPendingAck
  <2>2. /\ pendingAck'[Mail[m].chat] = m
        /\ \A c \in Chats : c # Mail[m].chat => pendingAck'[c] = pendingAck[c]
    BY <1>5, ChannelTyped DEF SetPendingAck, ChannelTypeOK
  <2>3. Cared(m)'
    BY <2>2 DEF Cared
  <2>4. reaction'[m] \in Done
    BY <2>1 DEF EyesInv, Done
  <2>5. ASSUME NEW n \in Messages, pendingAck[Mail[n].chat] = n PROVE Cared(n)'
    <3>1. CASE n = m
      BY <2>3, <3>1
    <3>2. CASE n # m /\ Mail[n].chat = Mail[m].chat
      BY <2>1, <2>4, <3>2 DEF Cared, Replaced
    <3>3. CASE Mail[n].chat # Mail[m].chat
      BY <2>2, <2>5, <3>3, ChannelTyped DEF Cared
    <3> QED
      BY <3>1, <3>2, <3>3
  <2>6. \A n \in Messages : inbound[n].pc = "acked" => Cared(n)'
    BY <2>1, <2>3 DEF Cared
  <2>7. \A n \in Messages : \A k \in ToolCalls : Held(n, k) => Held(n, k)'
    BY <2>1 DEF Held
  <2>8. \A n \in Messages : inbound'[n].pc = "acked" => reaction'[n] \in Done
    BY <2>1 DEF EyesInv, Done
  <2>9. \A k \in ToolCalls : tool'[k].pc \in {"idle", "sent"} => tool'[k].on = NoMessage
    BY <2>1 DEF EyesInv
  <2> QED
    BY <2>1, <2>5, <2>6, <2>7, <2>8, <2>9, EyesKept
(* A tool call goes on. *)
<1>6. ASSUME NEW k \in ToolCalls, UNCHANGED inbound,
             \A j \in ToolCalls : j # k => tool'[j] = tool[j],
             tool'[k].pc \in {"idle", "sent"} => tool'[k].on = NoMessage,
             \A n \in Messages : Held(n, k) => Held(n, k)',
             \A n \in Messages : reaction'[n] = reaction[n] \/ reaction'[n] \in {"done", "manual"},
             \A n \in Messages : pendingAck[Mail[n].chat] = n => Cared(n)'
      PROVE  EyesInv'
  <2>1. \A n \in Messages : inbound[n].pc = "acked" => Cared(n)'
    BY <1>6 DEF Cared
  <2>2. \A n \in Messages : \A j \in ToolCalls : Held(n, j) => Held(n, j)'
    BY <1>6 DEF Held
  <2>3. \A n \in Messages : inbound'[n].pc = "acked" => reaction'[n] \in Done
    BY <1>6 DEF EyesInv, Done
  <2>4. \A j \in ToolCalls : tool'[j].pc \in {"idle", "sent"} => tool'[j].on = NoMessage
    BY <1>6 DEF EyesInv
  <2>5. \A n \in Messages : inbound[n].pc = "end" /\ reaction[n] \in Done
                              => inbound'[n].pc = "end" /\ reaction'[n] \in Done
    BY <1>6 DEF Done
  <2> QED
    BY <1>6, <2>1, <2>2, <2>3, <2>4, <2>5, EyesKept
<1>7. ASSUME NEW k \in ToolCalls, NEW c \in Chats, Reply(k, c) PROVE EyesInv'
  <2>1. UNCHANGED <<inbound, reaction, pendingAck>>
    BY <1>7 DEF Reply
  <2>2. \A n \in Messages : ~Held(n, k)
    BY <1>7, <1>h, ReplyEffect
  <2>3. \A n \in Messages : pendingAck[Mail[n].chat] = n => Cared(n)'
    BY <2>1 DEF Cared
  <2> QED
    BY <1>6, <1>7, <2>1, <2>2, <2>3, ReplyEffect
<1>8. ASSUME NEW k \in ToolCalls, ConsumePendingAck(k) PROVE EyesInv'
  <2>1. UNCHANGED <<inbound, reaction>>
    BY <1>8 DEF ConsumePendingAck
  <2>2. \A n \in Messages : ~Held(n, k)
    BY <1>8, <1>h, ConsumeEffect
  <2>3. ASSUME NEW n \in Messages, pendingAck[Mail[n].chat] = n PROVE Cared(n)'
    <3>1. CASE Mail[n].chat = tool[k].chat
      <4>1. tool'[k].chat = Mail[n].chat /\ tool'[k].on = n
        BY <1>8, <2>3, <3>1, ConsumeEffect
      <4> QED
        BY <4>1 DEF Cared, Held
    <3>2. CASE Mail[n].chat # tool[k].chat
      <4>1. pendingAck'[Mail[n].chat] = n
        BY <1>8, <2>3, <3>2, ConsumeEffect, ChannelTyped
      <4> QED
        BY <4>1 DEF Cared
    <3> QED
      BY <3>1, <3>2
  <2> QED
    BY <1>6, <1>8, <2>1, <2>2, <2>3, ConsumeEffect
<1>9. ASSUME NEW k \in ToolCalls, SwapReaction(k) \/ SetReaction(k) PROVE EyesInv'
  <2>1. UNCHANGED <<inbound, pendingAck>>
    BY <1>9 DEF SwapReaction, SetReaction
  <2>2. \A n \in Messages : Held(n, k) => Held(n, k)'
    BY <1>9, SwapEffect DEF Held
  <2>3. \A n \in Messages : pendingAck[Mail[n].chat] = n => Cared(n)'
    BY <2>1 DEF Cared
  <2> QED
    BY <1>6, <1>9, <2>1, <2>2, <2>3, SwapEffect
<1>10. ASSUME NEW k \in ToolCalls, NEW m \in Messages, React(k, m) PROVE EyesInv'
  <2>1. UNCHANGED <<inbound, reaction>>
    BY <1>10 DEF React
  <2>2. \A n \in Messages : ~Held(n, k)
    BY <1>10, <1>h, ReactEffect
  <2>3. ASSUME NEW n \in Messages, pendingAck[Mail[n].chat] = n PROVE Cared(n)'
    <3>1. CASE Mail[n].chat = Mail[m].chat
      <4>1. tool'[k].chat = Mail[n].chat /\ tool'[k].pc = "manual"
        BY <1>10, <3>1, ReactEffect
      <4> QED
        BY <4>1 DEF Cared, Held
    <3>2. CASE Mail[n].chat # Mail[m].chat
      <4>1. pendingAck'[Mail[n].chat] = n
        BY <1>10, <2>3, <3>2, ReactEffect, ChannelTyped
      <4> QED
        BY <4>1 DEF Cared
    <3> QED
      BY <3>1, <3>2
  <2> QED
    BY <1>6, <1>10, <2>1, <2>2, <2>3, ReactEffect
<1>11. CASE UNCHANGED <<inbound, reaction, pendingAck, tool>>
  BY <1>11 DEF EyesInv, EyesHaveAnOwner
<1> QED
  BY <1>1, <1>2, <1>3, <1>4, <1>5, <1>7, <1>8, <1>9, <1>10, <1>11
  DEF ChannelNext, PromptSteps, LoadCorrupt, ApprovePairing, CodeExpires, RequestPermission, ListPrompt,
    ArmTimer, TimerFires, SendVerdict, TapButton, channelVars

-----------------------------------------------------------------------------
(* The theorems *)

LEMMA ChannelStart ==
  ChannelInit => ChannelTypeOK /\ VerdictInv /\ GateInv /\ EyesInv
<1> SUFFICES ASSUME ChannelInit PROVE ChannelTypeOK /\ VerdictInv /\ GateInv /\ EyesInv
  OBVIOUS
<1>1. ASSUME NEW m \in Messages
      PROVE  inbound[m] \in Handler /\ inbound[m].saw.allowed = {} /\ inbound[m].pc \in {"new", "never"}
  <2>1. PICK batch \in Batches :
          inbound = [n \in Messages |-> [NotReceived EXCEPT !.pc = IF n \in batch THEN "new" ELSE "never"]]
    BY DEF ChannelInit
  <2>2. ASSUME NEW pc \in {"new", "never"}
        PROVE  /\ [NotReceived EXCEPT !.pc = pc] \in Handler
               /\ [NotReceived EXCEPT !.pc = pc].pc = pc
               /\ [NotReceived EXCEPT !.pc = pc].saw.allowed = {}
    BY Defaults DEF Handler
  <2>3. PICK pc \in {"new", "never"} : pc = IF m \in batch THEN "new" ELSE "never"
    OBVIOUS
  <2>4. inbound[m] = [NotReceived EXCEPT !.pc = pc]
    BY <2>1, <2>3
  <2> QED
    BY <2>2, <2>4
<1>2. \E f : inbound = [m \in Messages |-> f[m]]
  <2>1. PICK batch \in Batches :
          inbound = [n \in Messages |-> [NotReceived EXCEPT !.pc = IF n \in batch THEN "new" ELSE "never"]]
    BY DEF ChannelInit
  <2>2. inbound = [m \in Messages |-> inbound[m]]
    BY <2>1
  <2> QED
    BY <2>2
<1>3. inbound \in [Messages -> Handler]
  BY <1>1, <1>2
<1>4. access \in AccessFile /\ access.allowed = {Owner}
  BY Defaults DEF ChannelInit, AccessFile, Chats
<1>5. ChannelTypeOK
  <2>1. tool \in [ToolCalls -> ToolCall] /\ Owner \in Chats /\ <<>> \in Seq(BOOLEAN)
    BY Defaults DEF ChannelInit, Chats
  <2> QED
    BY <1>3, <1>4, <2>1 DEF ChannelTypeOK, ChannelInit
<1>6. VerdictInv
  <2>1. Len(<<>>) = 0 /\ <<>> # <<TRUE>>
    OBVIOUS
  <2>2. SUFFICES ASSUME NEW q \in Prompts PROVE PromptInv(q)
    BY DEF VerdictInv
  <2>3. prompt[q] = "new" /\ q \notin permPending /\ verdicts[q] = <<>> /\ \A b \in BOOLEAN : ~Taken(q, b)
    BY DEF ChannelInit, Taken
  <2>4. Undecided(q) /\ ~Taken(q, TRUE) /\ ~Taken(q, FALSE)
    BY <2>3 DEF Undecided
  <2>5. Len(verdicts[q]) <= 1 /\ verdicts[q] # <<TRUE>>
    BY <2>1, <2>3
  <2> QED
    BY <2>3, <2>4, <2>5 DEF PromptInv
<1>7. GateInv
  BY <1>1, <1>4 DEF GateInv, ChannelInit
<1>8. EyesInv
  <2>1. \A m \in Messages : reaction[m] = "none" /\ inbound[m].pc # "acked"
    BY <1>1 DEF ChannelInit
  <2>2. \A k \in ToolCalls : tool[k].on = NoMessage
    BY Defaults DEF ChannelInit
  <2> QED
    BY <2>1, <2>2 DEF EyesInv, EyesHaveAnOwner
<1> QED
  BY <1>5, <1>6, <1>7, <1>8

(* Every variable of the bot keeps to its domain. *)
THEOREM ChannelTypeCorrect == ChannelSpec => []ChannelTypeOK
BY ChannelStart, ChannelTypeStep, PTL DEF ChannelSpec

LEMMA VerdictSound == ChannelTypeOK /\ VerdictInv => VerdictIsOperators
<1> SUFFICES ASSUME ChannelTypeOK, VerdictInv, NEW q \in Prompts
             PROVE  /\ Len(verdicts[q]) + Cardinality({v \in claimed : v[1] = q}) <= 1
                    /\ verdicts[q] = <<TRUE>> => TRUE \in answers[q]
  BY DEF VerdictIsOperators
<1>1. Len(verdicts[q]) + Cardinality({v \in claimed : v[1] = q}) <= 1
  BY AtMostOne
<1>2. verdicts[q] = <<TRUE>> => TRUE \in answers[q]
  BY DEF VerdictInv, PromptInv
<1> QED
  BY <1>1, <1>2

(* However the buttons, the texts and the timer of a prompt race, Claude gets at
   most one verdict on it, and "allow" only if the operator said so. *)
THEOREM VerdictOperators == ChannelSpec => []VerdictIsOperators
BY ChannelStart, ChannelTypeStep, VerdictStep, VerdictSound, PTL DEF ChannelSpec

LEMMA GateSound == ChannelTypeOK /\ GateInv => OnlyPairedReachClaude
BY DEF ChannelTypeOK, GateInv, Admitted, OnlyPairedReachClaude

(* No message reaches Claude unless its group lists the sender or the operator
   paired the chat: access.json, rewritten from copies that were loaded before,
   lets nobody else in. *)
THEOREM OnlyPaired == ChannelSpec => []OnlyPairedReachClaude
BY ChannelStart, ChannelTypeStep, GateStep, GateSound, PTL DEF ChannelSpec

LEMMA EyesSound == EyesInv => EyesHaveAnOwner
BY DEF EyesInv

(* A message that shows the eyes is the one the next reply marks as done, unless
   a later message, a reply under way or a reaction of Claude took its place. *)
THEOREM EyesOwned == ChannelSpec => []EyesHaveAnOwner
BY ChannelStart, ChannelTypeStep, EyesStep, EyesSound, PTL DEF ChannelSpec
=============================================================================
