-------------------------- MODULE ApprovalsProofs ----------------------------
(***************************************************************************)
(* Theorems about Approvals: an approval is handled at most once, the chat  *)
(* says what happened, the bot misses no approval and keeps no stale card,  *)
(* and no staged bundle is without an owner - for every number of           *)
(* approvals, callers, decisions, crashes and restarts of the bot.          *)
(***************************************************************************)
EXTENDS Approvals, SequenceTheorems, TLAPS

LEMMA AppendOne ==
  ASSUME NEW S, NEW s \in Seq(S), NEW e \in S
  PROVE  /\ Append(s, e) \in Seq(S)
         /\ Len(Append(s, e)) = Len(s) + 1
         /\ \A k \in 1..Len(s) : Append(s, e)[k] = s[k]
         /\ Append(s, e)[Len(s) + 1] = e
OBVIOUS

LEMMA RecordTypes ==
  /\ \A i \in Ids : CreatedEvent(i) \in Event
  /\ \A i \in Ids, d \in Decisions, f \in BOOLEAN : RemovedEvent(i, d, f) \in Event
  /\ NoCall \in CallType /\ NoCall.pc = "idle"
BY DEF CreatedEvent, RemovedEvent, NoCall, Event, CallType

LEMMA Typed ==
  ASSUME ApprovalsTypeOK
  PROVE  /\ files \subseteq Ids /\ staging \subseteq Ids /\ pending \subseteq Ids
         /\ missed \subseteq Ids /\ Buffer \in Nat
         /\ call \in [Workers -> CallType] /\ DOMAIN call = Workers
         /\ \A c \in Workers : call[c] \in CallType /\
              (call[c].pc # "idle" => call[c].id \in Ids /\ call[c].decision \in Decisions)
         /\ bot.stream \in {"none", "listing", "live", "ended"} /\ bot.listing \subseteq Ids
         /\ bot.chan \in Seq(Event) /\ Len(bot.chan) \in Nat /\ Len(bot.chan) <= Buffer
         /\ \A k \in 1..Len(bot.chan) : bot.chan[k] \in Event /\ bot.chan[k].id \in Ids
         /\ \A i \in Ids : result[i] \in Seq(Outcome) /\ Len(result[i]) \in Nat
                           /\ DOMAIN result[i] = 1..Len(result[i])
<1>1. bot.chan \in Seq(Event) /\ bot.stream \in {"none", "listing", "live", "ended"}
      /\ bot.listing \subseteq Ids
  BY DEF ApprovalsTypeOK, BotType
<1>2. \A k \in 1..Len(bot.chan) : bot.chan[k] \in Event
  BY <1>1
<1>3. \A k \in 1..Len(bot.chan) : bot.chan[k].id \in Ids
  BY <1>2 DEF Event
<1>4. Len(bot.chan) \in Nat
  BY <1>1
<1>5. \A i \in Ids : result[i] \in Seq(Outcome)
  BY DEF ApprovalsTypeOK
<1>6. \A i \in Ids : Len(result[i]) \in Nat /\ DOMAIN result[i] = 1..Len(result[i])
  BY <1>5
<1>7. Buffer \in Nat
  BY ApprovalsAssumption
<1>8. /\ files \subseteq Ids /\ staging \subseteq Ids /\ pending \subseteq Ids
      /\ missed \subseteq Ids /\ Len(bot.chan) <= Buffer
      /\ call \in [Workers -> CallType]
      /\ \A c \in Workers : call[c].pc # "idle" => call[c].id \in Ids /\ call[c].decision \in Decisions
  BY DEF ApprovalsTypeOK
<1> QED
  BY <1>1, <1>2, <1>3, <1>4, <1>5, <1>6, <1>7, <1>8

(* What Emit does: the event is sent, lost, or nobody listens.               *)
Sent(e) == /\ Subscribed /\ missed' = missed
           /\ bot'.stream = bot.stream /\ bot'.listing = bot.listing
           /\ bot'.chan = Append(bot.chan, e)
Lost(e) == Subscribed /\ bot' = bot /\ missed' = missed \union {e.id}
Unheard == ~Subscribed /\ bot' = bot /\ missed' = missed

LEMMA EmitEffect ==
  ASSUME ApprovalsTypeOK, NEW e \in Event, Emit(e)
  PROVE  /\ Sent(e) \/ Lost(e) \/ Unheard
         /\ bot' \in BotType /\ Len(bot'.chan) <= Buffer /\ missed' \subseteq Ids
<1>1. bot \in BotType /\ Len(bot.chan) \in Nat /\ Len(bot.chan) <= Buffer /\ missed \subseteq Ids
      /\ Buffer \in Nat /\ bot.chan \in Seq(Event) /\ e.id \in Ids
  BY Typed DEF ApprovalsTypeOK, Event
<1>2. CASE ~Subscribed
  BY <1>1, <1>2 DEF Emit, Unheard
<1>3. CASE Subscribed /\ Len(bot.chan) < Buffer
  <2>1. missed' = missed /\ bot' = [bot EXCEPT !.chan = Append(bot.chan, e)]
    BY <1>3 DEF Emit
  <2>2. Append(bot.chan, e) \in Seq(Event) /\ Len(Append(bot.chan, e)) = Len(bot.chan) + 1
    BY <1>1, AppendOne
  <2>3. /\ bot'.stream = bot.stream /\ bot'.listing = bot.listing
        /\ bot'.chan = Append(bot.chan, e) /\ bot' \in BotType
    BY <1>1, <2>1, <2>2 DEF BotType
  <2>4. Len(bot'.chan) <= Buffer
    BY <1>1, <1>3, <2>2, <2>3
  <2> QED
    BY <1>1, <1>3, <2>1, <2>3, <2>4 DEF Sent
<1>4. CASE Subscribed /\ ~(Len(bot.chan) < Buffer)
  BY <1>1, <1>4 DEF Emit, Lost
<1> QED
  BY <1>2, <1>3, <1>4

(* The event that is read, and what is left.                                 *)
LEMMA ReadEffect ==
  ASSUME ApprovalsTypeOK, ReadEvent
  PROVE  /\ bot' \in BotType /\ Len(bot'.chan) <= Buffer
         /\ bot'.stream = bot.stream /\ bot'.listing = bot.listing
         /\ 1 \in 1..Len(bot.chan) /\ Head(bot.chan) = bot.chan[1] /\ bot.chan[1].id \in Ids
         /\ Len(bot'.chan) = Len(bot.chan) - 1
         /\ \A k \in 1..Len(bot'.chan) : k + 1 \in 1..Len(bot.chan) /\ bot'.chan[k] = bot.chan[k + 1]
<1>1. bot \in BotType /\ bot.chan \in Seq(Event) /\ Len(bot.chan) \in Nat /\ Len(bot.chan) <= Buffer
      /\ Buffer \in Nat
  BY Typed DEF ApprovalsTypeOK
<1>2. bot.chan # <<>> /\ bot' = [bot EXCEPT !.chan = Tail(bot.chan)]
  BY DEF ReadEvent
<1>3. /\ Tail(bot.chan) \in Seq(Event) /\ Len(Tail(bot.chan)) = Len(bot.chan) - 1
      /\ \A k \in 1..Len(Tail(bot.chan)) : Tail(bot.chan)[k] = bot.chan[k + 1]
  BY <1>1, <1>2, HeadTailProperties
<1>4. /\ bot'.chan = Tail(bot.chan) /\ bot'.stream = bot.stream /\ bot'.listing = bot.listing
      /\ bot' \in BotType
  BY <1>1, <1>2, <1>3 DEF BotType
<1>5. 1 \in 1..Len(bot.chan)
  BY <1>1, <1>2, EmptySeq
<1>6. bot.chan[1].id \in Ids
  BY <1>5, Typed
<1>7. Len(bot'.chan) = Len(bot.chan) - 1 /\ Len(bot'.chan) <= Buffer
  BY <1>1, <1>3, <1>4
<1>8. \A k \in 1..Len(bot'.chan) : k + 1 \in 1..Len(bot.chan) /\ bot'.chan[k] = bot.chan[k + 1]
  BY <1>1, <1>3, <1>4
<1>9. Head(bot.chan) = bot.chan[1]
  OBVIOUS
<1> QED
  BY <1>4, <1>5, <1>6, <1>7, <1>8, <1>9

(* What the bot makes of an event: a card, or the end of one.                *)
LEMMA ShowEffect ==
  ASSUME NEW i \in Ids, ShowCard(i)
  PROVE  /\ pending \subseteq pending' /\ pending' \subseteq pending \union {i}
         /\ missed \subseteq missed' /\ missed' \subseteq missed \union {i}
         /\ i \in pending' \union missed'
         /\ live' \subseteq live \union {i} /\ slipped' \subseteq slipped \union {i}
         /\ slipped \subseteq slipped' /\ live' \subseteq live \union pending' \union slipped'
BY DEF ShowCard

LEMMA ResolveEffect ==
  ASSUME ApprovalsTypeOK, NEW e \in Event, Resolve(e)
  PROVE  /\ pending' = pending \ {e.id} /\ missed' = missed
         /\ live' \subseteq live /\ slipped \subseteq slipped' /\ slipped' \subseteq slipped \union {e.id}
         /\ e.id \in pending /\ e.id \in live' => e.id \in slipped'
         /\ \A i \in Ids : shown'[i] # shown[i] => i = e.id /\ shown'[i] = Resolution(e)
         /\ shown' \in [Ids -> {"nothing", "approved", "skipped", "denied", "failed"}]
<1>1. e.id \in Ids
  BY DEF Event
<1>2. Resolution(e) \in {"nothing", "approved", "skipped", "denied", "failed"}
  BY DEF Resolution
<1>3. shown \in [Ids -> {"nothing", "approved", "skipped", "denied", "failed"}]
  BY DEF ApprovalsTypeOK
<1>4. shown' = shown \/ shown' = [shown EXCEPT ![e.id] = Resolution(e)]
  BY DEF Resolve
<1>5. /\ \A i \in Ids : shown'[i] # shown[i] => i = e.id /\ shown'[i] = Resolution(e)
      /\ shown' \in [Ids -> {"nothing", "approved", "skipped", "denied", "failed"}]
  BY <1>1, <1>2, <1>3, <1>4
<1> QED
  BY <1>5 DEF Resolve

LEMMA ReadSplit ==
  ASSUME ApprovalsTypeOK, ReadEvent
  PROVE  /\ Head(bot.chan) = bot.chan[1] /\ bot.chan[1] \in Event /\ bot.chan[1].id \in Ids
         /\ \/ bot.chan[1].type = "created" /\ ShowCard(bot.chan[1].id) /\ shown' = shown
            \/ bot.chan[1].type = "removed" /\ Resolve(bot.chan[1])
BY ReadEffect, Typed DEF ReadEvent

(* What the steps make of a caller.                                          *)
LEMMA CallTypes ==
  ASSUME ApprovalsTypeOK, NEW c \in Workers, NEW new \in CallType,
         new.pc # "idle" => new.id \in Ids /\ new.decision \in Decisions,
         call' = [call EXCEPT ![c] = new]
  PROVE  /\ call' \in [Workers -> CallType]
         /\ \A b \in Workers : call'[b].pc # "idle" => call'[b].id \in Ids /\ call'[b].decision \in Decisions
         /\ call'[c] = new /\ \A b \in Workers : b # c => call'[b] = call[b]
BY Typed

LEMMA BeginEffect ==
  ASSUME ApprovalsTypeOK, NEW c \in Workers, NEW i \in Ids, NEW d \in Decisions, BeginDecide(c, i, d)
  PROVE  /\ call' \in [Workers -> CallType]
         /\ \A b \in Workers : call'[b].pc # "idle" => call'[b].id \in Ids /\ call'[b].decision \in Decisions
         /\ \A b \in Workers : call'[b] = call[b] \/
              (b = c /\ call[b].pc = "idle" /\ call'[b].pc = "loaded")
<1> DEFINE new == [NoCall EXCEPT !.pc = "loaded", !.id = i, !.decision = d]
<1>1. /\ new \in CallType /\ new.pc = "loaded" /\ new.id = i /\ new.decision = d
      /\ call' = [call EXCEPT ![c] = new] /\ call[c].pc = "idle"
  BY RecordTypes DEF BeginDecide, NoCall, CallType
<1> HIDE DEF new
<1> QED
  BY <1>1, CallTypes

LEMMA ApprovalsTypeStep == ApprovalsTypeOK /\ [ApprovalsNext]_approvalVars => ApprovalsTypeOK'
<1> SUFFICES ASSUME ApprovalsTypeOK, [ApprovalsNext]_approvalVars PROVE ApprovalsTypeOK'
  OBVIOUS
<1> USE DEF daemonVars, botVars, chatVars
<1>w. \A c \in Workers : call[c] \in CallType /\
        (call[c].pc # "idle" => call[c].id \in Ids /\ call[c].decision \in Decisions)
  BY Typed
<1>1. ASSUME NEW i \in Ids, Stage(i) \/ Save(i) PROVE ApprovalsTypeOK'
  BY <1>1 DEF Stage, Save, ApprovalsTypeOK
<1>2. ASSUME NEW i \in Ids, Announce(i) PROVE ApprovalsTypeOK'
  BY <1>2, EmitEffect, RecordTypes DEF Announce, ApprovalsTypeOK
<1>3. ASSUME NEW c \in Workers, NEW i \in Ids, NEW d \in Decisions, DecideOverHTTP(c, i, d)
      PROVE  ApprovalsTypeOK'
  BY <1>3, BeginEffect DEF DecideOverHTTP, ApprovalsTypeOK
<1>4. ASSUME NEW c \in Workers, Claim(c) PROVE ApprovalsTypeOK'
  <2>1. PICK new \in CallType : /\ call' = [call EXCEPT ![c] = new]
                                /\ new.pc # "idle" => new.id \in Ids /\ new.decision \in Decisions
    <3>1. CASE call[c].id \in files \ Leftover
      <4>1. /\ [call[c] EXCEPT !.pc = "claimed"] \in CallType
            /\ [call[c] EXCEPT !.pc = "claimed"].id \in Ids
            /\ [call[c] EXCEPT !.pc = "claimed"].decision \in Decisions
            /\ call' = [call EXCEPT ![c] = [call[c] EXCEPT !.pc = "claimed"]]
        BY <1>4, <1>w, <3>1, Typed DEF Claim, CallType
      <4> QED
        BY <4>1
    <3>2. CASE call[c].id \notin files \ Leftover
      BY <1>4, <3>2, RecordTypes DEF Claim
    <3> QED
      BY <3>1, <3>2
  <2> QED
    BY <1>4, <2>1, CallTypes DEF Claim, ApprovalsTypeOK
<1>5. ASSUME NEW c \in Workers, Handle(c) PROVE ApprovalsTypeOK'
  <2> DEFINE i == call[c].id
             d == call[c].decision
  <2>1. PICK f \in BOOLEAN :
          /\ staging' = IF f THEN staging ELSE staging \ {i}
          /\ result' = [result EXCEPT ![i] = Append(@, [decision |-> d, failed |-> f])]
          /\ call' = [call EXCEPT ![c].pc = "handled", ![c].failed = f]
    BY <1>5 DEF Handle
  <2>2. call[c].pc # "idle" /\ i \in Ids /\ d \in Decisions
    BY <1>5, <1>w DEF Handle
  <2> DEFINE new == [call[c] EXCEPT !.pc = "handled", !.failed = f]
  <2>3. /\ new \in CallType /\ new.id = i /\ new.decision = d
        /\ call' = [call EXCEPT ![c] = new]
    BY <1>w, <2>1, Typed DEF CallType
  <2>4. [decision |-> d, failed |-> f] \in Outcome
    BY <2>2 DEF Outcome
  <2>5. result' \in [Ids -> Seq(Outcome)]
    <3>1. Append(result[i], [decision |-> d, failed |-> f]) \in Seq(Outcome)
      BY <2>2, <2>4, Typed, AppendOne
    <3>2. result \in [Ids -> Seq(Outcome)]
      BY DEF ApprovalsTypeOK
    <3> QED
      BY <2>1, <3>1, <3>2
  <2> HIDE DEF new, i, d
  <2>6. /\ call' \in [Workers -> CallType]
        /\ \A b \in Workers : call'[b].pc # "idle" => call'[b].id \in Ids /\ call'[b].decision \in Decisions
    BY <2>2, <2>3, CallTypes
  <2>7. staging' \subseteq staging
    BY <2>1
  <2> QED
    BY <1>5, <2>5, <2>6, <2>7 DEF Handle, ApprovalsTypeOK
<1>6. ASSUME NEW c \in Workers, AnnounceRemoval(c) PROVE ApprovalsTypeOK'
  <2>1. RemovedEvent(call[c].id, call[c].decision, call[c].failed) \in Event
    BY <1>6, <1>w, RecordTypes DEF AnnounceRemoval, CallType
  <2>2. /\ bot' \in BotType /\ Len(bot'.chan) <= Buffer /\ missed' \subseteq Ids
    BY <1>6, <2>1, EmitEffect DEF AnnounceRemoval
  <2>3. call' = [call EXCEPT ![c] = NoCall]
    BY <1>6 DEF AnnounceRemoval
  <2>4. /\ call' \in [Workers -> CallType]
        /\ \A b \in Workers : call'[b].pc # "idle" => call'[b].id \in Ids /\ call'[b].decision \in Decisions
    BY <2>3, RecordTypes, CallTypes
  <2> QED
    BY <1>6, <2>2, <2>4 DEF AnnounceRemoval, ApprovalsTypeOK
<1>7. ASSUME NEW i \in Ids, Expire(i) PROVE ApprovalsTypeOK'
  BY <1>7 DEF Expire, ApprovalsTypeOK
<1>8. CASE Sweep
  BY <1>8 DEF Sweep, ApprovalsTypeOK
<1>9. ASSUME NEW i \in Ids, DenyExpired(i) PROVE ApprovalsTypeOK'
  <2>1. Maintenance \in Workers /\ "deny" \in Decisions
    BY ApprovalsAssumption DEF Workers
  <2>2. /\ call' \in [Workers -> CallType]
        /\ \A b \in Workers : call'[b].pc # "idle" => call'[b].id \in Ids /\ call'[b].decision \in Decisions
    BY <1>9, <2>1, BeginEffect DEF DenyExpired, ApprovalsTypeOK
  <2> QED
    BY <1>9, <2>2 DEF DenyExpired, ApprovalsTypeOK
<1>10. CASE Connect
  <2>f. files \subseteq Ids /\ <<>> \in Seq(Event)
    BY Typed, EmptySeq
  <2>1. /\ \E l \in SUBSET Ids : bot' = [stream |-> "listing", listing |-> l, chan |-> <<>>]
        /\ missed' \subseteq Ids
    BY <1>10, <2>f DEF Connect
  <2>2. connects' \in 0..MaxConnects
    BY <1>10, ApprovalsAssumption DEF Connect, ApprovalsTypeOK
  <2>3. pending' \subseteq Ids /\ slipped' \subseteq Ids
    BY <1>10 DEF Connect, ApprovalsTypeOK
  <2>4. bot' \in BotType /\ Len(bot'.chan) <= Buffer
    BY <2>f, <2>1, ApprovalsAssumption DEF BotType
  <2> QED
    BY <1>10, <2>1, <2>2, <2>3, <2>4 DEF Connect, ApprovalsTypeOK
<1>11. ASSUME NEW i \in Ids, Rehydrate(i) PROVE ApprovalsTypeOK'
  <2>1. bot' \in BotType /\ bot'.chan = bot.chan
    BY <1>11 DEF Rehydrate, ApprovalsTypeOK, BotType
  <2>2. pending' \subseteq Ids /\ missed' \subseteq Ids /\ live' \subseteq Ids /\ slipped' \subseteq Ids
    BY <1>11, ShowEffect DEF Rehydrate, ApprovalsTypeOK
  <2> QED
    BY <1>11, <2>1, <2>2 DEF Rehydrate, ApprovalsTypeOK
<1>12. CASE GoLive
  BY <1>12 DEF GoLive, ApprovalsTypeOK, BotType
<1>13. CASE ReadEvent
  <2>1. /\ bot' \in BotType /\ Len(bot'.chan) <= Buffer
    BY <1>13, ReadEffect
  <2>2. /\ pending' \subseteq Ids /\ missed' \subseteq Ids /\ live' \subseteq Ids /\ slipped' \subseteq Ids
        /\ shown' \in [Ids -> {"nothing", "approved", "skipped", "denied", "failed"}]
    BY <1>13, ReadSplit, ShowEffect, ResolveEffect DEF ApprovalsTypeOK
  <2> QED
    BY <1>13, <2>1, <2>2 DEF ReadEvent, ApprovalsTypeOK
<1>14. CASE DaemonCrash
  <2>1. PICK n \in 0..Len(bot.chan) :
          bot' = [stream |-> IF bot.stream = "none" THEN "none" ELSE "ended",
                  listing |-> {}, chan |-> SubSeq(bot.chan, 1, n)]
    BY <1>14 DEF DaemonCrash
  <2>2. SubSeq(bot.chan, 1, n) \in Seq(Event) /\ Len(SubSeq(bot.chan, 1, n)) = n
    BY Typed
  <2>3. bot' \in BotType /\ bot'.chan = SubSeq(bot.chan, 1, n)
    BY <2>1, <2>2 DEF BotType
  <2>4. Len(bot'.chan) <= Buffer
    BY <2>2, <2>3, Typed
  <2>5. call' \in [Workers -> CallType] /\ \A b \in Workers : call'[b].pc = "idle"
    BY <1>14, Typed, RecordTypes DEF DaemonCrash
  <2>6. create' \in [Ids -> {"new", "staged", "saved", "unannounced", "done", "late", "refused", "cut"}]
    BY <1>14 DEF DaemonCrash, ApprovalsTypeOK
  <2>7. crashes' \in 0..MaxCrashes
    BY <1>14, ApprovalsAssumption DEF DaemonCrash, ApprovalsTypeOK
  <2> QED
    BY <1>14, <2>3, <2>4, <2>5, <2>6, <2>7 DEF DaemonCrash, ApprovalsTypeOK
<1>15. CASE UNCHANGED approvalVars
  BY <1>15 DEF approvalVars, ApprovalsTypeOK
<1> QED
  BY <1>1, <1>2, <1>3, <1>4, <1>5, <1>6, <1>7, <1>8, <1>9, <1>10, <1>11, <1>12, <1>13, <1>14, <1>15,
     Typed
  DEF ApprovalsNext, Creating, Deciding, CallStep, Expiring, BotStep, Workers

-----------------------------------------------------------------------------
(* The claim *)

(* What one run of the handler leaves: one more outcome, for its approval.   *)
LEMMA HandleEffect ==
  ASSUME ApprovalsTypeOK, NEW c \in Workers, Handle(c)
  PROVE  LET i == call[c].id
             d == call[c].decision
         IN /\ call[c].pc = "claimed" /\ i \in Ids
            /\ \E f \in BOOLEAN :
                 /\ staging' = IF f THEN staging ELSE staging \ {i}
                 /\ call'[c] = [call[c] EXCEPT !.pc = "handled", !.failed = f]
                 /\ call'[c].pc = "handled" /\ call'[c].id = i /\ call'[c].decision = d
                 /\ call'[c].failed = f
                 /\ Len(result'[i]) = Len(result[i]) + 1
                 /\ result'[i][Len(result[i]) + 1] = [decision |-> d, failed |-> f]
                 /\ \A k \in 1..Len(result[i]) : result'[i][k] = result[i][k]
                 /\ DOMAIN result'[i] = 1..(Len(result[i]) + 1)
            /\ \A j \in Ids : j # i => result'[j] = result[j]
            /\ \A b \in Workers : b # c => call'[b] = call[b]
<1> DEFINE i == call[c].id
           d == call[c].decision
<1>1. PICK f \in BOOLEAN :
        /\ staging' = IF f THEN staging ELSE staging \ {i}
        /\ result' = [result EXCEPT ![i] = Append(@, [decision |-> d, failed |-> f])]
        /\ call' = [call EXCEPT ![c].pc = "handled", ![c].failed = f]
  BY DEF Handle
<1>2. call[c].pc = "claimed" /\ i \in Ids /\ d \in Decisions /\ call[c] \in CallType
  BY Typed DEF Handle
<1>3. [decision |-> d, failed |-> f] \in Outcome
  BY <1>2 DEF Outcome
<1>4. /\ Append(result[i], [decision |-> d, failed |-> f]) \in Seq(Outcome)
      /\ Len(Append(result[i], [decision |-> d, failed |-> f])) = Len(result[i]) + 1
      /\ \A k \in 1..Len(result[i]) :
           Append(result[i], [decision |-> d, failed |-> f])[k] = result[i][k]
      /\ Append(result[i], [decision |-> d, failed |-> f])[Len(result[i]) + 1]
           = [decision |-> d, failed |-> f]
  BY <1>2, <1>3, Typed, AppendOne
<1>5. result \in [Ids -> Seq(Outcome)]
  BY DEF ApprovalsTypeOK
<1>6. /\ result'[i] = Append(result[i], [decision |-> d, failed |-> f])
      /\ \A j \in Ids : j # i => result'[j] = result[j]
  BY <1>1, <1>2, <1>5
<1>7. DOMAIN result'[i] = 1..(Len(result[i]) + 1)
  BY <1>4, <1>6, LenProperties
<1>8. /\ call'[c] = [call[c] EXCEPT !.pc = "handled", !.failed = f]
      /\ \A b \in Workers : b # c => call'[b] = call[b]
  BY <1>1, Typed
<1>9. call'[c].pc = "handled" /\ call'[c].id = i /\ call'[c].decision = d /\ call'[c].failed = f
  BY <1>2, <1>8 DEF CallType
<1> QED
  BY <1>1, <1>2, <1>4, <1>6, <1>7, <1>8, <1>9

(* What was handled stays so.                                                *)
LEMMA HandledStays ==
  ASSUME ApprovalsTypeOK, [ApprovalsNext]_approvalVars, NEW i \in Ids, NEW r,
         \E k \in DOMAIN result[i] : result[i][k] = r
  PROVE  \E k \in DOMAIN result'[i] : result'[i][k] = r
<1>1. CASE result' = result
  BY <1>1
<1>2. ASSUME NEW c \in Workers, Handle(c) PROVE \E k \in DOMAIN result'[i] : result'[i][k] = r
  <2>1. PICK k \in 1..Len(result[i]) : result[i][k] = r
    BY Typed
  <2>2. Len(result[i]) \in Nat
    BY Typed
  <2>3. CASE i = call[c].id
    <3>1. /\ DOMAIN result'[i] = 1..(Len(result[i]) + 1)
          /\ \A n \in 1..Len(result[i]) : result'[i][n] = result[i][n]
      BY <1>2, <2>3, HandleEffect
    <3> QED
      BY <2>1, <2>2, <3>1
  <2>4. CASE i # call[c].id
    <3>1. result'[i] = result[i]
      BY <1>2, <2>4, HandleEffect
    <3> QED
      BY <3>1
  <2> QED
    BY <2>3, <2>4
<1> QED
  BY <1>1, <1>2, Typed
  DEF ApprovalsNext, Creating, Deciding, CallStep, Expiring, BotStep, Stage, Save, Announce,
    DecideOverHTTP, Claim, AnnounceRemoval, Expire, Sweep, DenyExpired, Connect, Rehydrate,
    GoLive, ReadEvent, DaemonCrash, approvalVars, daemonVars, botVars, chatVars

(* A caller that stays as it was still tells the truth.                      *)
LEMMA TruthStays ==
  ASSUME ApprovalsTypeOK, [ApprovalsNext]_approvalVars, NEW c \in Workers, TellsTrue(c),
         call'[c] = call[c] \/ call'[c].pc # "handled"
  PROVE  TellsTrue(c)'
<1> SUFFICES ASSUME call'[c].pc = "handled"
             PROVE  \E k \in DOMAIN result'[call'[c].id] :
                      result'[call'[c].id][k] = [decision |-> call'[c].decision, failed |-> call'[c].failed]
  BY DEF TellsTrue, Handled
<1>1. call'[c] = call[c] /\ call[c].id \in Ids
  BY Typed
<1>2. \E k \in DOMAIN result[call[c].id] :
        result[call[c].id][k] = [decision |-> call[c].decision, failed |-> call[c].failed]
  BY <1>1 DEF TellsTrue, Handled
<1>3. \E k \in DOMAIN result'[call[c].id] :
        result'[call[c].id][k] = [decision |-> call[c].decision, failed |-> call[c].failed]
  BY <1>1, <1>2, HandledStays
<1> QED
  BY <1>1, <1>3

LEMMA ClaimStep == ApprovalsTypeOK /\ ClaimInv /\ [ApprovalsNext]_approvalVars => ClaimInv'
<1> SUFFICES ASSUME ApprovalsTypeOK, ClaimInv, [ApprovalsNext]_approvalVars PROVE ClaimInv'
  OBVIOUS
<1> USE DEF daemonVars, botVars, chatVars
<1>inv. /\ \A i \in Ids :
             /\ Len(result[i]) <= 1
             /\ create[i] \in {"new", "staged"} =>
                  i \notin files /\ result[i] = <<>> /\ \A c \in Workers : ~Claims(c, i)
             /\ i \in files => result[i] = <<>> /\ \A c \in Workers : ~Claims(c, i)
        /\ \A i \in Ids, c \in Workers : Claims(c, i) =>
             result[i] = <<>> /\ \A b \in Workers : Claims(b, i) => b = c
        /\ \A c \in Workers : TellsTrue(c)
  BY DEF ClaimInv
<1>c. create \in [Ids -> {"new", "staged", "saved", "unannounced", "done", "late", "refused", "cut"}]
      /\ \A c \in Workers : call[c].pc # "idle" => call[c].id \in Ids
  BY DEF ApprovalsTypeOK
(* Steps that add no file, make no claim and run no handler.                 *)
<1>1. ASSUME files' \subseteq files, result' = result,
             \A c \in Workers : call'[c] = call[c] \/ call'[c].pc \in {"idle", "loaded"},
             \A i \in Ids : create'[i] \in {"new", "staged"} => create[i] \in {"new", "staged"}
      PROVE  ClaimInv'
  <2>1. \A c \in Workers, i \in Ids : Claims(c, i)' => Claims(c, i)
    BY <1>1 DEF Claims
  <2>2. \A c \in Workers : call'[c] = call[c] \/ call'[c].pc # "handled"
    BY <1>1
  <2>3. \A c \in Workers : TellsTrue(c)'
    BY <1>inv, <2>2, TruthStays
  <2>4. \A i \in Ids :
          /\ Len(result'[i]) <= 1
          /\ create'[i] \in {"new", "staged"} =>
               i \notin files' /\ result'[i] = <<>> /\ \A c \in Workers : ~Claims(c, i)'
          /\ i \in files' => result'[i] = <<>> /\ \A c \in Workers : ~Claims(c, i)'
    BY <1>1, <1>inv, <2>1
  <2>5. \A i \in Ids, c \in Workers : Claims(c, i)' =>
          result'[i] = <<>> /\ \A b \in Workers : Claims(b, i)' => b = c
    BY <1>1, <1>inv, <2>1
  <2> QED
    BY <2>3, <2>4, <2>5 DEF ClaimInv
<1>2. ASSUME NEW i \in Ids, Stage(i) PROVE ClaimInv'
  BY <1>1, <1>2, <1>c DEF Stage
<1>3. ASSUME NEW i \in Ids, Save(i) PROVE ClaimInv'
  <2>1. create[i] = "staged" /\ call' = call /\ result' = result
    BY <1>3 DEF Save
  <2>2. \A j \in Ids : j # i => create'[j] = create[j]
    BY <1>3, <1>c DEF Save
  <2>3. create'[i] \in {"saved", "unannounced", "refused"} /\ files' \subseteq files \union {i}
    BY <1>3, <1>c DEF Save
  <2>4. i \notin files /\ result[i] = <<>> /\ \A c \in Workers : ~Claims(c, i)
    BY <1>inv, <2>1
  <2>5. \A j \in Ids : j \in files' => j \in files \/ j = i
    BY <2>3
  <2>6. \A j \in Ids, c \in Workers : Claims(c, j)' <=> Claims(c, j)
    BY <2>1 DEF Claims
  <2>7. \A j \in Ids :
          /\ Len(result'[j]) <= 1
          /\ create'[j] \in {"new", "staged"} =>
               j \notin files' /\ result'[j] = <<>> /\ \A c \in Workers : ~Claims(c, j)'
          /\ j \in files' => result'[j] = <<>> /\ \A c \in Workers : ~Claims(c, j)'
    BY <1>inv, <2>1, <2>2, <2>3, <2>4, <2>5, <2>6
  <2>8. \A c \in Workers : TellsTrue(c)'
    BY <1>inv, <2>1, TruthStays
  <2>9. \A j \in Ids, c \in Workers : Claims(c, j)' =>
          result'[j] = <<>> /\ \A b \in Workers : Claims(b, j)' => b = c
    BY <1>inv, <2>1, <2>6
  <2> QED
    BY <2>7, <2>8, <2>9 DEF ClaimInv
<1>4. ASSUME NEW i \in Ids, Announce(i) PROVE ClaimInv'
  BY <1>1, <1>4, <1>c DEF Announce
<1>5. ASSUME NEW c \in Workers, NEW i \in Ids, NEW d \in Decisions, DecideOverHTTP(c, i, d)
      PROVE  ClaimInv'
  <2>1. \A b \in Workers : call'[b] = call[b] \/ call'[b].pc = "loaded"
    BY <1>5, BeginEffect DEF DecideOverHTTP
  <2> QED
    BY <1>1, <1>5, <2>1 DEF DecideOverHTTP
<1>6. ASSUME NEW c \in Workers, Claim(c) PROVE ClaimInv'
  <2> DEFINE i == call[c].id
  <2>1. /\ call[c].pc = "loaded" /\ files' = files \ {i} /\ UNCHANGED <<create, result>>
        /\ i \in Ids /\ call[c] \in CallType
    BY <1>6, Typed DEF Claim
  <2>2. CASE i \notin files \ Leftover
    <3>1. call' = [call EXCEPT ![c] = NoCall]
      BY <1>6, <2>2 DEF Claim
    <3>2. \A b \in Workers : call'[b] = call[b] \/ call'[b].pc = "idle"
      BY <3>1, RecordTypes, Typed
    <3> QED
      BY <1>1, <2>1, <3>2
  <2>3. CASE i \in files \ Leftover
    <3>1. call' = [call EXCEPT ![c].pc = "claimed"]
      BY <1>6, <2>3 DEF Claim
    <3>2. /\ call'[c].id = i /\ call'[c].pc = "claimed"
          /\ \A b \in Workers : b # c => call'[b] = call[b]
      BY <2>1, <3>1, Typed DEF CallType
    <3>3. result[i] = <<>> /\ \A b \in Workers : ~Claims(b, i)
      BY <1>inv, <2>1, <2>3
    <3>4. create[i] \notin {"new", "staged"}
      BY <1>inv, <2>1, <2>3
    <3>5. \A b \in Workers, j \in Ids : Claims(b, j)' <=> Claims(b, j) \/ (b = c /\ j = i)
      BY <2>1, <3>2 DEF Claims
    <3>6. \A j \in Ids :
            /\ Len(result'[j]) <= 1
            /\ create'[j] \in {"new", "staged"} =>
                 j \notin files' /\ result'[j] = <<>> /\ \A b \in Workers : ~Claims(b, j)'
            /\ j \in files' => result'[j] = <<>> /\ \A b \in Workers : ~Claims(b, j)'
      BY <1>inv, <2>1, <3>4, <3>5
    <3>7. \A j \in Ids, b \in Workers : Claims(b, j)' =>
            result'[j] = <<>> /\ \A a \in Workers : Claims(a, j)' => a = b
      BY <1>inv, <2>1, <3>3, <3>5
    <3>8. \A b \in Workers : call'[b] = call[b] \/ call'[b].pc # "handled"
      BY <3>2
    <3>9. \A b \in Workers : TellsTrue(b)'
      BY <1>inv, <3>8, TruthStays
    <3> QED
      BY <3>6, <3>7, <3>9 DEF ClaimInv
  <2> QED
    BY <2>2, <2>3
<1>7. ASSUME NEW c \in Workers, Handle(c) PROVE ClaimInv'
  <2>1. PICK i \in Ids : i = call[c].id
    BY <1>7, HandleEffect
  <2>2. PICK d : d = call[c].decision
    OBVIOUS
  <2>3. /\ call[c].pc = "claimed"
        /\ \A j \in Ids : j # i => result'[j] = result[j]
        /\ \A b \in Workers : b # c => call'[b] = call[b]
    BY <1>7, <2>1, HandleEffect
  <2>4. PICK f \in BOOLEAN :
          /\ call'[c].pc = "handled" /\ call'[c].id = i /\ call'[c].decision = d
          /\ call'[c].failed = f
          /\ Len(result'[i]) = Len(result[i]) + 1
          /\ result'[i][Len(result[i]) + 1] = [decision |-> d, failed |-> f]
          /\ DOMAIN result'[i] = 1..(Len(result[i]) + 1)
    BY <1>7, <2>1, <2>2, HandleEffect
  <2>5. UNCHANGED <<files, create>>
    BY <1>7 DEF Handle
  <2>6. /\ result[i] = <<>> /\ i \notin files /\ create[i] \notin {"new", "staged"}
        /\ \A b \in Workers : Claims(b, i) => b = c
    BY <1>inv, <2>1, <2>3 DEF Claims
  <2>7. Len(result'[i]) = 1 /\ Len(result[i]) = 0
    BY <2>4, <2>6
  <2>8. \A b \in Workers, j \in Ids : Claims(b, j)' => Claims(b, j) /\ b # c
    BY <2>3, <2>4 DEF Claims
  <2>9. \A b \in Workers : ~Claims(b, i)'
    BY <2>6, <2>8
  <2>10. ASSUME NEW b \in Workers PROVE TellsTrue(b)'
    <3>1. CASE b = c
      <4>1. 1 \in DOMAIN result'[i] /\ result'[i][1] = [decision |-> d, failed |-> f]
        BY <2>4, <2>7
      <4> QED
        BY <2>4, <3>1, <4>1 DEF TellsTrue, Handled
    <3>2. CASE b # c
      BY <1>inv, <2>3, <3>2, TruthStays
    <3> QED
      BY <3>1, <3>2
  <2>11. ASSUME NEW j \in Ids
         PROVE  /\ Len(result'[j]) <= 1
                /\ create'[j] \in {"new", "staged"} =>
                     j \notin files' /\ result'[j] = <<>> /\ \A b \in Workers : ~Claims(b, j)'
                /\ j \in files' => result'[j] = <<>> /\ \A b \in Workers : ~Claims(b, j)'
    <3>1. CASE j = i
      <4>1. Len(result'[i]) <= 1
        BY <2>7
      <4>2. create'[i] \notin {"new", "staged"} /\ i \notin files'
        BY <2>5, <2>6
      <4> QED
        BY <3>1, <4>1, <4>2
    <3>2. CASE j # i
      <4>1. result'[j] = result[j] /\ create'[j] = create[j] /\ (j \in files' <=> j \in files)
        BY <2>3, <2>5, <3>2
      <4>2. \A b \in Workers : Claims(b, j)' => Claims(b, j)
        BY <2>8
      <4> QED
        BY <1>inv, <4>1, <4>2
    <3> QED
      BY <3>1, <3>2
  <2>12. \A j \in Ids, b \in Workers : Claims(b, j)' =>
           result'[j] = <<>> /\ \A a \in Workers : Claims(a, j)' => a = b
    BY <1>inv, <2>3, <2>8, <2>9
  <2> QED
    BY <2>10, <2>11, <2>12 DEF ClaimInv
<1>8. ASSUME NEW c \in Workers, AnnounceRemoval(c) PROVE ClaimInv'
  <2>1. \A b \in Workers : call'[b] = call[b] \/ call'[b].pc = "idle"
    BY <1>8, RecordTypes, Typed DEF AnnounceRemoval
  <2> QED
    BY <1>1, <1>8, <2>1 DEF AnnounceRemoval
<1>9. ASSUME NEW i \in Ids, DenyExpired(i) PROVE ClaimInv'
  <2>1. Maintenance \in Workers /\ "deny" \in Decisions
    BY ApprovalsAssumption DEF Workers
  <2>2. \A b \in Workers : call'[b] = call[b] \/ call'[b].pc = "loaded"
    BY <1>9, <2>1, BeginEffect DEF DenyExpired
  <2> QED
    BY <1>1, <1>9, <2>2 DEF DenyExpired
<1>10. CASE DaemonCrash
  <2>1. \A b \in Workers : call'[b].pc = "idle"
    BY <1>10, RecordTypes, Typed DEF DaemonCrash
  <2>2. \A i \in Ids : create'[i] \in {"new", "staged"} => create[i] \in {"new", "staged"}
    BY <1>10, <1>c DEF DaemonCrash
  <2> QED
    BY <1>1, <1>10, <2>1, <2>2 DEF DaemonCrash
<1>11. CASE UNCHANGED <<files, create, call, result>>
  BY <1>1, <1>11
<1> QED
  BY <1>2, <1>3, <1>4, <1>5, <1>6, <1>7, <1>8, <1>9, <1>10, <1>11, Typed
  DEF ApprovalsNext, Creating, Deciding, CallStep, Expiring, BotStep, Workers, Expire, Sweep, Connect,
    Rehydrate, GoLive, ReadEvent, approvalVars

-----------------------------------------------------------------------------
(* What the chat is told *)

LEMMA ToldStep ==
  ApprovalsTypeOK /\ ClaimInv /\ ToldInv /\ [ApprovalsNext]_approvalVars => ToldInv'
<1> SUFFICES ASSUME ApprovalsTypeOK, ClaimInv, ToldInv, [ApprovalsNext]_approvalVars PROVE ToldInv'
  OBVIOUS
<1> USE DEF daemonVars, botVars, chatVars
<1> DEFINE Was(i, d, f) == \E k \in DOMAIN result[i] : result[i][k] = [decision |-> d, failed |-> f]
           Is(i, d, f) == \E k \in DOMAIN result'[i] : result'[i][k] = [decision |-> d, failed |-> f]
<1>told. \A k \in 1..Len(bot.chan) : bot.chan[k].type = "removed" =>
           bot.chan[k].id \in Ids
           /\ Is(bot.chan[k].id, bot.chan[k].decision, bot.chan[k].failed)
  <2> SUFFICES ASSUME NEW k \in 1..Len(bot.chan), bot.chan[k].type = "removed"
               PROVE  bot.chan[k].id \in Ids
                      /\ Is(bot.chan[k].id, bot.chan[k].decision, bot.chan[k].failed)
    OBVIOUS
  <2>1. bot.chan[k].id \in Ids /\ Was(bot.chan[k].id, bot.chan[k].decision, bot.chan[k].failed)
    BY Typed DEF ToldInv, Handled
  <2> QED
    BY <2>1, HandledStays
(* What is on the way was on the way, or is no removal, or is handled.       *)
<1>1. ASSUME \A k \in 1..Len(bot'.chan) :
               \/ \E m \in 1..Len(bot.chan) : bot'.chan[k] = bot.chan[m]
               \/ bot'.chan[k].type # "removed"
               \/ Is(bot'.chan[k].id, bot'.chan[k].decision, bot'.chan[k].failed)
      PROVE  ToldInv'
  <2>1. ASSUME NEW k \in 1..Len(bot'.chan), bot'.chan[k].type = "removed"
        PROVE  Is(bot'.chan[k].id, bot'.chan[k].decision, bot'.chan[k].failed)
    <3>1. ASSUME NEW m \in 1..Len(bot.chan), bot'.chan[k] = bot.chan[m]
          PROVE  Is(bot'.chan[k].id, bot'.chan[k].decision, bot'.chan[k].failed)
      <4>1. Is(bot.chan[m].id, bot.chan[m].decision, bot.chan[m].failed)
        BY <1>told, <2>1, <3>1
      <4> HIDE DEF Is
      <4> QED
        BY <3>1, <4>1
    <3> HIDE DEF Is
    <3> QED
      BY <1>1, <2>1, <3>1
  <2> QED
    BY <2>1 DEF ToldInv, Handled
<1>2. ASSUME bot'.chan = bot.chan PROVE ToldInv'
  BY <1>1, <1>2
<1>3. ASSUME NEW e \in Event, Emit(e), e.type # "removed" \/ Is(e.id, e.decision, e.failed)
      PROVE  ToldInv'
  <2>1. CASE Sent(e)
    <3>1. /\ Len(bot'.chan) = Len(bot.chan) + 1
          /\ \A k \in 1..Len(bot.chan) : bot'.chan[k] = bot.chan[k]
          /\ bot'.chan[Len(bot.chan) + 1] = e
          /\ Len(bot.chan) \in Nat
      BY <2>1, Typed, AppendOne DEF Sent
    <3>2. \A k \in 1..Len(bot'.chan) : k \in 1..Len(bot.chan) \/ bot'.chan[k] = e
      BY <3>1
    <3> QED
      BY <1>1, <1>3, <3>1, <3>2
  <2>2. CASE Lost(e) \/ Unheard
    BY <1>2, <2>2 DEF Lost, Unheard
  <2> QED
    BY <1>3, <2>1, <2>2, EmitEffect
<1>4. ASSUME NEW i \in Ids, Announce(i) PROVE ToldInv'
  <2>1. CreatedEvent(i) \in Event /\ CreatedEvent(i).type # "removed"
    BY RecordTypes DEF CreatedEvent
  <2> QED
    BY <1>3, <1>4, <2>1 DEF Announce
<1>5. ASSUME NEW c \in Workers, AnnounceRemoval(c) PROVE ToldInv'
  <2> DEFINE e == RemovedEvent(call[c].id, call[c].decision, call[c].failed)
  <2>1. /\ call[c].pc = "handled" /\ Emit(e) /\ result' = result
        /\ call[c].id \in Ids /\ call[c].decision \in Decisions /\ call[c].failed \in BOOLEAN
    BY <1>5, Typed DEF AnnounceRemoval, CallType
  <2>2. Was(call[c].id, call[c].decision, call[c].failed)
    BY <2>1 DEF ClaimInv, TellsTrue, Handled
  <2>3. /\ e \in Event /\ e.id = call[c].id /\ e.decision = call[c].decision
        /\ e.failed = call[c].failed
    BY <2>1, RecordTypes DEF RemovedEvent
  <2>4. Is(e.id, e.decision, e.failed)
    BY <2>1, <2>2, <2>3
  <2> HIDE DEF e, Is
  <2> QED
    BY <1>3, <2>1, <2>3, <2>4
<1>6. CASE ReadEvent
  <2>1. \A k \in 1..Len(bot'.chan) : k + 1 \in 1..Len(bot.chan) /\ bot'.chan[k] = bot.chan[k + 1]
    BY <1>6, ReadEffect
  <2> QED
    BY <1>1, <2>1
<1>7. CASE DaemonCrash
  <2>1. PICK n \in 0..Len(bot.chan) : bot'.chan = SubSeq(bot.chan, 1, n)
    BY <1>7 DEF DaemonCrash
  <2>2. \A k \in 1..Len(bot'.chan) : k \in 1..Len(bot.chan) /\ bot'.chan[k] = bot.chan[k]
    BY <2>1, Typed
  <2> QED
    BY <1>1, <2>2
<1>8. CASE Connect
  <2>1. bot'.chan = <<>>
    BY <1>8 DEF Connect
  <2> QED
    BY <1>1, <2>1
<1>9. ASSUME NEW i \in Ids, Rehydrate(i) PROVE ToldInv'
  <2>1. bot'.chan = bot.chan
    BY <1>9 DEF Rehydrate, ApprovalsTypeOK, BotType
  <2> QED
    BY <1>2, <2>1
<1>10. CASE GoLive
  <2>1. bot'.chan = bot.chan
    BY <1>10 DEF GoLive, ApprovalsTypeOK, BotType
  <2> QED
    BY <1>2, <2>1
<1> QED
  BY <1>2, <1>4, <1>5, <1>6, <1>7, <1>8, <1>9, <1>10, Typed
  DEF ApprovalsNext, Creating, Deciding, CallStep, Expiring, BotStep, Stage, Save, DecideOverHTTP,
    Claim, Handle, Expire, Sweep, DenyExpired, approvalVars

(* ResolutionIsTrue with the outcome of the handler spelt out.               *)
LEMMA ResolutionStep ==
  /\ ApprovalsTypeOK /\ ToldInv /\ ResolutionIsTrue
  /\ [ApprovalsNext]_approvalVars
  => ResolutionIsTrue'
<1> SUFFICES ASSUME ApprovalsTypeOK, ToldInv, ResolutionIsTrue, [ApprovalsNext]_approvalVars,
                    NEW i \in Ids, shown'[i] # "nothing"
             PROVE  \E k \in DOMAIN result'[i] :
                      shown'[i] = IF result'[i][k].failed THEN "failed" ELSE Resolution(result'[i][k])
  BY DEF ResolutionIsTrue, Resolution
<1> USE DEF daemonVars, botVars, chatVars
<1>1. ASSUME NEW r, \E k \in DOMAIN result[i] : result[i][k] = r,
             shown'[i] = IF r.failed THEN "failed" ELSE Resolution(r)
      PROVE  \E k \in DOMAIN result'[i] :
               shown'[i] = IF result'[i][k].failed THEN "failed" ELSE Resolution(result'[i][k])
  <2>1. PICK k \in DOMAIN result'[i] : result'[i][k] = r
    BY <1>1, HandledStays
  <2> QED
    BY <1>1, <2>1
<1>2. CASE shown'[i] = shown[i]
  <2>1. PICK k \in DOMAIN result[i] :
          shown[i] = IF result[i][k].failed THEN "failed" ELSE Resolution(result[i][k])
    BY <1>2 DEF ResolutionIsTrue
  <2> QED
    BY <1>1, <1>2, <2>1
<1>3. CASE ReadEvent /\ shown'[i] # shown[i]
  <2>1. 1 \in 1..Len(bot.chan)
    BY <1>3, ReadEffect
  <2>3. /\ bot.chan[1].type = "removed" /\ bot.chan[1].id = i
        /\ shown'[i] = Resolution(bot.chan[1])
    BY <1>3, ReadSplit, ResolveEffect
  <2> DEFINE r == [decision |-> bot.chan[1].decision, failed |-> bot.chan[1].failed]
  <2>4. \E k \in DOMAIN result[i] : result[i][k] = r
    BY <2>1, <2>3 DEF ToldInv, Handled
  <2>5. shown'[i] = IF r.failed THEN "failed" ELSE Resolution(r)
    BY <2>3 DEF Resolution
  <2> HIDE DEF r
  <2> QED
    BY <1>1, <2>4, <2>5
<1> QED
  BY <1>2, <1>3, Typed
  DEF ApprovalsNext, Creating, Deciding, CallStep, Expiring, BotStep, Stage, Save, Announce,
    DecideOverHTTP, Claim, Handle, AnnounceRemoval, Expire, Sweep, DenyExpired, Connect, Rehydrate,
    GoLive, DaemonCrash, approvalVars

-----------------------------------------------------------------------------
(* What the bot knows *)

Unannounced(i) == create[i] = "saved"

Covered(i) ==
  \/ i \in pending \union missed
  \/ Unannounced(i)
  \/ i \in bot.listing
  \/ \E k \in 1..Len(bot.chan) : Created(k, i)

LEMMA HandledIsOver ==
  ASSUME ApprovalsTypeOK, ClaimInv, NEW i \in Ids, NEW d, NEW f, Handled(i, d, f)
  PROVE  i \notin files
<1>1. result[i] # <<>>
  BY Typed DEF Handled
<1> QED
  BY <1>1 DEF ClaimInv

LEMMA MissStep ==
  /\ ApprovalsTypeOK /\ ClaimInv /\ ToldInv /\ MissInv
  /\ [ApprovalsNext]_approvalVars
  => MissInv'
<1> SUFFICES ASSUME ApprovalsTypeOK, ClaimInv, ToldInv, MissInv, [ApprovalsNext]_approvalVars
             PROVE  MissInv'
  OBVIOUS
<1>t. files' \subseteq Ids
  BY ApprovalsTypeStep DEF ApprovalsTypeOK
<1> SUFFICES ASSUME Subscribed', NEW i \in Ids, i \in files'
             PROVE  Covered(i)'
  BY <1>t DEF MissInv, Covered, Unannounced
<1> USE DEF daemonVars, botVars, chatVars
<1>c. create \in [Ids -> {"new", "staged", "saved", "unannounced", "done", "late", "refused", "cut"}]
      /\ Len(bot.chan) \in Nat
  BY Typed DEF ApprovalsTypeOK
<1>m. Subscribed /\ i \in files => Covered(i)
  BY DEF MissInv, Covered, Unannounced
(* Steps that take nothing from what covers i.                               *)
<1>1. ASSUME Covered(i), pending \union missed \subseteq pending' \union missed',
             Unannounced(i) => Unannounced(i)', bot.listing \subseteq bot'.listing,
             \A k \in 1..Len(bot.chan) : k \in 1..Len(bot'.chan) /\ bot'.chan[k] = bot.chan[k]
      PROVE  Covered(i)'
  <2>1. CASE i \in pending \union missed \/ Unannounced(i) \/ i \in bot.listing
    BY <1>1, <2>1 DEF Covered
  <2>2. ASSUME NEW k \in 1..Len(bot.chan), Created(k, i) PROVE Covered(i)'
    <3>1. k \in 1..Len(bot'.chan) /\ bot'.chan[k].type = "created" /\ bot'.chan[k].id = i
      BY <1>1, <2>2 DEF Created
    <3> QED
      BY <3>1 DEF Covered, Created
  <2> QED
    BY <1>1, <2>1, <2>2 DEF Covered
<1>2. ASSUME files' \subseteq files, UNCHANGED botVars, Unannounced(i) => Unannounced(i)'
      PROVE  Covered(i)'
  BY <1>1, <1>2, <1>m DEF Subscribed
<1>3. ASSUME NEW j \in Ids, Stage(j) PROVE Covered(i)'
  BY <1>2, <1>3, <1>c DEF Stage, Unannounced
<1>4. ASSUME NEW j \in Ids, Save(j) PROVE Covered(i)'
  <2>0. /\ UNCHANGED <<bot, pending>> /\ missed \subseteq missed' /\ Subscribed
        /\ i \in files \/ (i = j /\ (Unannounced(i)' \/ i \in missed'))
        /\ Unannounced(i) => i # j
        /\ i # j => create'[i] = create[i]
    BY <1>4, <1>c DEF Save, Unannounced, Subscribed
  <2>1. CASE i = j /\ (Unannounced(i)' \/ i \in missed')
    BY <2>1 DEF Covered
  <2>2. CASE ~(i = j /\ (Unannounced(i)' \/ i \in missed'))
    <3>1. i \in files /\ (Unannounced(i) => Unannounced(i)')
      BY <2>0, <2>2 DEF Unannounced
    <3> QED
      BY <1>1, <1>m, <2>0, <3>1
  <2> QED
    BY <2>1, <2>2
<1>5. ASSUME NEW e \in Event, Emit(e)
      PROVE  /\ Subscribed /\ bot'.listing = bot.listing /\ missed \subseteq missed'
             /\ \A k \in 1..Len(bot.chan) : k \in 1..Len(bot'.chan) /\ bot'.chan[k] = bot.chan[k]
             /\ \/ e.id \in missed'
                \/ Len(bot.chan) + 1 \in 1..Len(bot'.chan) /\ bot'.chan[Len(bot.chan) + 1] = e
  <2>1. ~Unheard
    BY DEF Unheard, Subscribed
  <2>2. CASE Sent(e)
    BY <1>5, <1>c, <2>2, Typed, AppendOne DEF Sent
  <2>3. CASE Lost(e)
    BY <2>3 DEF Lost
  <2> QED
    BY <1>5, <2>1, <2>2, <2>3, EmitEffect
<1>6. ASSUME NEW j \in Ids, Announce(j) PROVE Covered(i)'
  <2> DEFINE e == CreatedEvent(j)
  <2>1. e \in Event /\ e.type = "created" /\ e.id = j /\ Emit(e)
    BY <1>6, RecordTypes DEF CreatedEvent, Announce
  <2> HIDE DEF e
  <2>2. /\ Subscribed /\ bot'.listing = bot.listing /\ missed \subseteq missed'
        /\ \A k \in 1..Len(bot.chan) : k \in 1..Len(bot'.chan) /\ bot'.chan[k] = bot.chan[k]
        /\ \/ e.id \in missed'
           \/ Len(bot.chan) + 1 \in 1..Len(bot'.chan) /\ bot'.chan[Len(bot.chan) + 1] = e
    BY <1>5, <2>1
  <2>3. files' = files /\ pending' = pending /\ (i # j => create'[i] = create[i])
    BY <1>6, <1>c DEF Announce
  <2>4. CASE i # j
    BY <1>1, <1>m, <2>2, <2>3, <2>4 DEF Unannounced
  <2>5. CASE i = j /\ e.id \in missed'
    BY <2>1, <2>5 DEF Covered
  <2>6. CASE i = j /\ Len(bot.chan) + 1 \in 1..Len(bot'.chan) /\ bot'.chan[Len(bot.chan) + 1] = e
    BY <2>1, <2>6 DEF Covered, Created
  <2> QED
    BY <2>2, <2>4, <2>5, <2>6
<1>7. ASSUME NEW c \in Workers, AnnounceRemoval(c) PROVE Covered(i)'
  <2>1. RemovedEvent(call[c].id, call[c].decision, call[c].failed) \in Event
    BY <1>7, RecordTypes, Typed DEF AnnounceRemoval, CallType
  <2>2. /\ Subscribed /\ bot'.listing = bot.listing /\ missed \subseteq missed'
        /\ \A k \in 1..Len(bot.chan) : k \in 1..Len(bot'.chan) /\ bot'.chan[k] = bot.chan[k]
    BY <1>5, <1>7, <2>1 DEF AnnounceRemoval
  <2>3. UNCHANGED <<files, create, pending>>
    BY <1>7 DEF AnnounceRemoval
  <2> QED
    BY <1>1, <1>m, <2>2, <2>3 DEF Unannounced
<1>8. CASE Connect
  <2>1. i \in bot'.listing \/ i \in missed' \/ create'[i] = "saved"
    BY <1>8 DEF Connect
  <2> QED
    BY <2>1 DEF Covered, Unannounced
<1>9. ASSUME NEW j \in Ids, Rehydrate(j) PROVE Covered(i)'
  <2>1. /\ bot'.chan = bot.chan /\ bot'.listing = bot.listing \ {j} /\ UNCHANGED <<files, create>>
        /\ pending \union missed \subseteq pending' \union missed'
        /\ i = j => i \in pending' \union missed'
    BY <1>9, ShowEffect DEF Rehydrate, ApprovalsTypeOK, BotType
  <2>2. Covered(i)
    BY <1>9, <1>m, <2>1 DEF Rehydrate, Subscribed
  <2>3. CASE i = j
    BY <2>1, <2>3 DEF Covered
  <2>4. CASE i # j
    <3>1. i \in bot.listing => i \in bot'.listing
      BY <2>1, <2>4
    <3> QED
      BY <2>1, <2>2, <3>1 DEF Covered, Unannounced, Created
  <2> QED
    BY <2>3, <2>4
<1>10. CASE GoLive
  <2>1. bot'.chan = bot.chan /\ bot'.listing = bot.listing /\ Subscribed
        /\ UNCHANGED <<files, create, pending, missed>>
    BY <1>10 DEF GoLive, ApprovalsTypeOK, BotType, Subscribed
  <2> QED
    BY <1>1, <1>m, <2>1 DEF Unannounced
<1>11. CASE ReadEvent
  <2>1. /\ bot'.stream = bot.stream /\ bot'.listing = bot.listing
        /\ 1 \in 1..Len(bot.chan) /\ Head(bot.chan) = bot.chan[1]
        /\ Len(bot'.chan) = Len(bot.chan) - 1
        /\ \A k \in 1..Len(bot'.chan) : bot'.chan[k] = bot.chan[k + 1]
    BY <1>11, ReadEffect
  <2>2. UNCHANGED <<files, create>>
    BY <1>11 DEF ReadEvent
  <2>3. Covered(i)
    BY <1>m, <2>1, <2>2 DEF Subscribed
  <2>4. i \in pending \union missed => i \in pending' \union missed'
    <3>1. CASE bot.chan[1].type = "created"
      BY <1>11, <3>1, ReadSplit, ShowEffect
    <3>2. CASE bot.chan[1].type = "removed"
      <4>1. bot.chan[1].id \notin files
        BY <1>11, <2>1, <3>2, ReadSplit, HandledIsOver DEF ToldInv
      <4> QED
        BY <1>11, <2>2, <3>2, <4>1, ReadSplit, ResolveEffect
    <3> QED
      BY <1>11, <3>1, <3>2, ReadSplit
  <2>5. CASE i \in pending \union missed \/ Unannounced(i) \/ i \in bot.listing
    BY <2>1, <2>2, <2>4, <2>5 DEF Covered, Unannounced
  <2>6. ASSUME NEW k \in 1..Len(bot.chan), Created(k, i) PROVE Covered(i)'
    <3>1. CASE k = 1
      BY <1>11, <2>6, <3>1, ReadSplit, ShowEffect DEF Created, Covered
    <3>2. CASE k # 1
      <4>1. k - 1 \in 1..Len(bot'.chan) /\ bot'.chan[k - 1] = bot.chan[(k - 1) + 1] /\ (k - 1) + 1 = k
        BY <1>c, <2>1, <3>2
      <4> QED
        BY <2>6, <4>1 DEF Covered, Created
    <3> QED
      BY <3>1, <3>2
  <2> QED
    BY <2>3, <2>5, <2>6 DEF Covered
<1>12. CASE DaemonCrash
  BY <1>12 DEF DaemonCrash, Subscribed
<1> QED
  BY <1>2, <1>3, <1>4, <1>6, <1>7, <1>8, <1>9, <1>10, <1>11, <1>12, Typed
  DEF ApprovalsNext, Creating, Deciding, CallStep, Expiring, BotStep, DecideOverHTTP,
    Claim, Handle, Expire, Sweep, DenyExpired, Unannounced, approvalVars

(* If i is over and the bot has, or will have, a card of it, its end is due. *)
Awaited(i) ==
  /\ i \in pending => EndIsComing(i, 0)
  /\ \A k \in 1..Len(bot.chan) : Created(k, i) => EndIsComing(i, k)

LEMMA StaleStep ==
  ApprovalsTypeOK /\ ClaimInv /\ StaleInv /\ [ApprovalsNext]_approvalVars => StaleInv'
<1> SUFFICES ASSUME ApprovalsTypeOK, ClaimInv, StaleInv, [ApprovalsNext]_approvalVars,
                    Subscribed', NEW i \in Ids, i \notin files' \union missed' \union Leftover
             PROVE  Awaited(i)'
  BY DEF StaleInv, Awaited
<1> USE DEF daemonVars, botVars, chatVars
<1>c. /\ create \in [Ids -> {"new", "staged", "saved", "unannounced", "done", "late", "refused", "cut"}]
      /\ Len(bot.chan) \in Nat
      /\ \A c \in Workers : call[c] \in CallType
  BY Typed DEF ApprovalsTypeOK
<1>s. Subscribed /\ i \notin files \union missed => Awaited(i)
  BY DEF StaleInv, Awaited
<1>1. ASSUME Ending(i)'
      PROVE  Awaited(i)'
  BY <1>1 DEF EndIsComing, Awaited
(* Steps that leave the bot alone, or lengthen the queue with others.        *)
<1>2. ASSUME Subscribed, i \notin files \union missed, i \in pending' => i \in pending,
             Ending(i) => Ending(i)',
             \A k \in 1..Len(bot.chan) : k \in 1..Len(bot'.chan) /\ bot'.chan[k] = bot.chan[k],
             \A k \in 1..Len(bot'.chan) : k \in 1..Len(bot.chan) \/ ~Created(k, i)'
      PROVE  Awaited(i)'
  <2>1. \A n : EndIsComing(i, n) => EndIsComing(i, n)'
    BY <1>2 DEF EndIsComing, Removed
  <2>2. \A k \in 1..Len(bot'.chan) : Created(k, i)' => k \in 1..Len(bot.chan) /\ Created(k, i)
    BY <1>2 DEF Created
  <2> QED
    BY <1>2, <1>s, <2>1, <2>2 DEF Awaited
<1>3. ASSUME UNCHANGED botVars, files \subseteq files' \/ i \notin files,
             create[i] = "late" => create'[i] = "late",
             \A c \in Workers : call[c].id = i /\ call[c].pc \in {"claimed", "handled"} =>
                                  call'[c].id = i /\ call'[c].pc \in {"claimed", "handled"}
      PROVE  Awaited(i)'
  <2>1. Ending(i) => Ending(i)'
    BY <1>3 DEF Ending
  <2>2. Subscribed /\ i \notin files \union missed
    BY <1>3 DEF Subscribed
  <2> QED
    BY <1>2, <1>3, <2>1, <2>2
<1>4. ASSUME NEW j \in Ids, Stage(j) \/ Save(j)
      PROVE  Awaited(i)'
  <2>1. CASE Stage(j)
    BY <1>3, <1>c, <2>1 DEF Stage
  <2>2. CASE Save(j)
    <3>1. UNCHANGED <<bot, chatVars, call>> /\ files \subseteq files' /\ missed \subseteq missed'
      BY <2>2 DEF Save
    <3>2. create[i] = "late" => create'[i] = "late"
      BY <1>c, <2>2 DEF Save
    <3>3. Ending(i) => Ending(i)'
      BY <3>1, <3>2 DEF Ending
    <3> QED
      BY <1>2, <3>1, <3>3 DEF Subscribed
  <2> QED
    BY <1>4, <2>1, <2>2
<1>5. ASSUME NEW e \in Event, Emit(e), e.id # i \/ e.type # "created"
      PROVE  /\ Subscribed
             /\ \A k \in 1..Len(bot.chan) : k \in 1..Len(bot'.chan) /\ bot'.chan[k] = bot.chan[k]
             /\ \A k \in 1..Len(bot'.chan) : k \in 1..Len(bot.chan) \/ ~Created(k, i)'
             /\ \/ e.id \in missed'
                \/ Len(bot.chan) + 1 \in 1..Len(bot'.chan) /\ bot'.chan[Len(bot.chan) + 1] = e
  <2>1. ~Unheard
    BY DEF Unheard, Subscribed
  <2>2. CASE Sent(e)
    <3>1. /\ Subscribed /\ Len(bot'.chan) = Len(bot.chan) + 1
          /\ \A k \in 1..Len(bot.chan) : bot'.chan[k] = bot.chan[k]
          /\ bot'.chan[Len(bot.chan) + 1] = e
      BY <2>2, Typed, AppendOne DEF Sent
    <3>2. \A k \in 1..Len(bot'.chan) : k \in 1..Len(bot.chan) \/ k = Len(bot.chan) + 1
      BY <1>c, <3>1
    <3>3. \A k \in 1..Len(bot'.chan) : k \in 1..Len(bot.chan) \/ ~Created(k, i)'
      BY <1>5, <3>1, <3>2 DEF Created
    <3> QED
      BY <1>c, <3>1, <3>3
  <2>3. CASE Lost(e)
    BY <2>3 DEF Lost
  <2> QED
    BY <1>5, <2>1, <2>2, <2>3, EmitEffect
<1>6. ASSUME NEW j \in Ids, Announce(j)
      PROVE  Awaited(i)'
  <2>1. files' = files /\ pending' = pending /\ call' = call
    BY <1>6 DEF Announce
  <2>2. CASE i = j
    <3>1. create'[i] = "late"
      BY <1>6, <1>c, <2>1, <2>2 DEF Announce
    <3> QED
      BY <1>1, <3>1 DEF Ending
  <2>3. CASE i # j
    <3> DEFINE e == CreatedEvent(j)
    <3>1. e \in Event /\ e.id # i /\ Emit(e)
      BY <1>6, <2>3, RecordTypes DEF CreatedEvent, Announce
    <3>2. missed \subseteq missed'
      BY <3>1, EmitEffect DEF Sent, Lost, Unheard
    <3> HIDE DEF e
    <3>3. Ending(i) => Ending(i)'
      BY <1>6, <1>c, <2>1, <2>3 DEF Ending, Announce
    <3> QED
      BY <1>2, <1>5, <2>1, <3>1, <3>2, <3>3
  <2> QED
    BY <2>2, <2>3
<1>7. ASSUME NEW c \in Workers, AnnounceRemoval(c)
      PROVE  Awaited(i)'
  <2> DEFINE e == RemovedEvent(call[c].id, call[c].decision, call[c].failed)
  <2>1. /\ UNCHANGED <<files, create, pending>> /\ Emit(e)
        /\ call' = [call EXCEPT ![c] = NoCall]
    BY <1>7 DEF AnnounceRemoval
  <2>2. e \in Event /\ e.id = call[c].id /\ e.type = "removed"
    BY <1>7, RecordTypes, Typed DEF AnnounceRemoval, CallType, RemovedEvent
  <2> HIDE DEF e
  <2>3. missed \subseteq missed'
    BY <2>1, <2>2, EmitEffect DEF Sent, Lost, Unheard
  <2>4. /\ Subscribed
        /\ \A k \in 1..Len(bot.chan) : k \in 1..Len(bot'.chan) /\ bot'.chan[k] = bot.chan[k]
        /\ \A k \in 1..Len(bot'.chan) : k \in 1..Len(bot.chan) \/ ~Created(k, i)'
        /\ \/ e.id \in missed'
           \/ Len(bot.chan) + 1 \in 1..Len(bot'.chan) /\ bot'.chan[Len(bot.chan) + 1] = e
    BY <1>5, <2>1, <2>2
  <2>5. CASE call[c].id # i
    <3>1. Ending(i) => Ending(i)'
      BY <2>1, <2>5, Typed DEF Ending
    <3> QED
      BY <1>2, <2>1, <2>3, <2>4, <3>1
  <2>6. CASE call[c].id = i
    <3>1. PICK n \in Nat : n = Len(bot.chan) + 1
      BY <1>c
    <3>2. n \in 1..Len(bot'.chan) /\ bot'.chan[n] = e
      BY <2>2, <2>4, <2>6, <3>1
    <3>3. Removed(n, i)'
      BY <2>2, <2>6, <3>2 DEF Removed
    <3>4. \A k \in 1..Len(bot'.chan) : Created(k, i)' => n > k
      BY <1>c, <2>4, <3>1
    <3> QED
      BY <3>1, <3>2, <3>3, <3>4 DEF Awaited, EndIsComing
  <2> QED
    BY <2>5, <2>6
<1>8. ASSUME NEW c \in Workers, Claim(c) PROVE Awaited(i)'
  <2>1. /\ call[c].pc = "loaded" /\ files' = files \ {call[c].id} /\ UNCHANGED <<create, botVars>>
        /\ \A b \in Workers : b # c => call'[b] = call[b]
    BY <1>8, Typed DEF Claim
  <2>2. CASE i \in files
    <3>1. call[c].id = i /\ call' = [call EXCEPT ![c].pc = "claimed"]
      BY <1>8, <2>1, <2>2 DEF Claim
    <3>2. call'[c].id = i /\ call'[c].pc = "claimed"
      BY <1>c, <3>1, Typed DEF CallType
    <3> QED
      BY <1>1, <3>2 DEF Ending
  <2>3. CASE i \notin files
    BY <1>3, <2>1, <2>3
  <2> QED
    BY <2>2, <2>3
<1>9. ASSUME NEW c \in Workers, Handle(c) PROVE Awaited(i)'
  <2>1. call'[c].id = call[c].id /\ call'[c].pc = "handled"
    BY <1>9, HandleEffect
  <2>2. \A b \in Workers : b # c => call'[b] = call[b]
    BY <1>9, HandleEffect
  <2> QED
    BY <1>3, <1>9, <2>1, <2>2 DEF Handle
<1>10. ASSUME NEW c \in Workers, NEW j \in Ids, NEW d \in Decisions, BeginDecide(c, j, d),
              UNCHANGED <<files, create, botVars>>
       PROVE  Awaited(i)'
  <2>1. \A b \in Workers : call'[b] = call[b] \/ call[b].pc = "idle"
    BY <1>10, BeginEffect
  <2> QED
    BY <1>3, <1>10, <2>1
<1>11. ASSUME NEW j \in Ids, DenyExpired(j) PROVE Awaited(i)'
  <2>1. Maintenance \in Workers /\ "deny" \in Decisions
    BY ApprovalsAssumption DEF Workers
  <2> QED
    BY <1>3, <1>10, <1>11, <2>1 DEF DenyExpired
<1>12. CASE Connect
  BY <1>12 DEF Connect, Awaited
<1>13. ASSUME NEW j \in Ids, Rehydrate(j) PROVE Awaited(i)'
  <2>1. bot'.chan = bot.chan /\ UNCHANGED <<files, create, call>> /\ Subscribed
    BY <1>13 DEF Rehydrate, ApprovalsTypeOK, BotType, Subscribed
  <2>2. i \notin files \union missed /\ (i \in pending' => i \in pending)
    BY <1>13, <2>1 DEF Rehydrate, ShowCard
  <2>3. Ending(i) => Ending(i)'
    BY <2>1 DEF Ending
  <2> QED
    BY <1>2, <2>1, <2>2, <2>3
<1>14. CASE GoLive
  <2>1. bot'.chan = bot.chan /\ UNCHANGED <<files, create, call, pending, missed>> /\ Subscribed
    BY <1>14 DEF GoLive, ApprovalsTypeOK, BotType, Subscribed
  <2>2. Ending(i) => Ending(i)'
    BY <2>1 DEF Ending
  <2> QED
    BY <1>2, <2>1, <2>2
<1>15. CASE ReadEvent
  <2>1. /\ bot'.stream = bot.stream
        /\ 1 \in 1..Len(bot.chan) /\ Head(bot.chan) = bot.chan[1]
        /\ Len(bot'.chan) = Len(bot.chan) - 1
        /\ \A k \in 1..Len(bot'.chan) : bot'.chan[k] = bot.chan[k + 1]
    BY <1>15, ReadEffect
  <2>2. UNCHANGED <<files, create, call>> /\ missed \subseteq missed'
    BY <1>15, ReadSplit, ShowEffect, ResolveEffect DEF ReadEvent
  <2>3. Awaited(i)
    BY <1>s, <2>1, <2>2 DEF Subscribed
  <2>4. Ending(i) => Ending(i)'
    BY <2>2 DEF Ending
  <2>5. ASSUME NEW n \in Nat, EndIsComing(i, n + 1) PROVE EndIsComing(i, n)'
    <3>1. CASE Ending(i)
      BY <2>4, <3>1 DEF EndIsComing
    <3>2. ASSUME NEW m \in 1..Len(bot.chan), m > n + 1, Removed(m, i) PROVE EndIsComing(i, n)'
      <4>1. PICK p \in Nat : m = p + 1
        BY <1>c, <3>2
      <4>2. p \in 1..Len(bot'.chan) /\ p > n /\ bot'.chan[p] = bot.chan[m]
        BY <1>c, <2>1, <3>2, <4>1
      <4>3. Removed(p, i)'
        BY <3>2, <4>2 DEF Removed
      <4> QED
        BY <4>2, <4>3 DEF EndIsComing
    <3> QED
      BY <2>5, <3>1, <3>2 DEF EndIsComing
  <2>6. ASSUME NEW k \in 1..Len(bot'.chan), Created(k, i)' PROVE EndIsComing(i, k)'
    <3>1. PICK m \in 1..Len(bot.chan) : m = k + 1
      BY <1>c, <2>1
    <3>2. Created(m, i)
      BY <2>1, <2>6, <3>1 DEF Created
    <3>3. EndIsComing(i, k + 1) /\ k \in Nat
      BY <1>c, <2>1, <2>3, <3>1, <3>2 DEF Awaited
    <3> QED
      BY <2>5, <3>3
  <2>7. ASSUME EndIsComing(i, 0), ~Removed(1, i) PROVE EndIsComing(i, 0)'
    <3>1. EndIsComing(i, 0 + 1)
      BY <1>c, <2>7 DEF EndIsComing
    <3> QED
      BY <2>5, <3>1
  <2>8. ASSUME i \in pending' PROVE EndIsComing(i, 0)'
    <3>1. CASE bot.chan[1].type = "created" /\ i \in pending
      BY <2>3, <2>7, <3>1 DEF Awaited, Removed
    <3>2. CASE bot.chan[1].type = "created" /\ i \notin pending
      <4>1. Created(1, i)
        BY <1>15, <2>8, <3>2, ReadSplit, ShowEffect DEF Created
      <4>2. EndIsComing(i, 0 + 1)
        BY <2>1, <2>3, <4>1 DEF Awaited
      <4> QED
        BY <2>5, <4>2
    <3>3. CASE bot.chan[1].type = "removed"
      <4>1. i \in pending /\ bot.chan[1].id # i
        BY <1>15, <2>8, <3>3, ReadSplit, ResolveEffect
      <4> QED
        BY <2>3, <2>7, <4>1 DEF Awaited, Removed
    <3> QED
      BY <1>15, <3>1, <3>2, <3>3, ReadSplit
  <2> QED
    BY <2>6, <2>8 DEF Awaited
<1>16. CASE DaemonCrash
  BY <1>16 DEF DaemonCrash, Subscribed
<1>17. CASE UNCHANGED <<files, create, call, botVars>>
  BY <1>3, <1>17
<1> QED
  BY <1>4, <1>6, <1>7, <1>8, <1>9, <1>10, <1>11, <1>12, <1>13, <1>14, <1>15, <1>16, <1>17, Typed
  DEF ApprovalsNext, Creating, Deciding, CallStep, Expiring, BotStep, DecideOverHTTP,
    Expire, Sweep, approvalVars, Workers

LEMMA ListStep ==
  ApprovalsTypeOK /\ ListInv /\ [ApprovalsNext]_approvalVars => ListInv'
<1> SUFFICES ASSUME ApprovalsTypeOK, ListInv, [ApprovalsNext]_approvalVars PROVE ListInv'
  OBVIOUS
<1> USE DEF daemonVars, botVars, chatVars
<1>1. CASE bot'.stream = bot.stream /\ bot'.listing = bot.listing
  BY <1>1 DEF ListInv
<1>2. ASSUME NEW e \in Event, Emit(e) PROVE ListInv'
  BY <1>1, <1>2, EmitEffect DEF Sent, Lost, Unheard
<1>3. ASSUME NEW i \in Ids, Announce(i) PROVE ListInv'
  BY <1>2, <1>3, RecordTypes DEF Announce
<1>4. ASSUME NEW c \in Workers, AnnounceRemoval(c) PROVE ListInv'
  <2>1. RemovedEvent(call[c].id, call[c].decision, call[c].failed) \in Event
    BY <1>4, RecordTypes, Typed DEF AnnounceRemoval, CallType
  <2> QED
    BY <1>2, <1>4, <2>1 DEF AnnounceRemoval
<1>5. CASE Connect
  BY <1>5 DEF Connect, ListInv
<1>6. ASSUME NEW i \in Ids, Rehydrate(i) PROVE ListInv'
  BY <1>6 DEF Rehydrate, ListInv, ApprovalsTypeOK, BotType
<1>7. CASE GoLive
  BY <1>7 DEF GoLive, ListInv, ApprovalsTypeOK, BotType
<1>8. CASE ReadEvent
  BY <1>1, <1>8, ReadEffect
<1>9. CASE DaemonCrash
  BY <1>9 DEF DaemonCrash, ListInv
<1>10. CASE bot' = bot
  BY <1>1, <1>10
<1> QED
  BY <1>3, <1>4, <1>5, <1>6, <1>7, <1>8, <1>9, <1>10, Typed
  DEF ApprovalsNext, Creating, Deciding, CallStep, Expiring, BotStep, DecideOverHTTP, Stage, Save,
    Claim, Handle, Expire, Sweep, DenyExpired, approvalVars

-----------------------------------------------------------------------------
(* The staged bundles *)

LEMMA LeftoverStep ==
  ApprovalsTypeOK /\ LeftoverInv /\ [ApprovalsNext]_approvalVars => LeftoverInv'
<1> SUFFICES ASSUME ApprovalsTypeOK, LeftoverInv, [ApprovalsNext]_approvalVars,
                    NEW i \in Leftover
             PROVE  create'[i] = "done" /\ i \notin staging'
  BY DEF LeftoverInv
<1> USE DEF daemonVars, botVars, chatVars
<1>1. create[i] = "done" /\ i \notin staging /\ i \in Ids
  BY ApprovalsAssumption DEF LeftoverInv
<1>2. create \in [Ids -> {"new", "staged", "saved", "unannounced", "done", "late", "refused", "cut"}]
  BY DEF ApprovalsTypeOK
<1>3. ASSUME NEW j \in Ids, Stage(j) \/ Save(j) \/ Announce(j)
      PROVE  create'[i] = "done" /\ i \notin staging'
  BY <1>1, <1>2, <1>3 DEF Stage, Save, Announce
<1>4. ASSUME NEW c \in Workers, Handle(c) PROVE create'[i] = "done" /\ i \notin staging'
  BY <1>1, <1>4 DEF Handle
<1>5. CASE DaemonCrash
  BY <1>1, <1>2, <1>5 DEF DaemonCrash
<1>6. CASE UNCHANGED <<create, staging>>
  BY <1>1, <1>6
<1> QED
  BY <1>3, <1>4, <1>5, <1>6, Typed
  DEF ApprovalsNext, Creating, Deciding, CallStep, Expiring, BotStep, DecideOverHTTP, Claim,
    AnnounceRemoval, Expire, Sweep, DenyExpired, Connect, Rehydrate, GoLive, ReadEvent, approvalVars

LEMMA LiveStep ==
  ApprovalsTypeOK /\ LiveInv /\ [ApprovalsNext]_approvalVars => LiveInv'
<1> SUFFICES ASSUME ApprovalsTypeOK, LiveInv, [ApprovalsNext]_approvalVars PROVE LiveInv'
  OBVIOUS
<1> USE DEF daemonVars, botVars, chatVars, LiveInv
<1>1. CASE UNCHANGED chatVars
  BY <1>1
<1>2. CASE Connect
  BY <1>2 DEF Connect
<1>3. ASSUME NEW i \in Ids, Rehydrate(i) PROVE LiveInv'
  BY <1>3, ShowEffect DEF Rehydrate
<1>4. CASE ReadEvent
  BY <1>4, ReadSplit, ShowEffect, ResolveEffect
<1> QED
  BY <1>1, <1>2, <1>3, <1>4
  DEF ApprovalsNext, Creating, Deciding, CallStep, Expiring, BotStep, DecideOverHTTP, Stage, Save,
    Announce, Claim, Handle, AnnounceRemoval, Expire, Sweep, DenyExpired, GoLive, DaemonCrash, approvalVars

Owned(i) ==
  \/ i \in files
  \/ create[i] \in {"staged", "refused", "cut"}
  \/ \E c \in Workers : Claims(c, i)
  \/ \E k \in DOMAIN result[i] : result[i][k].failed
  \/ crashes > 0

OwnedInv == \A i \in staging : Owned(i)

LEMMA OwnedStep ==
  ApprovalsTypeOK /\ LeftoverInv /\ OwnedInv /\ [ApprovalsNext]_approvalVars => OwnedInv'
<1> SUFFICES ASSUME ApprovalsTypeOK, LeftoverInv, \A j \in staging : Owned(j),
                    [ApprovalsNext]_approvalVars, NEW i \in staging'
             PROVE  Owned(i)'
  BY DEF OwnedInv
<1> USE DEF daemonVars, botVars, chatVars
<1>c. /\ create \in [Ids -> {"new", "staged", "saved", "unannounced", "done", "late", "refused", "cut"}]
      /\ \A c \in Workers : call[c] \in CallType
      /\ staging \subseteq Ids /\ crashes \in Nat
  BY Typed, ApprovalsAssumption DEF ApprovalsTypeOK
(* Steps that take nothing from what owns i.                                 *)
<1>1. ASSUME i \in staging, i \in files => i \in files',
             create[i] \in {"staged", "refused", "cut"} =>
               create'[i] \in {"staged", "refused", "cut"} \/ i \in files',
             \A c \in Workers : Claims(c, i) => Claims(c, i)', crashes' = crashes
      PROVE  Owned(i)'
  <2>1. i \in Ids /\ Owned(i)
    BY <1>1, <1>c
  <2>2. ASSUME NEW k \in DOMAIN result[i], result[i][k].failed PROVE Owned(i)'
    <3>1. PICK r : r = result[i][k]
      OBVIOUS
    <3>2. \E n \in DOMAIN result'[i] : result'[i][n] = r
      BY <2>1, <3>1, HandledStays
    <3> QED
      BY <2>2, <3>1, <3>2 DEF Owned
  <2> QED
    BY <1>1, <2>1, <2>2 DEF Owned
<1>2. ASSUME NEW j \in Ids, Stage(j) PROVE Owned(i)'
  <2>1. CASE i = j
    BY <1>2, <1>c, <2>1 DEF Stage, Owned
  <2>2. CASE i # j
    BY <1>1, <1>2, <1>c, <2>2 DEF Stage, Claims
  <2> QED
    BY <2>1, <2>2
<1>3. ASSUME NEW j \in Ids, Save(j) PROVE Owned(i)'
  BY <1>1, <1>3, <1>c DEF Save, Claims
<1>4. ASSUME NEW j \in Ids, Announce(j) PROVE Owned(i)'
  BY <1>1, <1>4, <1>c DEF Announce, Claims
<1>5. ASSUME NEW c \in Workers, Claim(c) PROVE Owned(i)'
  <2>1. /\ call[c].pc = "loaded" /\ files' = files \ {call[c].id} /\ UNCHANGED <<create, staging, crashes>>
        /\ \A b \in Workers : b # c => call'[b] = call[b]
    BY <1>5, Typed DEF Claim
  <2>2. CASE i \in files /\ i = call[c].id
    <3>1. i \notin Leftover
      BY <2>1 DEF LeftoverInv
    <3>2. call' = [call EXCEPT ![c].pc = "claimed"]
      BY <1>5, <2>2, <3>1 DEF Claim
    <3>3. Claims(c, i)'
      BY <1>c, <2>2, <3>2, Typed DEF CallType, Claims
    <3> QED
      BY <3>3 DEF Owned
  <2>3. CASE ~(i \in files /\ i = call[c].id)
    <3>1. \A b \in Workers : Claims(b, i) => Claims(b, i)'
      BY <2>1 DEF Claims
    <3> QED
      BY <1>1, <2>1, <2>3, <3>1
  <2> QED
    BY <2>2, <2>3
<1>6. ASSUME NEW c \in Workers, Handle(c) PROVE Owned(i)'
  <2>1. PICK j \in Ids : j = call[c].id
    BY <1>6, HandleEffect
  <2>2. PICK f \in BOOLEAN :
          /\ staging' = IF f THEN staging ELSE staging \ {j}
          /\ result'[j][Len(result[j]) + 1] = [decision |-> call[c].decision, failed |-> f]
          /\ DOMAIN result'[j] = 1..(Len(result[j]) + 1)
    BY <1>6, <2>1, HandleEffect
  <2>3. CASE i = j
    <3>1. f /\ Len(result[j]) + 1 \in DOMAIN result'[j]
      BY <2>2, <2>3, Typed
    <3> QED
      BY <2>2, <2>3, <3>1 DEF Owned
  <2>4. CASE i # j
    <3>1. \A b \in Workers : b # c => call'[b] = call[b]
      BY <1>6, HandleEffect
    <3>2. \A b \in Workers : Claims(b, i) => Claims(b, i)'
      BY <2>1, <2>4, <3>1 DEF Claims
    <3>3. i \in staging /\ UNCHANGED <<files, create, crashes>>
      BY <1>6, <2>2 DEF Handle
    <3> QED
      BY <1>1, <3>2, <3>3
  <2> QED
    BY <2>3, <2>4
<1>7. ASSUME NEW c \in Workers, AnnounceRemoval(c) PROVE Owned(i)'
  <2>1. call[c].pc = "handled" /\ \A b \in Workers : b # c => call'[b] = call[b]
    BY <1>7, Typed DEF AnnounceRemoval
  <2>2. \A b \in Workers : Claims(b, i) => Claims(b, i)'
    BY <2>1 DEF Claims
  <2> QED
    BY <1>1, <1>7, <2>2 DEF AnnounceRemoval
<1>8. ASSUME NEW c \in Workers, NEW j \in Ids, NEW d \in Decisions, BeginDecide(c, j, d),
             UNCHANGED <<files, create, staging, crashes>>
      PROVE  Owned(i)'
  <2>1. \A b \in Workers : call'[b] = call[b] \/ call[b].pc = "idle"
    BY <1>8, BeginEffect
  <2>2. \A b \in Workers : Claims(b, i) => Claims(b, i)'
    BY <2>1 DEF Claims
  <2> QED
    BY <1>1, <1>8, <2>2
<1>9. ASSUME NEW j \in Ids, DenyExpired(j) PROVE Owned(i)'
  <2>1. Maintenance \in Workers /\ "deny" \in Decisions
    BY ApprovalsAssumption DEF Workers
  <2>2. CASE j \in files
    BY <1>8, <1>9, <2>1, <2>2 DEF DenyExpired
  <2>3. CASE j \notin files
    BY <1>1, <1>9, <2>3 DEF DenyExpired, Claims
  <2> QED
    BY <2>2, <2>3
<1>10. CASE DaemonCrash
  BY <1>10, <1>c DEF DaemonCrash, Owned
<1>11. CASE UNCHANGED <<files, create, staging, call, crashes>>
  BY <1>1, <1>11 DEF Claims
<1> QED
  BY <1>2, <1>3, <1>4, <1>5, <1>6, <1>7, <1>8, <1>9, <1>10, <1>11, Typed
  DEF ApprovalsNext, Creating, Deciding, CallStep, Expiring, BotStep, DecideOverHTTP, Expire, Sweep,
    Connect, Rehydrate, GoLive, ReadEvent, approvalVars, Workers

-----------------------------------------------------------------------------
(* The theorems *)

LEMMA ApprovalsStart ==
  ApprovalsInit => /\ ApprovalsTypeOK /\ ClaimInv /\ ToldInv /\ ResolutionIsTrue
                   /\ MissInv /\ ListInv /\ StaleInv /\ LiveInv /\ LeftoverInv
                   /\ OwnedInv
<1> SUFFICES ASSUME ApprovalsInit
             PROVE  /\ ApprovalsTypeOK /\ ClaimInv /\ ToldInv /\ ResolutionIsTrue
                    /\ MissInv /\ ListInv /\ StaleInv /\ LiveInv /\ LeftoverInv
                    /\ OwnedInv
  OBVIOUS
<1> USE DEF ApprovalsInit
<1>1. ApprovalsTypeOK
  <2>1. bot \in BotType /\ Len(bot.chan) = 0
    BY DEF NoStream, BotType
  <2>2. call \in [Workers -> CallType] /\ \A c \in Workers : call[c].pc = "idle"
    BY RecordTypes DEF Workers
  <2>3. result \in [Ids -> Seq(Outcome)]
    OBVIOUS
  <2> QED
    BY <2>1, <2>2, <2>3, ApprovalsAssumption DEF ApprovalsTypeOK
<1>2. \A c \in Workers : call[c].pc = "idle"
  BY RecordTypes DEF Workers
<1>3. ClaimInv
  BY <1>2, ApprovalsAssumption DEF ClaimInv, Claims, TellsTrue
<1>4. ~Subscribed /\ bot.chan = <<>> /\ bot.listing = {}
  BY DEF Subscribed, NoStream
<1> QED
  BY <1>1, <1>3, <1>4, ApprovalsAssumption
  DEF ToldInv, ResolutionIsTrue, MissInv, ListInv, StaleInv, LiveInv, LeftoverInv,
    OwnedInv

(* Every reachable state of the approvals, their dispatcher and the bot is    *)
(* well typed; the stream to the bot never holds more than its buffer.        *)
THEOREM ApprovalsTypeCorrect == ApprovalsSpec => []ApprovalsTypeOK
BY ApprovalsStart, ApprovalsTypeStep, PTL DEF ApprovalsSpec

(* However many callers decide an approval, whatever the expiry sweep does    *)
(* meanwhile and however often the daemon dies, its handler runs at most once.*)
THEOREM OnceHandled == ApprovalsSpec => []HandledOnce
<1>1. ClaimInv => HandledOnce
  BY DEF ClaimInv, HandledOnce
<1> QED
  BY <1>1, ApprovalsStart, ApprovalsTypeStep, ClaimStep, PTL DEF ApprovalsSpec

(* A card in the chat is resolved only as the handler's run ended.            *)
THEOREM ChatIsTrue == ApprovalsSpec => []ResolutionIsTrue
BY ApprovalsStart, ApprovalsTypeStep, ClaimStep, ToldStep, ResolutionStep, PTL DEF ApprovalsSpec

(* A bot that has caught up with its stream shows every pending approval,     *)
(* however creating, listing and sending interleave: all but those dropped,   *)
(* not listed, not sent, still to be announced, or saved by a Create that     *)
(* answered with an error and announced nothing.                              *)
THEOREM NoneMissed == ApprovalsSpec => []NoApprovalMissed
<1>1. ApprovalsTypeOK /\ MissInv /\ ListInv => NoApprovalMissed
  <2> SUFFICES ASSUME ApprovalsTypeOK, MissInv, ListInv, bot.stream = "live", bot.chan = <<>>,
                      NEW i \in files
               PROVE  i \in pending \union missed \/ create[i] = "saved"
    BY DEF NoApprovalMissed
  <2>1. Len(bot.chan) = 0 /\ bot.listing = {} /\ Subscribed
    BY DEF ListInv, Subscribed
  <2> QED
    BY <2>1 DEF MissInv
<1> QED
  BY <1>1, ApprovalsStart, ApprovalsTypeStep, ClaimStep, ToldStep, MissStep, ListStep, PTL
  DEF ApprovalsSpec

(* With a bot that has caught up no card of an approval that is over keeps    *)
(* its buttons, but for the cards the bot lost track of (a second card of the *)
(* same approval, an edit that failed, a restart) and those NoStaleCard names.*)
THEOREM NoneStale == ApprovalsSpec => []NoStaleCard
<1>1. ApprovalsTypeOK /\ StaleInv /\ LiveInv => NoStaleCard
  <2> SUFFICES ASSUME ApprovalsTypeOK, StaleInv, LiveInv, bot.stream = "live", bot.chan = <<>>,
                      NEW i \in live \ (slipped \union files \union missed \union Leftover)
               PROVE  Ending(i)
    BY Typed DEF NoStaleCard, Ending
  <2>1. Len(bot.chan) = 0 /\ Subscribed /\ i \in Ids /\ i \in pending
    BY Typed DEF Subscribed, LiveInv
  <2> QED
    BY <2>1 DEF StaleInv, EndIsComing
<1> QED
  BY <1>1, ApprovalsStart, ApprovalsTypeStep, ClaimStep, StaleStep, LiveStep, PTL DEF ApprovalsSpec

(* As long as the daemon has not died, a staged bundle belongs to a pending   *)
(* approval or a request or decision under way, or to one that failed.        *)
THEOREM StagedOwned == ApprovalsSpec => []StagedHasOwner
<1>1. ApprovalsTypeOK /\ OwnedInv => StagedHasOwner
  BY Typed DEF OwnedInv, StagedHasOwner, Owned, Claims
<1> QED
  BY <1>1, ApprovalsStart, ApprovalsTypeStep, LeftoverStep, OwnedStep, PTL DEF ApprovalsSpec
=============================================================================
