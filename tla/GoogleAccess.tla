---------------------------- MODULE GoogleAccess -----------------------------
(***************************************************************************)
(* Mail and calendar: a gobrrr command asks the daemon over its socket      *)
(* (client package), a handler checks the request, opens the account        *)
(* (AccountManager) and calls Google, again and again while Google answers  *)
(* 429 or 5xx (WithRetry), and the command reads success or failure off     *)
(* the status of the answer.                                                *)
(*                                                                         *)
(* A transient error does not say whether Google did what was asked.        *)
(* Handlers run in goroutines of their own and share nothing but files.     *)
(***************************************************************************)
EXTENDS Naturals, FiniteSets

CONSTANTS
  Calls,         \* calls of gobrrr gmail and gobrrr gcal
  CallsTogether,      \* sets of calls that are made in one behaviour
  Ask,           \* for each call: [op, by, env, account, complete], by the task whose
                 \* worker makes it, env the GOBRRR_TASK_ID of the shell it is typed in
  Accounts,      \* names of Google accounts
  AllowWrites,   \* for each task of the queue: its allow_writes
  MaxRetries,    \* maxRetries of WithRetry
  MaxTransient,  \* bound: transient errors of Google
  MaxEdits       \* bound: edits of the event by other people

NoTask == "no task"
Operations == {"list", "read", "send", "reply", "agenda", "get", "create", "update", "delete"}
Writes == {"send", "reply", "create", "update", "delete"}

ASSUME GoogleAssumption ==
  /\ NoTask \notin DOMAIN AllowWrites /\ CallsTogether \subseteq SUBSET Calls
  /\ \A c \in Calls : /\ Ask[c].op \in Operations /\ Ask[c].account \in Accounts
                      /\ Ask[c].by \in DOMAIN AllowWrites \union {NoTask}
  /\ MaxRetries \in Nat /\ MaxTransient \in Nat /\ MaxEdits \in Nat

VARIABLES
  call,       \* progress of each call
  done,       \* how often Google carried out each call
  mail,       \* whether the message that is read or answered still exists
  event,      \* the calendar event: whether it exists, who set which field
  queued,     \* tasks that queue.Get finds
  creds,      \* accounts with credentials.enc
  index,      \* accounts listed in accounts.json
  setup,      \* progress of SaveAccount for each account
  transients, edits

googleVars == <<call, done, mail, event, queued, creds, index, setup, transients, edits>>
worldVars == <<mail, event, edits>>
accountVars == <<creds, index, setup>>

-----------------------------------------------------------------------------
NewCall == [pc |-> "new", try |-> 0, saw |-> 0, status |-> 0, result |-> "none"]

GoogleInit ==
  /\ \E made \in CallsTogether :
       call = [c \in Calls |-> [NewCall EXCEPT !.pc = IF c \in made THEN "new" ELSE "never"]]
  /\ done = [c \in Calls |-> 0]
  /\ mail = TRUE /\ event = [exists |-> TRUE, title |-> 0, start |-> NoTask]
  /\ queued = DOMAIN AllowWrites
  /\ creds = {} /\ index = {} /\ setup = [a \in Accounts |-> [pc |-> "new", read |-> {}]]
  /\ transients = 0 /\ edits = 0

Op(c) == Ask[c].op

(* The id that a command sends is GOBRRR_TASK_ID of its environment.  Claude,
   and every command it runs for a task, has the environment of the daemon,
   where nobody has set it: what a task asks for looks like a direct call. *)
TaskID(c) == IF Ask[c].by = NoTask THEN Ask[c].env ELSE NoTask

Moves(c, pc) == call' = [call EXCEPT ![c].pc = pc]

(* The handlers answer 200 with the data of a read and 204 to a write. *)
Answer(c, status) == call' = [call EXCEPT ![c].pc = "answered", ![c].status = status]
StatusOf(op) == IF op \in Writes THEN 204 ELSE 200

-----------------------------------------------------------------------------
(* SaveAccount in the setup wizard: the credentials, then the index, which is
   read, extended and written without a lock. *)
SaveCredentials(a) ==
  /\ setup[a].pc = "new" /\ setup' = [setup EXCEPT ![a].pc = "saved"]
  /\ creds' = creds \union {a}
  /\ UNCHANGED <<call, done, worldVars, queued, index, transients>>

LoadIndex(a) ==
  /\ setup[a].pc = "saved" /\ setup' = [setup EXCEPT ![a] = [pc |-> "read", read |-> index]]
  /\ UNCHANGED <<call, done, worldVars, queued, creds, index, transients>>

SaveIndex(a) ==
  /\ setup[a].pc = "read" /\ setup' = [setup EXCEPT ![a] = [pc |-> "end", read |-> {}]]
  /\ index' = setup[a].read \union {a}
  /\ UNCHANGED <<call, done, worldVars, queued, creds, transients>>

(* LoadAccount *)
LoadAccount(a) == a \in creds /\ a \in index

-----------------------------------------------------------------------------
(* A request on its way. *)

PostJSON(c) ==
  /\ call[c].pc = "new" /\ Moves(c, IF Op(c) \in Writes THEN "asked" ELSE "permitted")
  /\ UNCHANGED <<done, worldVars, queued, accountVars, transients>>

(* checkWritePermission: a call that names a task needs its allow_writes, and
   a task that was pruned allows nothing. *)
CheckWritePermission(c) ==
  /\ call[c].pc = "asked"
  /\ IF TaskID(c) = NoTask \/ (TaskID(c) \in queued /\ AllowWrites[TaskID(c)])
       THEN Moves(c, "permitted") ELSE Answer(c, 403)
  /\ UNCHANGED <<done, worldVars, queued, accountVars, transients>>

Checked(c) ==
  /\ call[c].pc = "permitted"
  /\ \/ ~Ask[c].complete /\ Answer(c, 400)
     \/ Ask[c].complete /\ ~LoadAccount(Ask[c].account) /\ Answer(c, 503)
     \/ Ask[c].complete /\ LoadAccount(Ask[c].account) /\ (Moves(c, "try") \/ Answer(c, 500))
  /\ UNCHANGED <<done, worldVars, queued, accountVars, transients>>

(* The handlers of /gmail and of /gcal: the fields, the account, the service. *)
HandleGmail(c) == Op(c) \in {"list", "read", "send", "reply"} /\ Checked(c)
HandleGcal(c) == Op(c) \in {"agenda", "get", "create", "update", "delete"} /\ Checked(c)

-----------------------------------------------------------------------------
(* One attempt, and what WithRetry makes of its outcome. *)

(* Fault: the last attempt is followed by another turn of the loop, which ends
   with "return nil". *)
WithRetryToTheEnd(c, outcome) ==
  CASE outcome = "ok" -> Answer(c, StatusOf(Op(c))) /\ UNCHANGED transients
    [] outcome = "fatal" -> Answer(c, 500) /\ UNCHANGED transients
    [] outcome = "transient" ->
         /\ transients < MaxTransient /\ transients' = transients + 1
         /\ IF call[c].try < MaxRetries
              THEN call' = [call EXCEPT ![c].pc = "try", ![c].try = @ + 1]
              ELSE Answer(c, StatusOf(Op(c)))

WithRetry(c, outcome) ==
  CASE outcome = "ok" -> Answer(c, StatusOf(Op(c))) /\ UNCHANGED transients
    [] outcome = "fatal" -> Answer(c, 500) /\ UNCHANGED transients
    [] outcome = "transient" ->
         /\ transients < MaxTransient /\ transients' = transients + 1
         /\ IF call[c].try < MaxRetries
              THEN call' = [call EXCEPT ![c].pc = "try", ![c].try = @ + 1]
              ELSE Answer(c, 500)

(* A request that reads: it succeeds only while the thing is there. *)
Fetch(c, exists, next) ==
  /\ \/ exists /\ next
     \/ WithRetry(c, "fatal") \/ WithRetry(c, "transient")
  /\ UNCHANGED <<done, worldVars, queued, accountVars>>

(* ListMessages: the list and then each message; one that has gone in between
   fails the whole list. *)
ListMessages(c) ==
  \/ Op(c) = "list" /\ call[c].pc = "try" /\ Fetch(c, TRUE,
       UNCHANGED transients /\ IF mail THEN Moves(c, "each") ELSE Answer(c, 200))
  \/ Op(c) = "list" /\ call[c].pc = "each" /\ Fetch(c, mail, WithRetry(c, "ok"))

ReadMessage(c) == Op(c) = "read" /\ call[c].pc = "try" /\ Fetch(c, mail, WithRetry(c, "ok"))
ListEvents(c) == Op(c) = "agenda" /\ call[c].pc = "try" /\ Fetch(c, TRUE, WithRetry(c, "ok"))
GetEvent(c) == Op(c) = "get" /\ call[c].pc = "try" /\ Fetch(c, event.exists, WithRetry(c, "ok"))

(* A request that writes: done, done but answered with an error or cut off, or
   only the error. *)
Store(c, effect) ==
  \/ /\ effect /\ done' = [done EXCEPT ![c] = @ + 1]
     /\ \E outcome \in {"ok", "fatal", "transient"} : WithRetry(c, outcome)
  \/ /\ WithRetry(c, "fatal") \/ WithRetry(c, "transient")
     /\ UNCHANGED <<done, event>>

SendMessage(c) ==
  /\ Op(c) = "send" /\ call[c].pc = "try" /\ Store(c, UNCHANGED event)
  /\ UNCHANGED <<mail, edits, queued, accountVars>>

CreateEvent(c) ==
  /\ Op(c) = "create" /\ call[c].pc = "try" /\ Store(c, UNCHANGED event)
  /\ UNCHANGED <<mail, edits, queued, accountVars>>

(* ReplyMessage: the headers of the original, then the reply. *)
ReplyMessage(c) ==
  \/ /\ Op(c) = "reply" /\ call[c].pc = "try"
     /\ Fetch(c, mail, Moves(c, "reply") /\ UNCHANGED transients)
  \/ /\ Op(c) = "reply" /\ call[c].pc = "reply" /\ Store(c, UNCHANGED event)
     /\ UNCHANGED <<mail, edits, queued, accountVars>>

(* UpdateEvent gives a new start: the event is read and written back whole, so
   that a title somebody sets in between is overwritten. *)
UpdateEvent(c) ==
  \/ /\ Op(c) = "update" /\ call[c].pc = "try"
     /\ Fetch(c, event.exists,
          call' = [call EXCEPT ![c].pc = "put", ![c].saw = event.title] /\ UNCHANGED transients)
  \/ /\ Op(c) = "update" /\ call[c].pc = "put"
     /\ Store(c, event.exists /\ event' = [event EXCEPT !.title = call[c].saw, !.start = c])
     /\ UNCHANGED <<mail, edits, queued, accountVars>>

(* DeleteEvent: an attempt after one that was carried out finds no event, and
   the command reports a failure. *)
DeleteEvent(c) ==
  /\ Op(c) = "delete" /\ call[c].pc = "try"
  /\ Store(c, event.exists /\ event' = [event EXCEPT !.exists = FALSE])
  /\ UNCHANGED <<mail, edits, queued, accountVars>>

-----------------------------------------------------------------------------
(* What the command makes of the answer. *)

(* The status that GmailList, ..., GcalDeleteEvent give to postJSON. *)
Expected(op) == IF op \in {"list", "read", "agenda", "get"} THEN 200 ELSE 204

Verdict(op, status) ==
  CASE status = 403 -> "not permitted" [] status = Expected(op) -> "ok" [] OTHER -> "failed"

ReadAnswer(c) ==
  /\ call[c].pc = "answered"
  /\ call' = [call EXCEPT ![c] =
       [NewCall EXCEPT !.pc = "end", !.status = call[c].status, !.result = Verdict(Op(c), call[c].status)]]
  /\ UNCHANGED <<done, worldVars, queued, accountVars, transients>>

-----------------------------------------------------------------------------
(* The world. *)

TaskIsPruned(t) ==
  /\ t \in queued /\ queued' = queued \ {t}
  /\ UNCHANGED <<call, done, worldVars, accountVars, transients>>

MessageIsDeleted ==
  /\ mail /\ mail' = FALSE
  /\ UNCHANGED <<call, done, event, edits, queued, accountVars, transients>>

EventIsEdited ==
  /\ event.exists /\ edits < MaxEdits /\ edits' = edits + 1
  /\ event' = [event EXCEPT !.title = edits + 1]
  /\ UNCHANGED <<call, done, mail, queued, accountVars, transients>>

HandlerSteps(c) ==
  \/ PostJSON(c) \/ CheckWritePermission(c) \/ HandleGmail(c) \/ HandleGcal(c)
  \/ ListMessages(c) \/ ReadMessage(c) \/ SendMessage(c) \/ ReplyMessage(c)
  \/ ListEvents(c) \/ GetEvent(c) \/ CreateEvent(c) \/ UpdateEvent(c) \/ DeleteEvent(c)
  \/ ReadAnswer(c)

GoogleNext ==
  \/ \E c \in Calls : HandlerSteps(c)
  \/ \E a \in Accounts : SaveCredentials(a) \/ LoadIndex(a) \/ SaveIndex(a)
  \/ (\E t \in queued : TaskIsPruned(t)) \/ MessageIsDeleted \/ EventIsEdited

GoogleSpec == GoogleInit /\ [][GoogleNext]_googleVars

-----------------------------------------------------------------------------
(* Correctness. *)

Statuses == {0, 200, 204, 400, 403, 500, 503}
Progress == [pc: {"new", "never", "asked", "permitted", "try", "each", "reply", "put", "answered", "end"},
             try: 0..MaxRetries, saw: Nat, status: Statuses,
             result: {"none", "ok", "failed", "not permitted"}]
Event == [exists: BOOLEAN, title: Nat, start: Calls \union {NoTask}]
Saving == [pc: {"new", "saved", "read", "end"}, read: SUBSET Accounts]

(* Every variable keeps to its domain; however often Google was asked, a call
   is carried out once for every attempt at most. *)
GoogleTypeOK ==
  /\ call \in [Calls -> Progress] /\ done \in [Calls -> 0..(MaxRetries + 1)]
  /\ mail \in BOOLEAN /\ event \in Event
  /\ queued \subseteq DOMAIN AllowWrites /\ index \subseteq Accounts /\ creds \subseteq Accounts
  /\ setup \in [Accounts -> Saving]
  /\ transients \in 0..MaxTransient /\ edits \in 0..MaxEdits

(* What a command prints is true, whatever errors, retries, pruned tasks and
   deleted messages lie between: "ok" only if Google did it at least once, and
   "not permitted" only if it did nothing.  Nothing is done for a call that
   carries the id of a task without allow_writes.  That says nothing of what
   tasks may do: the calls of their workers carry no id (TaskID). *)
CommandsAreHonest ==
  \A c \in Calls :
    /\ call[c].result = "ok" /\ Op(c) \in Writes => done[c] >= 1
    /\ call[c].result = "not permitted" => done[c] = 0
    /\ done[c] >= 1 /\ TaskID(c) # NoTask =>
         TaskID(c) \in DOMAIN AllowWrites /\ AllowWrites[TaskID(c)]

(* The inductive invariant behind it, about a call whose progress is k and that
   Google carried out n times: nothing is done before the permission is checked
   nor without it, every attempt that is under way was preceded by one for
   everything that was done, and the status of the answer tells what was. *)
Permitted(c) ==
  TaskID(c) # NoTask => TaskID(c) \in DOMAIN AllowWrites /\ AllowWrites[TaskID(c)]

Honest(c, k, n) ==
  /\ k.pc \in {"new", "never", "asked", "permitted"} => n = 0
  /\ k.pc \in {"try", "each", "reply", "put"} => n <= k.try
  /\ Op(c) \in Writes /\ k.pc \in {"permitted", "try", "each", "reply", "put"} => Permitted(c)
  /\ n >= 1 => Permitted(c)
  /\ k.pc # "end" => k.result = "none"
  /\ k.pc = "answered" /\ k.status = 403 => n = 0
  /\ k.pc = "answered" /\ k.status = 204 /\ Op(c) \in Writes => n >= 1
  /\ k.result = "ok" /\ Op(c) \in Writes => n >= 1
  /\ k.result = "not permitted" => n = 0

HonestInv == \A c \in Calls : Honest(c, call[c], done[c])
=============================================================================
