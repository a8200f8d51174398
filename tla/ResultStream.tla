---------------------------- MODULE ResultStream -----------------------------
(***************************************************************************)
(* The way of a finished task's result: routeResult takes the destinations  *)
(* of reply_to one by one, the channel destination goes through the SSE hub *)
(* to the relay plugin, and the relay pushes it into a Claude session.      *)
(*                                                                         *)
(* Each result is routed by its own dispatcher.  The relay reads one stream *)
(* and opens another when it breaks; the server notices in its own time.    *)
(***************************************************************************)
EXTENDS Naturals, Sequences, FiniteSets

CONSTANTS
  Results,         \* results of finished tasks
  ResultsTogether,        \* sets of results that are routed in one behaviour
  ReplyTo,         \* for each result: the sequence of its destinations
  Leaking,         \* results in which the scan finds a credential
  sseBufferSize,   \* events that a subscriber may lag behind
  MaxConnections   \* bound: connections the relay opens

ASSUME StreamAssumption ==
  /\ ReplyTo \in [Results -> Seq({"telegram", "stdout", "file", "channel", "", "other"})]
  /\ ResultsTogether \subseteq SUBSET Results /\ Leaking \subseteq Results
  /\ "warning" \notin Results
  /\ sseBufferSize \in Nat \ {0} /\ MaxConnections \in Nat

VARIABLES
  routing,      \* progress of routeResult: position in reply_to, step
  telegram,     \* results and warnings sent to the owner
  files,        \* results written to a file
  quarantined,  \* results appended to the log of their task
  delivered,    \* results whose task has Delivered set
  clients,      \* the hub's subscribers
  buffer,       \* events that wait in each subscriber's channel
  socket,       \* events on their way on each connection
  conn,         \* the relay's end of each connection, callbacks to come
  timers,       \* calls of connectToStream that are due
  session       \* results pushed into the Claude session

streamVars == <<routing, telegram, files, quarantined, delivered, clients, buffer, socket, conn,
                timers, session>>
outputVars == <<telegram, files, quarantined>>
hubVars == <<clients, buffer, socket>>
relayVars == <<conn, timers, session>>

Connections == 1..MaxConnections
NoConnection == [state |-> "unused", accepted |-> FALSE, events |-> {}, reconnecting |-> FALSE]

StreamInit ==
  /\ \E finished \in ResultsTogether :
       routing = [r \in Results |-> [at |-> 1, pc |-> IF r \in finished THEN "idle" ELSE "never"]]
  /\ telegram = {} /\ files = {} /\ quarantined = {} /\ delivered = {}
  /\ clients = {} /\ buffer = [c \in Connections |-> <<>>] /\ socket = [c \in Connections |-> <<>>]
  /\ conn = [c \in Connections |-> NoConnection] /\ timers = 1 /\ session = <<>>

-----------------------------------------------------------------------------
(* routeResult. *)

Destination(r) == ReplyTo[r][routing[r].at]
At(r, dest) == routing[r].pc = "idle" /\ routing[r].at <= Len(ReplyTo[r]) /\ Destination(r) = dest

(* An error at one destination does not keep the result from the next. *)
NextDestination(r) == routing' = [routing EXCEPT ![r] = [at |-> @.at + 1, pc |-> "idle"]]

(* quarantineResult writes the result to the log of its task, if it can. *)
Quarantine(r) == quarantined' = quarantined \union {r} \/ UNCHANGED quarantined

RouteToTelegram(r) ==
  /\ At(r, "telegram") /\ NextDestination(r)
  /\ IF r \in Leaking THEN Quarantine(r) ELSE UNCHANGED quarantined
  /\ \/ telegram' = telegram \union {IF r \in Leaking THEN "warning" ELSE r}
     \/ UNCHANGED telegram
  /\ UNCHANGED <<files, delivered, hubVars, relayVars>>

(* writeFileResult refuses a path outside its two directories. *)
RouteToFile(r) ==
  /\ At(r, "file") /\ NextDestination(r)
  /\ files' = files \union {r} \/ UNCHANGED files
  /\ UNCHANGED <<telegram, quarantined, delivered, hubVars, relayVars>>

(* "stdout" sets what Complete has set already; nothing else has an effect. *)
RouteNowhere(r) ==
  /\ At(r, "stdout") \/ At(r, "") \/ At(r, "other")
  /\ NextDestination(r)
  /\ UNCHANGED <<outputVars, delivered, hubVars, relayVars>>

RouteToChannel(r) ==
  /\ At(r, "channel")
  /\ IF r \in Leaking
       THEN NextDestination(r) /\ Quarantine(r)
       ELSE routing' = [routing EXCEPT ![r].pc = "emit"] /\ UNCHANGED quarantined
  /\ UNCHANGED <<telegram, files, delivered, hubVars, relayVars>>

(* Emit offers the event to every subscriber; a full buffer drops it. *)
Emit(r) ==
  /\ routing[r].pc = "emit" /\ routing' = [routing EXCEPT ![r].pc = "count"]
  /\ buffer' = [c \in Connections |->
       IF c \in clients /\ Len(buffer[c]) < sseBufferSize THEN Append(buffer[c], r) ELSE buffer[c]]
  /\ UNCHANGED <<outputVars, delivered, clients, socket, relayVars>>

(* emitToSSE looks at the subscribers again to tell whether anybody got it. *)
CountClients(r) ==
  /\ routing[r].pc = "count"
  /\ IF clients = {} THEN NextDestination(r) ELSE routing' = [routing EXCEPT ![r].pc = "mark"]
  /\ UNCHANGED <<outputVars, delivered, hubVars, relayVars>>

MarkDelivered(r) ==
  /\ routing[r].pc = "mark" /\ NextDestination(r)
  /\ delivered' = delivered \union {r} \/ UNCHANGED delivered
  /\ UNCHANGED <<outputVars, hubVars, relayVars>>

-----------------------------------------------------------------------------
(* The handler of the stream. *)

Subscribe(c) ==
  /\ conn[c].accepted /\ conn' = [conn EXCEPT ![c].accepted = FALSE]
  /\ clients' = clients \union {c}
  /\ UNCHANGED <<routing, outputVars, delivered, buffer, socket, timers, session>>

ServeSSE(c) ==
  /\ c \in clients /\ buffer[c] # <<>> /\ buffer' = [buffer EXCEPT ![c] = Tail(@)]
  /\ socket' = [socket EXCEPT ![c] = IF conn[c].state = "open" THEN Append(@, Head(buffer[c])) ELSE @]
  /\ UNCHANGED <<routing, outputVars, delivered, clients, relayVars>>

(* The request's context ends some time after its connection. *)
Unsubscribe(c) ==
  /\ c \in clients /\ conn[c].state = "closed" /\ clients' = clients \ {c}
  /\ buffer' = [buffer EXCEPT ![c] = <<>>]
  /\ UNCHANGED <<routing, outputVars, delivered, socket, relayVars>>

-----------------------------------------------------------------------------
(* The relay. *)

(* connectToStream: the daemon answers, or there is no daemon. *)
ConnectToStream(c) ==
  /\ timers > 0 /\ timers' = timers - 1
  /\ conn[c] = NoConnection /\ \A b \in 1..(c - 1) : conn[b] # NoConnection
  /\ \/ conn' = [conn EXCEPT ![c].state = "open", ![c].accepted = TRUE]
     \/ conn' = [conn EXCEPT ![c].state = "closed", ![c].events = {"error", "close"}]
  /\ UNCHANGED <<routing, outputVars, delivered, hubVars, session>>

PushToSession(c) ==
  /\ conn[c].state = "open" /\ socket[c] # <<>>
  /\ socket' = [socket EXCEPT ![c] = Tail(@)] /\ session' = Append(session, Head(socket[c]))
  /\ UNCHANGED <<routing, outputVars, delivered, clients, buffer, conn, timers>>

(* A broken connection is announced by "close", and by "error" before it. *)
Break(c) ==
  /\ conn[c].state = "open"
  /\ \E events \in {{"close"}, {"error", "close"}} :
       conn' = [conn EXCEPT ![c].state = "closed", ![c].events = events]
  /\ socket' = [socket EXCEPT ![c] = <<>>]
  /\ UNCHANGED <<routing, outputVars, delivered, clients, buffer, timers, session>>

(* Fault: each event of a connection schedules a new one. *)
HandleDisconnectEachTime(c, event) ==
  /\ event \in conn[c].events
  /\ conn' = [conn EXCEPT ![c].events = @ \ {event}]
  /\ timers' = timers + 1
  /\ UNCHANGED <<routing, outputVars, delivered, hubVars, session>>

(* handleDisconnect is the handler of both events and acts once. *)
HandleDisconnect(c, event) ==
  /\ event \in conn[c].events
  /\ conn' = [conn EXCEPT ![c].events = @ \ {event}, ![c].reconnecting = TRUE]
  /\ timers' = IF conn[c].reconnecting THEN timers ELSE timers + 1
  /\ UNCHANGED <<routing, outputVars, delivered, hubVars, session>>

StreamNext ==
  \/ \E r \in Results :
       \/ RouteToTelegram(r) \/ RouteToFile(r) \/ RouteNowhere(r) \/ RouteToChannel(r)
       \/ Emit(r) \/ CountClients(r) \/ MarkDelivered(r)
  \/ \E c \in Connections :
       \/ Subscribe(c) \/ ServeSSE(c) \/ Unsubscribe(c)
       \/ ConnectToStream(c) \/ PushToSession(c) \/ Break(c)
       \/ \E event \in {"error", "close"} : HandleDisconnect(c, event)

StreamSpec == StreamInit /\ [][StreamNext]_streamVars

-----------------------------------------------------------------------------
(* Correctness. *)

Routing == [at: Nat, pc: {"never", "idle", "emit", "count", "mark"}]
Events == SUBSET {"error", "close"}
Connection == [state: {"unused", "open", "closed"}, accepted: BOOLEAN, events: Events,
               reconnecting: BOOLEAN]

(* Every variable keeps to its domain; only a result without a credential is
   on its way to the channel, and no subscriber lags further behind than its
   buffer allows. *)
StreamTypeOK ==
  /\ routing \in [Results -> Routing]
  /\ \A r \in Results : /\ routing[r].at \in 1..(Len(ReplyTo[r]) + 1)
                        /\ routing[r].pc \in {"emit", "count", "mark"} =>
                             routing[r].at <= Len(ReplyTo[r]) /\ Destination(r) = "channel" /\ r \notin Leaking
  /\ telegram \subseteq Results \union {"warning"}
  /\ files \subseteq Results /\ quarantined \subseteq Results /\ delivered \subseteq Results
  /\ clients \subseteq Connections /\ timers \in Nat /\ session \in Seq(Results)
  /\ buffer \in [Connections -> Seq(Results)] /\ socket \in [Connections -> Seq(Results)]
  /\ conn \in [Connections -> Connection]
  /\ \A c \in Connections : Len(buffer[c]) <= sseBufferSize

Times(s, x) == Cardinality({i \in DOMAIN s : s[i] = x})

(* The session is given a result once for each time its reply_to names the
   channel, however often the stream breaks and is opened again while old
   subscriptions linger; and a result with a credential goes neither to the
   channel nor to telegram.  A file and stdout are not scanned. *)
PushedOnce ==
  \A r \in Results :
    /\ Times(session, r) <= Times(ReplyTo[r], "channel")
    /\ r \in Leaking => r \notin telegram /\ Times(session, r) = 0

(* The inductive invariant behind it: the relay has one connection, or one call
   of connectToStream due, or one callback to come that will schedule it; a
   connection starts with nothing on its way; and what the session was given
   and what is on its way on the open connection were emitted. *)
Live(c) == conn[c].state = "open" \/ (conn[c].events # {} /\ ~conn[c].reconnecting)

OneStream ==
  /\ timers <= 1 /\ (timers = 1 => \A c \in Connections : ~Live(c))
  /\ \A b, c \in Connections : Live(b) /\ Live(c) => b = c

Clean(c) ==
  /\ conn[c].state = "unused" => ~conn[c].accepted /\ c \notin clients
  /\ conn[c].state # "closed" => conn[c].events = {} /\ ~conn[c].reconnecting
  /\ conn[c].accepted => c \notin clients
  /\ c \notin clients => buffer[c] = <<>>
  /\ conn[c].state # "open" => socket[c] = <<>>

Emitted(r) ==
  {i \in DOMAIN ReplyTo[r] :
     /\ ReplyTo[r][i] = "channel"
     /\ i < routing[r].at \/ (i = routing[r].at /\ routing[r].pc \in {"count", "mark"})}

OnItsWay(c, r) == IF conn[c].state = "open" THEN Times(buffer[c], r) + Times(socket[c], r) ELSE 0

PushInv ==
  /\ OneStream /\ \A c \in Connections : Clean(c)
  /\ \A r \in Results :
       /\ Times(session, r) <= Cardinality(Emitted(r))
       /\ \A c \in Connections : Times(session, r) + OnItsWay(c, r) <= Cardinality(Emitted(r))
       /\ r \in Leaking =>
            /\ r \notin telegram /\ Times(session, r) = 0
            /\ \A c \in Connections : Times(buffer[c], r) = 0 /\ Times(socket[c], r) = 0
=============================================================================
