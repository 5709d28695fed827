---------------------------------- MODULE Client -------------------------------
(***************************************************************************)
(* The connection of the app to the relay (app/lib/services/               *)
(* ws_client.dart), as the chat service logs in and out with it            *)
(* (chat_service.dart).  Chat adds what the chat service itself does.      *)
(*                                                                         *)
(* The app is one event loop: a step runs from one event to the next       *)
(* await that another event can come in before.  Reading the access token  *)
(* is none, the preferences are in memory by then.  An activation of       *)
(* _doConnect that awaits `ready` is its socket in the state "opening".    *)
(* Delays are left out: a timer may fire at any time.  So is dispose,      *)
(* which nothing in the app calls.                                         *)
(***************************************************************************)
EXTENDS Naturals, FiniteSets

CONSTANTS Sockets, NoSocket,
          MaxAttempts,           \* 10 in the code
          MaxLogins              \* bound on the logins

ASSUME ClientAssumption ==
  /\ NoSocket \notin Sockets
  /\ MaxAttempts \in Nat \ {0} /\ MaxLogins \in Nat

VARIABLES phase,                 \* how far the app is with login and logout
          initial,               \* the socket init waits for
          wanted,                \* _shouldReconnect
          attempts,              \* _reconnectAttempts
          channel,               \* _channel
          subscription,          \* _subscription
          socket,                \* the state of each socket
          shut,                  \* sockets that were closed before they were ready
          live,                  \* sockets whose stream somebody listens to
          used,                  \* sockets whose stream was ever listened to
          timers,                \* callbacks of Future.delayed still to come
          logins                 \* how many there were

connection == <<wanted, attempts, channel, subscription, socket, shut, live, used, timers>>
service == <<phase, initial, logins>>
clientVars == <<connection, service>>

Opening == {n \in Sockets : socket[n] = "opening"}

\* Sockets nothing in the app refers to; a channel that is open is listened to.
UnusedSockets == {n \in Sockets : n # channel /\ n \notin live \cup Opening}

\* Streams that are over and whose events are the next ones in the queue.
Pending == {n \in live : socket[n] \in {"failed", "closed"}}

ClientInit ==
  /\ phase = "out" /\ initial = NoSocket /\ logins = 0
  /\ wanted = FALSE /\ attempts = 0 /\ timers = 0
  /\ channel = NoSocket /\ subscription = NoSocket
  /\ socket = [n \in Sockets |-> "closed"]
  /\ shut = {} /\ live = {} /\ used = {}

-----------------------------------------------------------------------------
\* _doConnect up to the await: a new socket takes the place of the field.
DoConnect ==
  LET n == CHOOSE x \in UnusedSockets : TRUE
  IN  /\ UnusedSockets # {}
      /\ channel' = n
      /\ socket' = [socket EXCEPT ![n] = "opening"]
      /\ used' = used \ {n} /\ shut' = shut \ {n}
      /\ UNCHANGED <<subscription, live>>

\* _scheduleReconnect.
ScheduleReconnect ==
  IF wanted /\ attempts < MaxAttempts
  THEN attempts' = attempts + 1 /\ timers' = timers + 1
  ELSE UNCHANGED <<attempts, timers>>

\* Mutant: an activation that fails leaves it at that.
DropFailure ==
  /\ channel' = NoSocket
  /\ UNCHANGED <<attempts, timers>>

\* The catch of _doConnect.
CatchFailure ==
  /\ channel' = NoSocket
  /\ ScheduleReconnect

\* Mutant: the subscription is forgotten, not cancelled.
CleanupWithoutCancel(n) ==
  live' = live \ n /\ subscription' = NoSocket /\ channel' = NoSocket

\* _cleanup; n is the socket whose stream is done, if it is.
Cleanup(n) ==
  /\ live' = live \ ({subscription} \cup n) /\ subscription' = NoSocket
  /\ channel' = NoSocket

-----------------------------------------------------------------------------
\* login, or the start of the app with tokens, and ChatService.init up to its awaits.
BeginInit ==
  /\ phase = "out" /\ logins < MaxLogins
  /\ phase' = "loading" /\ logins' = logins + 1
  /\ UNCHANGED <<connection, initial>>

\* An exception in init, which the screens swallow: there is no connection to come.
InitFails ==
  /\ phase = "loading"
  /\ phase' = "in"
  /\ UNCHANGED <<connection, initial, logins>>

\* The rest of init up to the await of ws.connect.
Login ==
  /\ phase = "loading" /\ Pending = {}
  /\ phase' = "connecting"
  /\ wanted' = TRUE /\ attempts' = 0
  /\ DoConnect /\ initial' = channel'
  /\ UNCHANGED <<timers, logins>>

\* ... and what follows it, when its activation is over.
Initialized(n) ==
  IF n = initial
  THEN phase' = "in" /\ initial' = NoSocket /\ UNCHANGED logins
  ELSE UNCHANGED service

\* `ready` completes.  The activation listens to the socket of the field: an exception
\* when the field is null or that stream has been listened to before.
Ready(n) ==
  /\ n \in Opening
  /\ socket' = [socket EXCEPT ![n] = IF n \in shut THEN "closed" ELSE "open"]
  /\ IF channel # NoSocket /\ channel \notin used
     THEN /\ attempts' = 0
          /\ subscription' = channel
          /\ live' = live \cup {channel} /\ used' = used \cup {channel}
          /\ UNCHANGED <<channel, timers>>
     ELSE /\ channel' = NoSocket
          /\ IF wanted THEN attempts' = 1 /\ timers' = timers + 1
             ELSE attempts' = 0 /\ UNCHANGED timers
          /\ UNCHANGED <<subscription, live, used>>
  /\ UNCHANGED <<wanted, shut>>

\* `ready` completes with an error, which is an event of the stream as well.
Refused(n) ==
  /\ n \in Opening
  /\ socket' = [socket EXCEPT ![n] = "failed"]
  /\ CatchFailure
  /\ UNCHANGED <<wanted, subscription, shut, live, used>>

Resolve(n) == Pending = {} /\ (Ready(n) \/ Refused(n)) /\ Initialized(n)

OnError(n) ==
  /\ n \in live /\ socket[n] = "failed"
  /\ socket' = [socket EXCEPT ![n] = "closed"]
  /\ Cleanup({})
  /\ ScheduleReconnect
  /\ UNCHANGED <<wanted, shut, used, service>>

\* The end of a stream, as soon as the connection is lost.
OnDone(n) ==
  /\ n \in live /\ socket[n] \in {"open", "closed"}
  /\ socket' = [socket EXCEPT ![n] = "closed"]
  /\ Cleanup({n})
  /\ ScheduleReconnect
  /\ UNCHANGED <<wanted, shut, used, service>>

\* The callback of Future.delayed.
TimerFires ==
  /\ timers > 0 /\ Pending = {}
  /\ timers' = timers - 1
  /\ IF wanted THEN DoConnect ELSE UNCHANGED <<channel, socket, used, shut, subscription, live>>
  /\ UNCHANGED <<wanted, attempts, service>>

\* logout begins, with LocalStorage.clear.
BeginLogout ==
  /\ phase = "in"
  /\ phase' = "clearing"
  /\ UNCHANGED <<connection, initial, logins>>

\* Mutant: the flag stays.
DisconnectWanted ==
  /\ phase = "cleared"
  /\ phase' = "closing"
  /\ live' = live \ {subscription} /\ subscription' = NoSocket
  /\ shut' = IF channel \in Opening THEN shut \cup {channel} ELSE shut
  /\ socket' = [n \in Sockets |->
                  IF n = channel /\ n \notin Opening THEN "closed" ELSE socket[n]]
  /\ UNCHANGED <<wanted, attempts, channel, used, timers, initial, logins>>

\* WsClient.disconnect, the last thing ChatService.logout does, up to the await.
Disconnect ==
  /\ phase = "cleared"
  /\ phase' = "closing"
  /\ wanted' = FALSE
  /\ live' = live \ {subscription} /\ subscription' = NoSocket
  /\ shut' = IF channel \in Opening THEN shut \cup {channel} ELSE shut
  /\ socket' = [n \in Sockets |->
                  IF n = channel /\ n \notin Opening THEN "closed" ELSE socket[n]]
  /\ UNCHANGED <<attempts, channel, used, timers, initial, logins>>

\* What follows the await, to the login screen.
LoggedOut ==
  /\ phase = "closing"
  /\ phase' = "out"
  /\ channel' = NoSocket
  /\ UNCHANGED <<wanted, attempts, subscription, socket, shut, live, used, timers>>
  /\ UNCHANGED <<initial, logins>>

-----------------------------------------------------------------------------
(* Properties *)

ClientTypeOK ==
  /\ phase \in {"out", "loading", "connecting", "in", "clearing", "cleared", "closing"}
  /\ (phase = "connecting") = (initial \in Opening)
  /\ wanted \in BOOLEAN
  /\ phase = "connecting" => wanted
  /\ wanted => phase \in {"connecting", "in", "clearing", "cleared"}
  /\ attempts \in 0 .. MaxAttempts
  /\ {channel, subscription, initial} \subseteq Sockets \cup {NoSocket}
  /\ socket \in [Sockets -> {"opening", "open", "failed", "closed"}]
  /\ shut \subseteq Sockets /\ live \subseteq used /\ used \subseteq Sockets
  /\ timers \in Nat /\ logins \in 0 .. MaxLogins
  /\ UnusedSockets # {}

\* What keeps the client going: attempts to connect, timers, streams that are heard.
Lifelines == Cardinality(Opening) + timers + Cardinality(live)

\* Nothing cancels a timer, and no activation knows of another; all the same, in the
\* first login errors, ends and retries never make one lifeline into two, and a stream
\* that is heard is that of the channel what is sent goes to.  A second login adds one
\* at most, to what the logout before it left behind.  Three can make more: of two
\* lifelines in each other's way both retry, and the third with them.
OneConnection ==
  /\ logins <= 2 => Lifelines <= logins
  /\ logins <= 1 /\ phase = "in" =>
       live = {channel} \ (Opening \cup {NoSocket}) /\ live = {subscription} \ {NoSocket}

\* It has given up: ten attempts in a row failed, and nothing will connect again.  After a
\* second login a stream of the first may still be heard, but nothing can be sent.
GaveUp == attempts = MaxAttempts /\ Opening = {} /\ timers = 0 /\ subscription \notin live

\* A client that wants a connection, and has no lifeline of an earlier login besides
\* its own, gets to hear an open one, unless it gives up or logs out.
ComesBack ==
  wanted /\ Lifelines <= 1 ~>
    \/ subscription \in live /\ socket[subscription] = "open"
    \/ GaveUp \/ ~wanted
=============================================================================
