---------------------------------- MODULE Chat ---------------------------------
(***************************************************************************)
(* The chat service of the app (app/lib/services/chat_service.dart,        *)
(* local_storage.dart) on the connection of Client: messages come in and   *)
(* are sent, are shown and saved, login loads them, logout clears them.    *)
(*                                                                         *)
(* Every init adds a listener to the stream of messages and nothing        *)
(* removes one.  A handler is one activation of _onWsMessage, or of        *)
(* sendMessage with listener 0.  Encryption, decryption and the two boxes  *)
(* of the storage (package hive: a put shows in memory at once) answer     *)
(* after any other event.                                                  *)
(*                                                                         *)
(* There is one contact.  A message of a device nobody told the app about  *)
(* is kept under the device's id, which load does not look at.             *)
(***************************************************************************)
EXTENDS Client

CONSTANT MaxChats                \* bound on the messages

ASSUME ChatAssumption == MaxChats \in Nat

VARIABLES chats,                 \* how many messages there were
          listeners,             \* calls of ws.messages.listen
          known,                 \* _deviceToUser: is the contact's device in it?
          handlers,              \* activations that are not over
          shown,                 \* conversations
          opened,                \* is the box of messages open?
          saved,                 \* that box
          previews               \* the box of last messages

chatVars == <<chats, listeners, known, handlers, shown, opened, saved, previews>>
appVars == <<clientVars, chatVars>>

Keys == {"user", "device"}

\* What a handler adds to a conversation and to the storage.
Entries == [message : 1 .. MaxChats, listener : 0 .. MaxLogins, under : Keys]

ChatInit ==
  /\ ClientInit
  /\ chats = 0 /\ listeners = 0 /\ known = FALSE /\ handlers = {}
  /\ shown = {} /\ opened = FALSE /\ saved = {} /\ previews = {}

-----------------------------------------------------------------------------
\* The conversations a login begins with, when the contacts were fetched: the stored
\* ones, where there are any, take the place of what is there.
Load ==
  LET loaded == {e \in saved : e.under = "user"}
  IN  /\ known' = TRUE /\ opened' = TRUE
      /\ shown' = IF loaded = {} THEN shown
                  ELSE loaded \cup {e \in shown : e.under # "user"}

\* refreshContacts swallows its errors, and then there is nothing to load.
Loaded ==
  /\ Load \/ UNCHANGED <<known, opened, shown>>
  /\ UNCHANGED <<chats, listeners, handlers, saved, previews>>

\* refreshContacts of the other screens.
RefreshContacts ==
  /\ phase = "in" /\ ~known
  /\ known' = TRUE
  /\ UNCHANGED <<chats, listeners, handlers, shown, opened, saved, previews, clientVars>>

Start == BeginInit /\ UNCHANGED chatVars

LoadAndConnect == Login /\ Loaded

LoadAndFail == InitFails /\ Loaded

\* An activation of _doConnect is over; init goes on when it was the one it waited for.
Settle(n) ==
  /\ Resolve(n)
  /\ listeners' = IF n = initial THEN listeners + 1 ELSE listeners
  /\ UNCHANGED <<chats, known, handlers, shown, opened, saved, previews>>

\* A frame on a stream that is listened to: each listener's handler awaits decrypt.
Receive ==
  /\ \E n \in live : socket[n] = "open"
  /\ Pending = {} /\ chats < MaxChats
  /\ chats' = chats + 1
  /\ handlers' = handlers \cup
       {[message |-> chats + 1, listener |-> k, at |-> "crypto"] : k \in 1 .. listeners}
  /\ UNCHANGED <<listeners, known, shown, opened, saved, previews, clientVars>>

\* sendMessage, which awaits encrypt; a conversation is open for a contact only.
SendChat ==
  /\ phase = "in" /\ known /\ chats < MaxChats
  /\ chats' = chats + 1
  /\ handlers' = handlers \cup {[message |-> chats + 1, listener |-> 0, at |-> "crypto"]}
  /\ UNCHANGED <<listeners, known, shown, opened, saved, previews, clientVars>>

\* The text is there: it is shown, and saved as soon as the box is open.
Show(h) ==
  LET e == [message |-> h.message, listener |-> h.listener,
            under |-> IF known \/ h.listener = 0 THEN "user" ELSE "device"]
  IN  /\ h \in handlers /\ h.at = "crypto"
      /\ shown' = shown \cup {e}
      /\ saved' = IF opened THEN saved \cup {e} ELSE saved
      /\ handlers' = (handlers \ {h}) \cup
                       {[entry |-> e, at |-> IF opened THEN "put" ELSE "open"]}
      /\ UNCHANGED <<chats, listeners, known, opened, previews, clientVars>>

\* The box of messages, which a save or clear waits for.
BoxOpens ==
  /\ ~opened
  /\ phase = "clearing" \/ \E h \in handlers : h.at = "open"
  /\ opened' = TRUE
  /\ UNCHANGED <<chats, listeners, known, handlers, shown, saved, previews, clientVars>>

Save(h) ==
  /\ h \in handlers /\ h.at = "open" /\ opened
  /\ saved' = saved \cup {h.entry}
  /\ handlers' = (handlers \ {h}) \cup {[h EXCEPT !.at = "put"]}
  /\ UNCHANGED <<chats, listeners, known, shown, opened, previews, clientVars>>

\* The put is done: the preview follows.
SavePreview(h) ==
  /\ h \in handlers /\ h.at = "put"
  /\ previews' = previews \cup {h.entry.under}
  /\ handlers' = handlers \ {h}
  /\ UNCHANGED <<chats, listeners, known, shown, opened, saved, clientVars>>

-----------------------------------------------------------------------------
Logout == BeginLogout /\ UNCHANGED chatVars

\* LocalStorage.clear: first the box of messages ...
ClearMessages ==
  /\ phase = "clearing" /\ opened
  /\ phase' = "cleared"
  /\ saved' = {}
  /\ UNCHANGED <<connection, initial, logins>>
  /\ UNCHANGED <<chats, listeners, known, handlers, shown, opened, previews>>

\* Mutant: conversations are not cleared.
ClearAndKeepShown ==
  /\ Disconnect
  /\ previews' = {} /\ known' = FALSE
  /\ UNCHANGED <<chats, listeners, handlers, shown, opened, saved>>

\* ... then that of the previews, then what is in memory; ws.disconnect comes last.
ClearAndDisconnect ==
  /\ Disconnect
  /\ previews' = {} /\ shown' = {} /\ known' = FALSE
  /\ UNCHANGED <<chats, listeners, handlers, opened, saved>>

\* The events of the connection that are nothing to the chat service.
Timer == TimerFires /\ UNCHANGED chatVars
StreamEnds(n) == (OnError(n) \/ OnDone(n)) /\ UNCHANGED chatVars
Leave == LoggedOut /\ UNCHANGED chatVars

ChatNext ==
  \/ Start \/ LoadAndConnect \/ LoadAndFail \/ Logout \/ ClearMessages
  \/ ClearAndDisconnect \/ Leave \/ Timer
  \/ RefreshContacts \/ Receive \/ SendChat \/ BoxOpens
  \/ \E n \in Sockets : Settle(n) \/ StreamEnds(n)
  \/ \E h \in handlers : Show(h) \/ Save(h) \/ SavePreview(h)

ChatSpec == ChatInit /\ [][ChatNext]_appVars

\* The event loop gets to every timer and to every stream that is over, and an attempt to
\* connect does not take forever.  No connection has to break, nobody has to log in or out.
ChatFairness ==
  /\ WF_appVars(Timer)
  /\ \A n \in Sockets : /\ WF_appVars(Settle(n))
                         /\ WF_appVars(n \in Pending /\ StreamEnds(n))

ChatFairSpec == ChatSpec /\ ChatFairness

-----------------------------------------------------------------------------
(* Properties *)

ChatTypeOK ==
  /\ ClientTypeOK
  /\ chats \in 0 .. MaxChats /\ listeners \in 0 .. logins
  /\ known \in BOOLEAN /\ opened \in BOOLEAN
  /\ handlers \subseteq [message : 1 .. MaxChats, listener : 0 .. MaxLogins, at : {"crypto"}]
                          \cup [entry : Entries, at : {"open", "put"}]
  /\ shown \subseteq Entries /\ saved \subseteq Entries
  /\ previews \subseteq Keys

\* Entries that wait for the box to open.
Unsaved == {h.entry : h \in {g \in handlers : g.at = "open"}}

\* local_storage.dart:4, "Persists messages locally using Hive so they survive app reload":
\* whoever is logged in sees nothing that is not stored or about to be, whatever handlers,
\* also of an earlier login, were in the middle when the storage was loaded or cleared.
ShownIsKept == phase = "in" => shown \subseteq saved \cup Unsaved

\* local_storage.dart:64, "Clear all local data (on logout).": at the login screen nothing
\* is stored.
LoggedOutClean == phase = "out" => saved = {} /\ previews = {}
=============================================================================
