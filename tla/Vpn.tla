----------------------------------- MODULE Vpn ---------------------------------
(***************************************************************************)
(* The VPN routes (routes/vpn.rs, hysj-db/src/vpn.rs): a user connects to  *)
(* a server, which ends the session it had, and disconnects.  Every SQL    *)
(* statement is a step, and each call is made of several that no           *)
(* transaction holds together.                                             *)
(*                                                                         *)
(* A caller is a task that serves one request after another; two callers   *)
(* can serve the same user at the same time.  Key pairs are named after    *)
(* the caller that generated them.  A user keeps a pair for good.          *)
(***************************************************************************)
EXTENDS Integers, Sequences, FiniteSets, FiniteSetsExt

CONSTANTS VpnUsers, VpnServers, VpnCallers,
          MaxConnections,        \* max_connections of each server
          MaxSessions,           \* bound on the sessions ever made
          MaxVpnErrors,          \* bound on the statements that fail
          NoVpnKey, NoServer

ASSUME VpnAssumption ==
  /\ MaxConnections \in Nat \ {0} /\ MaxSessions \in Nat /\ MaxVpnErrors \in Nat
  /\ NoVpnKey \notin VpnCallers /\ NoServer \notin VpnServers
  /\ IsFiniteSet(VpnCallers)

VARIABLES sessions,              \* vpn_sessions, in the order they were started
          load,                  \* vpn_servers.current_connections
          vpnKey,                \* user_vpn_keys.public_key
          call,                  \* the request of each caller and how far it is
          uncounted,             \* for each server, increments that failed
          vpnErrors

vpnVars == <<sessions, load, vpnKey, call, uncounted, vpnErrors>>
vpnGhosts == <<uncounted, vpnErrors>>

\* No request is being served.
IdleCall == [at |-> "idle"]

ActiveOf(u) == {i \in DOMAIN sessions : sessions[i].active /\ sessions[i].user = u}
ActiveOn(s) == {i \in DOMAIN sessions : sessions[i].active /\ sessions[i].server = s}

\* The last two octets of the address for a server with n active sessions.
Address(n) ==
  LET ipNum == n + 2
  IN  << (ipNum \div 256) % 256, Max({ipNum % 256, 2}) >>

VpnInit ==
  /\ sessions = << >>
  /\ load = [s \in VpnServers |-> 0]
  /\ vpnKey = [u \in VpnUsers |-> NoVpnKey]
  /\ call = [c \in VpnCallers |-> IdleCall]
  /\ uncounted = [s \in VpnServers |-> 0]
  /\ vpnErrors = 0

-----------------------------------------------------------------------------
Becomes(c, next) == call' = [call EXCEPT ![c] = next]
Answered(c) == Becomes(c, IdleCall)
Go(c, where) == Becomes(c, [call[c] EXCEPT !.at = where])

\* disconnect is done when the session is ended, connect goes on.
GoOn(c) ==
  IF call[c].server = NoServer THEN Answered(c)
  ELSE Becomes(c, [call[c] EXCEPT !.at = "keys", !.ending = 0])

\* Session i is the one started last of those its user has, and is to be ended.
Ends(c, i) ==
  /\ \A j \in ActiveOf(call[c].user) : j <= i
  /\ Becomes(c, [call[c] EXCEPT !.at = "end", !.ending = i])

\* A request of user u arrives; s is where it wants to connect to.
VpnBegin(c, u, s) ==
  /\ call[c] = IdleCall
  /\ Becomes(c, [at |-> "active", user |-> u, server |-> s,
                 ending |-> 0, key |-> NoVpnKey, counted |-> 0])
  /\ UNCHANGED <<sessions, load, vpnKey, vpnGhosts>>

\* connect: list_servers, and the check against max_connections.
VpnConnect(c, u, s) ==
  /\ load[s] < MaxConnections
  /\ Len(sessions) < MaxSessions
  /\ VpnBegin(c, u, s)

VpnDisconnect(c, u) == VpnBegin(c, u, NoServer)

\* Mutant: connect leaves the session there is alone.
GetActiveSessionToDisconnect(c) ==
  /\ call[c].at = "active"
  /\ \/ /\ call[c].server = NoServer
        /\ \E i \in ActiveOf(call[c].user) : Ends(c, i)
     \/ call[c].server # NoServer /\ GoOn(c)
  /\ UNCHANGED <<sessions, load, vpnKey, vpnGhosts>>

\* get_active_session: the one started last.  disconnect fails without one.
GetActiveSession(c) ==
  /\ call[c].at = "active"
  /\ \/ \E i \in ActiveOf(call[c].user) : Ends(c, i)
     \/ ActiveOf(call[c].user) = {} /\ GoOn(c)
  /\ UNCHANGED <<sessions, load, vpnKey, vpnGhosts>>

\* Mutant: the number of rows the UPDATE changed is not looked at.
EndSessionUnchecked(c) ==
  /\ call[c].at = "end"
  /\ sessions' = [sessions EXCEPT ![call[c].ending].active = FALSE]
  /\ Go(c, "decrement")
  /\ UNCHANGED <<load, vpnKey, vpnGhosts>>

\* end_session, its first UPDATE: the call fails if the session has ended meanwhile.
EndSession(c) ==
  /\ call[c].at = "end"
  /\ sessions' = [sessions EXCEPT ![call[c].ending].active = FALSE]
  /\ IF sessions[call[c].ending].active THEN Go(c, "decrement") ELSE Answered(c)
  /\ UNCHANGED <<load, vpnKey, vpnGhosts>>

\* Mutant: without GREATEST(..., 0).
DecrementBelowZero(c) ==
  /\ call[c].at = "decrement"
  /\ load' = [load EXCEPT ![sessions[call[c].ending].server] = @ - 1]
  /\ GoOn(c)
  /\ UNCHANGED <<sessions, vpnKey, vpnGhosts>>

\* end_session, its second UPDATE, at the server of the session: never below 0.
Decrement(c) ==
  /\ call[c].at = "decrement"
  /\ load' = [load EXCEPT ![sessions[call[c].ending].server] = Max({@ - 1, 0})]
  /\ GoOn(c)
  /\ UNCHANGED <<sessions, vpnKey, vpnGhosts>>

\* get_vpn_keys: the stored pair, or a new one that is to be stored.
GetVpnKeys(c) ==
  /\ call[c].at = "keys"
  /\ LET stored == vpnKey[call[c].user]
     IN  Becomes(c, IF stored # NoVpnKey
                    THEN [call[c] EXCEPT !.at = "count", !.key = stored]
                    ELSE [call[c] EXCEPT !.at = "store", !.key = c])
  /\ UNCHANGED <<sessions, load, vpnKey, vpnGhosts>>

\* store_vpn_keys: an upsert, the last pair stored stays.
StoreVpnKeys(c) ==
  /\ call[c].at = "store"
  /\ vpnKey' = [vpnKey EXCEPT ![call[c].user] = call[c].key]
  /\ Go(c, "count")
  /\ UNCHANGED <<sessions, load, vpnGhosts>>

\* count_sessions: what the address is made of.
CountSessions(c) ==
  /\ call[c].at = "count"
  /\ Becomes(c, [call[c] EXCEPT !.at = "insert",
                                !.counted = Cardinality(ActiveOn(call[c].server))])
  /\ UNCHANGED <<sessions, load, vpnKey, vpnGhosts>>

\* create_session, the INSERT.
InsertSession(c) ==
  /\ call[c].at = "insert"
  /\ sessions' = Append(sessions, [user    |-> call[c].user,
                                   server  |-> call[c].server,
                                   key     |-> call[c].key,
                                   address |-> Address(call[c].counted),
                                   active  |-> TRUE])
  /\ Becomes(c, [call[c] EXCEPT !.at = "increment", !.key = NoVpnKey, !.counted = 0])
  /\ UNCHANGED <<load, vpnKey, vpnGhosts>>

\* create_session, the UPDATE of the server.
Increment(c) ==
  /\ call[c].at = "increment"
  /\ load' = [load EXCEPT ![call[c].server] = @ + 1]
  /\ Answered(c)
  /\ UNCHANGED <<sessions, vpnKey, vpnGhosts>>

\* A statement fails: the request ends, what was done before stays done.
VpnError(c) ==
  /\ vpnErrors < MaxVpnErrors
  /\ call[c] # IdleCall
  /\ Answered(c)
  /\ vpnErrors' = vpnErrors + 1
  /\ uncounted' = IF call[c].at = "increment"
                  THEN [uncounted EXCEPT ![call[c].server] = @ + 1] ELSE uncounted
  /\ UNCHANGED <<sessions, load, vpnKey>>

VpnNext == \E c \in VpnCallers :
  \/ \E u \in VpnUsers : VpnDisconnect(c, u) \/ \E s \in VpnServers : VpnConnect(c, u, s)
  \/ GetActiveSession(c) \/ EndSession(c) \/ Decrement(c)
  \/ GetVpnKeys(c) \/ StoreVpnKeys(c) \/ CountSessions(c)
  \/ InsertSession(c) \/ Increment(c)
  \/ VpnError(c)

VpnSpec == VpnInit /\ [][VpnNext]_vpnVars

-----------------------------------------------------------------------------
(* Properties *)

SessionRecords ==
  [user : VpnUsers, server : VpnServers, key : VpnCallers, active : BOOLEAN,
   address : (0 .. 255) \X (2 .. 255)]

Calls ==
  [at : {"active", "end", "decrement", "keys", "store", "count", "insert", "increment"},
   user : VpnUsers, server : VpnServers \cup {NoServer},
   ending : Nat, key : VpnCallers \cup {NoVpnKey}, counted : Nat]

\* The tables hold what the schema allows, and a request has at each step what the
\* step works with.
VpnTypeOK ==
  /\ sessions \in Seq(SessionRecords)
  /\ load \in [VpnServers -> Nat] /\ uncounted \in [VpnServers -> Nat]
  /\ vpnKey \in [VpnUsers -> VpnCallers \cup {NoVpnKey}]
  /\ vpnErrors \in 0 .. MaxVpnErrors
  /\ call \in [VpnCallers -> Calls \cup {IdleCall}]
  /\ \A c \in VpnCallers :
       /\ call[c].at \in {"end", "decrement"} =>
            /\ call[c].ending \in DOMAIN sessions
            /\ sessions[call[c].ending].user = call[c].user
       /\ call[c].at \in {"keys", "store", "count", "insert", "increment"} =>
            call[c].server \in VpnServers
       /\ call[c].at \in {"store", "count", "insert"} => call[c].key \in VpnCallers

\* current_connections is never below the number of active sessions of a server, but
\* for the increments that are still to come or failed: the check in connect errs on
\* the safe side, whatever order the sessions begin and end in.
LoadCoversSessions == \A s \in VpnServers :
  Cardinality(ActiveOn(s)) <=
    load[s] + uncounted[s]
            + Cardinality({c \in VpnCallers : call[c].at = "increment" /\ call[c].server = s})

\* connect ends the session there was, and then starts one.  Looking and ending are
\* apart, so a user can be left with several sessions, but never with more than there
\* are callers, those included that are still to be started: one, where a user's
\* requests do not overlap.
SessionsBounded == \A u \in VpnUsers :
  Cardinality(ActiveOf(u))
    + Cardinality({c \in VpnCallers : /\ call[c].at \in {"keys", "store", "count", "insert"}
                                      /\ call[c].user = u})
    <= Cardinality(VpnCallers)

\* routes/vpn.rs:81 says that the session count is used "to avoid collisions": two
\* active sessions of a server have different addresses.
AddressesDistinct == \A s \in VpnServers : \A i, j \in ActiveOn(s) :
  sessions[i].address = sessions[j].address => i = j
=============================================================================
