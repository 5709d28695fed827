----------------------------- MODULE RelayMailbox ------------------------------
(***************************************************************************)
(* The relay implements the mailbox: the refinement mapping computes the   *)
(* status of a copy from where the relay keeps it and what arrived.        *)
(* Messages are sent once (no id occurs twice in the scripts).             *)
(***************************************************************************)
EXTENDS Relay

Copy == {k \in Messages \X Devices : k[2] \in Dest[k[1]]}

Arrivals(m, d) == Cardinality({i \in DOMAIN received[d] : received[d][i] = m})

\* A copy that arrived twice, or arrived and is still held, has a status the
\* mailbox does not know.
CopyStatus ==
  [k \in Copy |->
     LET m == k[1]  d == k[2]
     IN  IF Arrivals(m, d) > 0
         THEN IF Arrivals(m, d) = 1 /\ ~Held(m, d) THEN "received" ELSE "duplicated"
         ELSE IF Held(m, d) THEN "held" ELSE IF Submitted(m) THEN "gone" ELSE "new"]

Box == INSTANCE Mailbox WITH Copies <- Copy, status <- CopyStatus

\* As long as a device does not reconnect before its old connection is cleaned
\* up, no interleaving of handlers, drains, expiry, failing commands and
\* crashes makes a message arrive twice or come back after it was dropped.
MailboxSpec == Box!Spec
=============================================================================
