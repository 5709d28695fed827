-------------------------------- MODULE MCRelay --------------------------------
(* Small instances of the relay: a phone with two connections, a tablet that  *)
(* stays away, and the scripts of the senders, chosen by each configuration.  *)
EXTENDS RelayMailbox, TLC

CONSTANTS phone, m1, m2, s1, s2

\* All connections are of the phone.
OneDevice == [c \in Conns |-> phone]

\* A sender that got no answer for m1 sends it again later.
RetryScript == [s \in Senders |-> <<m1, m2, m1>>]

\* Two senders send one message each.
TwoScripts == s1 :> <<m1>> @@ s2 :> <<m2>>

ToPhone == [m \in Messages |-> {phone}]

\* m1 goes to every device, m2 to the phone.
GroupAndPhone == m1 :> Devices @@ m2 :> {phone}

AllDirect == [m \in Messages |-> "direct"]

GroupAndEvent == m1 :> "group" @@ m2 :> "event"
=============================================================================
