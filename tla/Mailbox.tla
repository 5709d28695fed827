-------------------------------- MODULE Mailbox --------------------------------
(***************************************************************************)
(* What the relay promises about each copy of a message: it is taken once, *)
(* it is given out at most once, and once it was given out or dropped it   *)
(* never comes back.  The server holds a copy from the moment it takes it  *)
(* until then, and no longer.                                              *)
(***************************************************************************)
CONSTANT Copies

VARIABLE status

Init == status = [k \in Copies |-> "new"]

\* Copies in the set K change from one status to the other together.
Move(K, from, to) ==
  /\ \A k \in K : status[k] = from
  /\ status' = [k \in Copies |-> IF k \in K THEN to ELSE status[k]]

\* A message is taken for all its devices.
Accept == \E K \in SUBSET Copies : Move(K, "new", "held")

GiveOut == \E k \in Copies : Move({k}, "held", "received")

\* Expiry, a broken link, a failed command or a crash.
Drop == \E K \in SUBSET Copies : Move(K, "held", "gone")

Next == Accept \/ GiveOut \/ Drop

Spec == Init /\ [][Next]_status

-----------------------------------------------------------------------------
TypeOK == status \in [Copies -> {"new", "held", "received", "gone"}]

\* What was given out or dropped stays so, and what was taken is not taken again.
NeverBack ==
  [][\A k \in Copies :
       /\ status[k] \in {"received", "gone"} => status'[k] = status[k]
       /\ status[k] = "held" => status'[k] # "new"]_status
=============================================================================
