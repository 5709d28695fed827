-------------------------------- MODULE Channel --------------------------------
(***************************************************************************)
(* What the application may count on in a conversation: each end reads     *)
(* what the other one wrote, each message once and in the order of         *)
(* writing.  Nothing is read that was not written, and nothing that was    *)
(* read is taken back.                                                     *)
(***************************************************************************)
EXTENDS Naturals, Sequences, SequencesExt

CONSTANT Ends

VARIABLES written,               \* messages of each end, in the order of writing
          read                   \* messages of each end that the other one read

Init ==
  /\ written = [e \in Ends |-> << >>]
  /\ read = [e \in Ends |-> << >>]

\* One more message, whatever it says.
Write(e) ==
  /\ \E m \in ToSet(written'[e]) : written' = [written EXCEPT ![e] = Append(@, m)]
  /\ UNCHANGED read

Read(e) ==
  /\ Len(read[e]) < Len(written[e])
  /\ read' = [read EXCEPT ![e] = Append(@, written[e][Len(@) + 1])]
  /\ UNCHANGED written

Next == \E e \in Ends : Write(e) \/ Read(e)

Spec == Init /\ [][Next]_<<written, read>>
=============================================================================
