--------------------------------- MODULE MCWipe --------------------------------
(* A small instance of remote wipe: the phone wipes a conversation, on its      *)
(* user's devices and on the partner's, whose tablet never connects. The phone  *)
(* may have two connections at a time.                                          *)
EXTENDS Wipe, TLC

CONSTANTS phone, tablet, c1, c2, w1

\* The user's own list and the partner's.
TwoLists == w1 :> {{phone}, {tablet}}

FromPhone == w1 :> phone

DeviceOfConn == [c \in Conns |-> phone]
=============================================================================
