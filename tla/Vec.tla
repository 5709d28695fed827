----------------------------------- MODULE Vec ---------------------------------
(***************************************************************************)
(* What the code uses of Rust's Vec and is no operator on sequences yet.   *)
(***************************************************************************)
EXTENDS Naturals, Sequences

\* Vec::retain: the elements of s that are in S, in their order.
Retain(s, S) ==
  LET kept[n \in 0 .. Len(s)] ==
        IF n = 0 THEN << >>
        ELSE IF s[n] \in S THEN Append(kept[n - 1], s[n]) ELSE kept[n - 1]
  IN  kept[Len(s)]
=============================================================================
