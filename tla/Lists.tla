-------------------------------- MODULE Lists --------------------------------
(***************************************************************************)
(* Lists that are gone through from the left, as lists of filters and of   *)
(* accounts are.                                                           *)
(***************************************************************************)
EXTENDS Integers, Sequences

(* What s has of the elements of S, in the order of s. *)
Keep(s, S) ==
  LET kept[i \in 0..Len(s)] ==
        IF i = 0 THEN << >> ELSE IF s[i] \in S THEN Append(kept[i - 1], s[i]) ELSE kept[i - 1]
  IN  kept[Len(s)]
=============================================================================
