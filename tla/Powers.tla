--------------------------------- MODULE Powers ---------------------------------
(***************************************************************************)
(* What a shift to the left multiplies by: << n of a bit, << 8 * n of a    *)
(* byte.                                                                   *)
(***************************************************************************)
EXTENDS Naturals

Power(base) ==
  LET p[n \in Nat] == IF n = 0 THEN 1 ELSE base * p[n - 1]
  IN p
================================================================================
