------------------------------- MODULE MCServices -------------------------------
EXTENDS Services

LOCAL INSTANCE SequencesExt

(* A target whose first character comes once in it.                        *)
TwoCharacters == <<"digit", "x">>

(* find and findUntil stop at the first occurrence of such a target and    *)
(* nowhere else (Stream.h:123-130); where the first character comes again  *)
(* in the target, as in "aab", an occurrence can be missed.                *)
MatchIndex(s) == FoldLeft(Matched, 0, s)
EndsWithTarget(s) ==
  Len(s) >= Len(Target) /\ SubSeq(s, Len(s) - Len(Target) + 1, Len(s)) = Target

ASSUME FindStopsAtTarget ==
  \A s \in BoundedSeq(Characters, 5) :
    (\A n \in 0..Len(s) - 1 : MatchIndex(SubSeq(s, 1, n)) < Len(Target)) =>
      (MatchIndex(s) = Len(Target) <=> EndsWithTarget(s))
================================================================================
