--------------------------- MODULE MCFollowUpCadence ---------------------------
(* FollowUpCadence for TLC: a ladder of two rungs. *)
EXTENDS FollowUpCadence

\* Two states that differ only in the rungs used up by an excused chase behave
\* alike, and both properties that speak of the rungs pass over them.
Counted ==
  <<IF chase.excused THEN [chase EXCEPT !.spent = {}] ELSE chase,
    leadVars, inbound, sweep, late>>
================================================================================
