---------------------------- MODULE MCOptOutList ----------------------------
(* An instance of OptOutList for TLC: interchangeable numbers.             *)
EXTENDS OptOutList, TLC

AllNumbers == {Numbers}

NumberSymmetry == Permutations(Numbers)

(* Bound: a third save is explored beside a fault or a crash, not both.    *)
ThirdOrBoth == saves = 3 => faults + crashes < 2
=============================================================================
