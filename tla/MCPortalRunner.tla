--------------------------- MODULE MCPortalRunner ---------------------------
(* An instance of PortalRunner for TLC: interchangeable computers, tasks.  *)
EXTENDS PortalRunner, TLC

PortalSymmetry == Permutations(Computers) \union Permutations(Tasks)

Some(runners, installs, starts, resets, troubles) ==
  [runners |-> runners, installs |-> installs, starts |-> starts, resets |-> resets,
   troubles |-> troubles]

(* Two computers: the registration alone, and the installer run again; a   *)
(* task and a trouble.  One computer: a task, a reset and a trouble; a     *)
(* task and two troubles; two tasks and a trouble.                         *)
PortalBudgets ==
  {Some(Computers, 1, 0, 2, 2), Some(Computers, 0, 1, 0, 1)}
  \union UNION {{Some({c}, 0, 1, 1, 1), Some({c}, 0, 1, 0, 2), Some({c}, 0, 2, 0, 1)} :
                 c \in Computers}

(* Bound: two tasks beside a trouble are explored until one has a draft.   *)
FirstDraft == made = Tasks /\ budget.troubles = 0 => \A t \in Tasks : drafts[t] = 0
=============================================================================
