------------------------------- MODULE MCJobs -------------------------------
(* Jobs for TLC.  The accounts stay as they are, with a recipient who is      *)
(* premoderated, and the request is no home visit: the jobs look at neither.  *)
(* No symmetry: a liveness property is checked.                               *)
EXTENDS Jobs

SteadyInit ==
  /\ JobsInit
  /\ trust = [u \in Users |-> IF u = Owner THEN L1 ELSE L2]
  /\ others = Premoderated
  /\ ~homeVisit

SteadySpec == SteadyInit /\ [][JobsNext /\ homeVisit' = FALSE]_jvars
SteadyFairSpec == SteadySpec /\ JobsFairness
=============================================================================
