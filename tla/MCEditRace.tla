----------------------------- MODULE MCEditRace -----------------------------
(* EditRace for TLC, with the accounts and the recipient's other requests    *)
(* as they are: an L1 recipient, premoderated or not, verified volunteers.   *)
EXTENDS EditRace, TLC

Symmetry == Permutations(Volunteers)

SteadyInit ==
  /\ RaceInit
  /\ others \in {0, Premoderated + 1}
  /\ trust = [u \in Users |-> IF u = Owner THEN L1 ELSE L2]
SteadyNext == RaceNext /\ UNCHANGED <<trust, others>>
SteadySpec == SteadyInit /\ [][SteadyNext]_raceVars
=============================================================================
