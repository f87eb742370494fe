---------------------------- MODULE MCDepartures ----------------------------
(* Departures for TLC. *)
EXTENDS Departures, TLC

Symmetry == Permutations(Volunteers)

\* The recipient is premoderated, and their other requests do not matter here.
SteadyInit == DepInit /\ trust[Owner] = L1 /\ others = 0
SteadySpec == SteadyInit /\ [][DepNext]_depVars
=============================================================================
