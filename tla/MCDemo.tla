------------------------------ MODULE MCDemo ------------------------------
(***************************************************************************)
(* Demo for TLC.  There are more names than accounts, calls that hold      *)
(* three keys and visitors that hold one, so whenever a call seeds a name   *)
(* is unused, and the bound of Seed cuts nothing off.  No symmetry, for     *)
(* DailyWorld is a liveness property.                                      *)
(***************************************************************************)
EXTENDS Demo

ASSUME WorldsSuffice ==
  MaxWorlds > Cardinality(Roles) * (1 + Cardinality(Runners)) + Cardinality(Visitors)
=============================================================================
