------------------------- MODULE MCSpaceAutomation -------------------------
(* Small instances of SpaceAutomation for TLC.                             *)
EXTENDS SpaceAutomation, TLC

Symmetry == Permutations(Executors)

NoCron == {{}}

EveryMinute == {1..Horizon}

EveryAndSecond == {1..Horizon, {2}}

=============================================================================
