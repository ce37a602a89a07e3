------------------------ MODULE MCSpaceConfiguration ------------------------
(* Small instances of SpaceConfiguration for TLC.                          *)
EXTENDS SpaceConfiguration, TLC

Plain(m, b, a) == [op |-> "none", map |-> m, biz |-> b, auto |-> a,
                   content |-> "x"]

Operation(o) == [op |-> o, map |-> "none", biz |-> "none", auto |-> "none",
                 content |-> "x"]

Shadow == Plain("shadow", "shadow", "shadow")
Activate == Plain("active", "active", "active")

\* What one Space may ask for over time.
Lifecycle == {Shadow, Plain("paused", "active", "none"),
              Operation("activate"), Operation("pause"), Operation("rollback")}

\* What two Spaces may ask for at the same time.
Shared == {Shadow, Activate, Plain("retired", "none", "none")}

Symmetry == Permutations(Proposals) \cup Permutations(Spaces)

=============================================================================
