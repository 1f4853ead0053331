----------------------------- MODULE MCTeamRun -----------------------------
(* Small instances of TeamRun for TLC. *)
EXTENDS TeamRun, TLC

CONSTANTS ada, bob, cyd, p1

ThreeAgents == {ada, bob, cyd}
OnlyBob == {bob}
OnePrompt == {p1}
AllStrategies == {"sequential", "coordinator", "broadcast", "autonomous"}
TwoOrThree == {2, 3}

SteadySymmetry == Permutations(ThreeAgents \ OnlyBob)
=============================================================================
