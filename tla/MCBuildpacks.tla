---------------------------- MODULE MCBuildpacks ----------------------------
(* Two builds, the second of which meets what the first one left behind, and *)
(* a crash at any point.                                                      *)
EXTENDS Buildpacks, TLC

CONSTANTS b1, b2

TwoBuilds == {b1, b2}

=============================================================================
