-------------------------- MODULE MCInstallRelease --------------------------
(* Instances of InstallRelease for TLC. *)
EXTENDS InstallRelease, TLC

CONSTANTS a, b, c

ThreeReleases == {a, b, c}

ReleaseSymmetry == Permutations(ThreeReleases)
=============================================================================
