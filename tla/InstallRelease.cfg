\* Three releases, each of which may work, be unhealthy or be built for
\* another machine, and three runs of the installer.
SPECIFICATION Spec
CONSTANTS
  a = a
  b = b
  c = c
  NoRelease = NoRelease
  Releases <- ThreeReleases
  MaxInstalls = 3
SYMMETRY ReleaseSymmetry
INVARIANTS OnlyCompleteReleases OutcomeIsTruthful
PROPERTY InstalledIsImmutable
