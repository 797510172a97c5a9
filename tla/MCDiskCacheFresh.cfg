SPECIFICATION Spec
CONSTANTS
  Servers = {s1, s2}
  Builds = {new, old}
  Files <- MCFiles
  Targets <- MCTargets
  Contents <- MCContents
  MaxShards = 1
  MaxFailures = 1
  MaxEdits = 1
  MaxTroubles = 1
SYMMETRY Alike
PROPERTY HitsAreFresh
