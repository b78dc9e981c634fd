SPECIFICATION Spec
CONSTANTS
  lib64 = lib64
  lib = lib
  Dirs = {lib64, lib}
  NoDir = NoDir
  Candidates <- MCCandidates
  Hosts <- MCSteadyHost
  Versions = {"v1", "v2"}
  CommandLines <- MCCommandLines
  MaxRuns = 3
  MaxFaults = 0
INVARIANTS
  UninstallRemovesInstalledFiles
