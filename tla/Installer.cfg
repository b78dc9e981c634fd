SPECIFICATION Spec
CONSTANTS
  lib64 = lib64
  lib = lib
  Dirs = {lib64, lib}
  NoDir = NoDir
  Candidates <- MCCandidates
  Hosts <- MCHosts
  Versions = {"v1", "v2"}
  CommandLines <- MCCommandLines
  MaxRuns = 3
  MaxFaults = 2
INVARIANTS
  TypeOK
  SuccessIsComplete
  UninstallUndoes
  CachesFollow
  PayloadRemoved
PROPERTIES
  RefusalsTouchNothing
  EngineBeforeComponent
