\* Six configurations, a response in the cache, directories that come and go.
CONSTANTS
  Configs <- MCConfigs
  NoCors = NoCors
  Handlers <- MCHandlers
  Dirs <- MCDirs
  Files <- MCFiles
  Requests <- MCRequests
  MaxStored = 1
  Nobody = Nobody
SPECIFICATION Spec
INVARIANTS CacheServesRight FilesServed
