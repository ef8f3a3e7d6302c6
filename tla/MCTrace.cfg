SPECIFICATION Spec
CONSTANTS
  Programs <- MCPrograms
  MaxLog = 18
  MaxOutputSz = 2
  MaxWindowSz = 2
INVARIANTS
  TypeOK
  LogsWhatRuns
  ProfileOfRun
  MostFrequentFirst
