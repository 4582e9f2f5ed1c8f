SPECIFICATION Spec
CONSTANTS
  t1 = t1
  t2 = t2
  Threads = {t1, t2}
  Requests <- MCRequests
  MaxRequests = 3
  c1 = c1
  c2 = c2
  Connections = {c1, c2}
  Queries <- MCQueries
  Updates <- MCUpdates
  Scripts <- MCScripts
  Root <- MCRoot
  Files <- MCFiles
  Directories <- MCDirectories
  Refused <- MCRefused
SYMMETRY Symmetry
INVARIANTS TypeOK FormsArrive ReadsAnswered ServedUntilFailure OwnInterpreter EndsExplained FilesRight
CHECK_DEADLOCK FALSE
