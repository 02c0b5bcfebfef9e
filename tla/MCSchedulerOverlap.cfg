\* Two sessions make any call on any job.
CONSTANTS
  j1 = j1
  n1 = n1
  n2 = n2
  api = api
  worker = worker
  NoJob = NoJob
  NoNode = NoNode
  Jobs = {j1}
  Nodes = {n1, n2}
  Sessions = {api, worker}
  Calls <- AllCalls
  MaxRetries = 1
  MaxRequeued = 2
SYMMETRY AllSymmetry
SPECIFICATION Spec
INVARIANTS TypeOK AssignedIsQueued EndedHasTime
PROPERTIES SpoiltOnlyByStaleRows OnlyReportsExceed LegalUnlessStale
