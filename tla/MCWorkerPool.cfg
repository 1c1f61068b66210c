SPECIFICATION Spec
CONSTANTS
  Workers = {w1, w2}
  Capacity = 2
  MaxJobs = 5
  NoWorker = NoWorker
  NoJob = NoJob
INVARIANTS
  JobsConserved
  NothingAbandoned
PROPERTIES
  AcceptedJobsFinish
  DropReturns
  ServiceSpec
