CONSTANTS
  Workers = {w1, w2, w3}
  MaxJobs <- MCJobs
SPECIFICATION FairSpec
INVARIANTS
  TypeOK
  Fifo
  OneWorkerPerJob
  AwakeForEveryJob
  NobodySleepsAfterStop
  JoinedMeansQuiet
PROPERTIES
  QueuedJobsRun
  JoinReturns
  KeepsPromise
  KeepsFairness
