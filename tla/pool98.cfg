SPECIFICATION FairSpec
CONSTANTS
  w1 = w1
  w2 = w2
  w3 = w3
  p1 = p1
  p2 = p2
  k1 = k1
  k2 = k2
  k3 = k3
  NoTask = NoTask
  NoThread = NoThread
  Tasks <- ThreeTasks
  Workers <- ThreeWorkers
  Producers <- TwoProducers
  CanStop = TRUE
CHECK_DEADLOCK FALSE
INVARIANTS WorkConserving
PROPERTIES ImplementsTaskQueue EveryTaskTaken
