SPECIFICATION FairSpec
CONSTANTS
  t1 = t1
  t2 = t2
  t3 = t3
  t4 = t4
  p1 = p1
  k1 = k1
  k2 = k2
  k3 = k3
  NoTask = NoTask
  NoThread = NoThread
  Threads <- FourThreads
  Producers <- OneProducer
  Tasks <- ThreeTasks
  init_num = 1
  max_num = 2
  CanDestroy = TRUE
CHECK_DEADLOCK FALSE
INVARIANTS NobodySleepsOnWork WithinLimits
PROPERTIES ImplementsTaskQueue EveryTaskTaken
