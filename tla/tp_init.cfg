SPECIFICATION Spec
CONSTANTS
  t1 = t1
  t2 = t2
  t3 = t3
  t4 = t4
  t5 = t5
  p1 = p1
  NoTask = NoTask
  NoThread = NoThread
  Threads <- FiveThreads
  Producers <- OneProducer
  Tasks <- SixTasks
  init_num = 4
  max_num = 5
  CanDestroy = FALSE
SYMMETRY Symmetry
CONSTRAINT TasksInOrder
CHECK_DEADLOCK FALSE
INVARIANTS AtLeastInit
