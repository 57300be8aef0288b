SPECIFICATION FairSpec
CONSTANTS
  w1 = w1
  w2 = w2
  r1 = r1
  r2 = r2
  r3 = r3
  base = base
  tmpdir = tmpdir
  v1 = v1
  a1 = a1
  b1 = b1
  songA = songA
  songB = songB
  Main = Main
  NoTask = NoTask
  NoThread = NoThread
  NoFile = NoFile
  Dirs <- Tree
  Parent <- InTree
  TmpPath <- SlashAtEnd
  SigPath <- PathOfSong
  Workers <- TwoWorkers
  threadnum = 2
  Requests <- ThreeRequests
  Kind <- ThreeValid
  Source <- ThreeSongs
  Chunks = 1
  Present <- Fresh
  Faults <- NoFaults
INVARIANTS StoredIsComplete
PROPERTIES TasksAreTaken  UsesMkdirs
