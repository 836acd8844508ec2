SPECIFICATION Spec
CONSTANTS
  vnc = vnc
  dashboard = dashboard
  node1 = node1
  node2 = node2
  id1 = id1
  id2 = id2
  id3 = id3
  user = user
  subnet = subnet
  Absent = Absent
  Blank = Blank
  ZeroText = ZeroText
  On = On
  Off = Off
  Limited = Limited
  NotNumber = NotNumber
  NotMapping = NotMapping
  Refused = Refused
  Bare = Bare
  NoText = NoText
  FilterKeys <- MCKeys
  Sessions <- MCSessions
  Filters <- MCFilters
  Edits <- Once
  Answers <- MCAnswers
  Workers = {w1, w2}
  NoWorker = NoWorker
  NoMenu = NoMenu
  Nothing = Nothing
CHECK_DEADLOCK FALSE
INVARIANTS
  TypeOK
  ButtonAnswered
  WorkerExists
  ShownIsKept
  CallsAsTold
  CopyIsWhole
PROPERTIES
  AutoCatchesUp
