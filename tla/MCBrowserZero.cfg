SPECIFICATION Spec
CONSTANTS
  vnc = vnc
  dashboard = dashboard
  node1 = node1
  node2 = node2
  id1 = id1
  id2 = id2
  id3 = id3
  user = user
  subnet = subnet
  Absent = Absent
  Blank = Blank
  ZeroText = ZeroText
  On = On
  Off = Off
  Limited = Limited
  NotNumber = NotNumber
  NotMapping = NotMapping
  Refused = Refused
  Bare = Bare
  NoText = NoText
  FilterKeys <- MCKeys
  Sessions <- Zeros
  Filters <- MCFilters
  Edits <- Once
  Answers <- MCAnswers
  Workers = {w1}
  NoWorker = NoWorker
  NoMenu = NoMenu
  Nothing = Nothing
CHECK_DEADLOCK FALSE
INVARIANTS
  FirstGivenWins
