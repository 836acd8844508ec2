SPECIFICATION Spec
CONSTANTS
  daq = daq
  vnc = vnc
  client1 = client1
  client2 = client2
  node = node
  q1 = q1
  q2 = q2
  id1 = id1
  Absent = Absent
  NotString = NotString
  NotObject = NotObject
  BadGlob = BadGlob
  Hollow = Hollow
  FilterKeys <- MCFilterKeys
  ForeignKeys <- MCForeignKeys
  Values <- MCValues
  Qids <- MCQids
  QidSize <- MCQidSize
  Ids = {id1}
  Hosts <- MCHosts
  MaxDatagram = 4
  Wire <- WellFormedWire
  Self <- MCSelf
  Json <- MCJson
  Unreadable = Unreadable
  RecvTimeout = 2
  JitterMax = 1
  AnnounceInterval = 2
  Lag = 1
  QueueCap = 2
  MaxArrivals = 2
  MaxStarts = 2
CHECK_DEADLOCK FALSE
INVARIANTS
  TypeOK
  LifecycleAgrees
  AliveUntilStop
  StopIsQuick
  LastWords
  AnnounceCadence
  AnswersAsPython
PROPERTIES
  StopReturns
  QueriesAreTakenUp
