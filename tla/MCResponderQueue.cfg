SPECIFICATION Spec
CONSTANTS
  daq = daq
  vnc = vnc
  client1 = client1
  client2 = client2
  node = node
  q1 = q1
  q2 = q2
  id1 = id1
  Absent = Absent
  NotString = NotString
  NotObject = NotObject
  BadGlob = BadGlob
  Hollow = Hollow
  FilterKeys <- MCFilterKeys
  ForeignKeys <- MCForeignKeys
  Values <- MCValues
  Qids <- MCQids
  QidSize <- MCQidSize
  Ids = {id1}
  Hosts <- MCHosts
  MaxDatagram = 4
  Wire <- MixedWire
  Self <- Small
  RecvTimeout = 2
  JitterMax = 1
  JoinTimeout = 8
  AnnounceInterval = 0
  Lag = 1
  QueueCap = 2
  MaxArrivals = 3
  MaxAge = 24
CHECK_DEADLOCK FALSE
INVARIANTS
  BacklogBound
  ReplyDiscipline
