SPECIFICATION Spec
CONSTANTS
  daq = daq
  vnc = vnc
  client1 = client1
  node1 = node1
  node2 = node2
  q1 = q1
  q2 = q2
  id1 = id1
  id2 = id2
  Absent = Absent
  NotString = NotString
  NotObject = NotObject
  BadGlob = BadGlob
  Hollow = Hollow
  FilterKeys <- MCFilterKeys
  ForeignKeys <- MCForeignKeys
  Values <- MCValues
  Qids <- MCQids
  QidSize <- MCQidSize
  Ids = {id1, id2}
  Hosts <- MCHosts
  MaxDatagram = 4
  Wire <- AnyWire
  Asker = client1
  Qid = q1
  Filter <- MCFilter
  QuerySize = 1
  Timeout = 14
  Retries = 2
  Broadcasts = 1
  Lag = 1
  QueueCap = 2
  MaxArrivals = 3
CHECK_DEADLOCK FALSE
INVARIANTS
  TypeOK
  OnTime
  NeverWithoutWait
  AllSendsMade
  InTimeAnswersCount
  SocketReleased
PROPERTIES
  CallEnds
