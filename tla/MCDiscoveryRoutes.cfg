SPECIFICATION Spec
CONSTANTS
  daq = daq
  vnc = vnc
  client1 = client1
  client2 = client2
  node = node
  other = other
  id2 = id2
  q1 = q1
  q2 = q2
  id1 = id1
  id3 = id3
  Absent = Absent
  NotString = NotString
  NotObject = NotObject
  BadGlob = BadGlob
  Hollow = Hollow
  FilterKeys <- MCFilterKeys
  ForeignKeys <- MCForeignKeys
  Values <- MCValues
  Qids <- MCQids
  QidSize <- MCQidSize
  Ids = {id1, id2, id3}
  Hosts <- MCHosts
  MaxDatagram = 4
  Asker = client1
  Qid = q1
  Filter <- MCFilter
  QuerySize = 1
  RecvTimeout = 2
  JoinTimeout = 4
  Timeout = 10
  Retries = 2
  Broadcasts = 1
  Lag = 0
  MaxNoise = 0
  MaxDelay = 1
  MaxLost = 2
  MaxCopies = 0
  JitterMax = 1
  QueueCap = 4
  Self <- MCSelf
  Noise <- MCNoise
  Names <- OneLife
CHECK_DEADLOCK FALSE
INVARIANTS
  TypeOK
  Complete
PROPERTIES
  IsAScan
