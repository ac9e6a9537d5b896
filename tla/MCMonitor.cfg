CONSTANTS
  Null = Null
  BadId = BadId
  t1 = t1
  t2 = t2
  u1 = u1
  u2 = u2
  p1 = p1
  p2 = p2
  i1 = i1
  i2 = i2
  m1 = m1
  m2 = m2
  m3 = m3
  MaxConnections = 2
  MaxFrames <- ThreeAndOne
  Topics = {t1}
  Users = {u1, u2}
  Passcodes = {p1, p2}
  SubIds = {i1}
  Maps = {m1, m2}
  Bins = 1
  Frames <- MonitorFrames
SPECIFICATION FairSpec
INVARIANTS TypeOK OneActiveConnection Authenticated
PROPERTIES PasswordKept FramesEnd ClosesEnd
\* clients may send nothing more
CHECK_DEADLOCK FALSE
