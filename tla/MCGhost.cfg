CONSTANTS
  Null = Null
  BadId = BadId
  t1 = t1
  t2 = t2
  u1 = u1
  u2 = u2
  p1 = p1
  p2 = p2
  i1 = i1
  i2 = i2
  m1 = m1
  m2 = m2
  m3 = m3
  MaxConnections = 1
  MaxFrames <- TwoEach
  Topics = {t1}
  Users = {u1}
  Passcodes = {p1}
  SubIds = {i1, i2}
  Maps = {m1, m2}
  Bins = 1
  Frames <- TwoIds
SPECIFICATION Spec
INVARIANTS NoGhost
\* clients may send nothing more
CHECK_DEADLOCK FALSE
