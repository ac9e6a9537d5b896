CONSTANTS
  Null = Null
  BadId = BadId
  t1 = t1
  t2 = t2
  u1 = u1
  u2 = u2
  p1 = p1
  p2 = p2
  i1 = i1
  i2 = i2
  m1 = m1
  m2 = m2
  m3 = m3
  MaxConnections = 2
  MaxFrames <- ThreeAndFour
  Topics = {t1}
  Users = {u1, u2}
  Passcodes = {p1}
  SubIds = {i1}
  Maps = {m1, m2, m3}
  Bins = 1
  Frames <- BusFrames
SPECIFICATION Spec
INVARIANTS CleanClose NotListedAfterUnsubscribe
PROPERTIES ImplementsBus
SYMMETRY MapSymmetry
\* clients may send nothing more
CHECK_DEADLOCK FALSE
