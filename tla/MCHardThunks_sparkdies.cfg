SPECIFICATION Spec
CONSTANTS
  a = a
  b = b
  c = c
  c1 = c1
  c2 = c2
  m0 = m0
  s1 = s1
  s2 = s2
  Thunk = {a, b, c}
  Thread = {m0, s1, s2}
  Main = m0
  NoThread = NoThread
  Command = {c1, c2}
  Code <- SparkDiesCode
  MaxInterrupts = 0
INVARIANTS OwnerWorks
CHECK_DEADLOCK FALSE
