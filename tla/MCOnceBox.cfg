SPECIFICATION BoxFairSpec
CONSTANTS
  Callers = {t1, t2, t3}
  Addrs = {a1, a2, a3, a4}
  Values = {v1, v2}
  Null = Null
  Free = Free
INVARIANTS
  BoxTypeOK
  OneOwner
  Agreement
  NoRace
PROPERTIES
  StableWhileHeld
  CallsReturn
  ImplementsCell
CHECK_DEADLOCK TRUE
