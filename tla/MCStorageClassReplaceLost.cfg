SPECIFICATION Spec
CONSTANTS
  c1 = c1
  c2 = c2
  metro = metro
  speed = speed
  on = on
  off = off
  Claims = {c1}
  Source = source
  Keys <- MCKeys
  Values = {on, off}
  Unset = unset
  NoClass = noClass
  Base <- MCBase
  Changes <- MCChanges
INVARIANT ClassRecoverable
CHECK_DEADLOCK FALSE
