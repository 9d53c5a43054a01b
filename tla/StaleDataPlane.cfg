CONSTANTS
  s1 = s1
  s2 = s2
  r1 = r1
  p1 = p1
  q1 = q1
  q2 = q2
  Setting = {s1, s2}
  Empty = Empty
  Broken = {s2}
  Route = {r1}
  Caller = {p1}
  Loop = Loop
  Nobody = Nobody
  Proc = {q1, q2}
  NoProc = NoProc
  NoConfig = NoConfig
  Moved = TRUE
  Environments <- Refusing
SPECIFICATION Spec
PROPERTIES ReconcileRenders
