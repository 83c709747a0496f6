SPECIFICATION Spec
CONSTANTS
  Ids = {c1}
  Pages = {p1}
  Users = {ann}
  Admins = {}
  Bodies = {b1}
  Emoji = {up}
  Requests = {r1, r2}
  Ops = {"create", "react"}
  RateMax = 9
  RateWindow = 1
  MaxTime = 0
  Faults = {}
  None = None
  BadBody = BadBody
  Anonymous = Anonymous
PROPERTY
  ToggleFlips
