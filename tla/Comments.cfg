SPECIFICATION EitherSpec
CONSTANTS
  Ids = {c1, c2, c3}
  Pages = {p1, p2}
  Users = {ann, bob, eve}
  Admins = {eve}
  Bodies = {b1, b2}
  Emoji = {up}
  Requests = {r1, r2}
  Ops = {"create", "update", "delete", "react", "list"}
  RateMax = 1
  RateWindow = 0
  MaxTime = 2
  Faults = {"parent", "count", "insert", "owned", "write", "toggle", "untoggle", "rows", "reactions"}
  None = None
  BadBody = BadBody
  Anonymous = Anonymous
SYMMETRY Symmetry
INVARIANTS
  OneLevelReplies
  ListComplete
  RateBound
  DeleteWinsOnce
PROPERTIES
  Discusses
  AuthorizedChanges
  ReactionsByReader
