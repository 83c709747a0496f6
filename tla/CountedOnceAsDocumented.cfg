SPECIFICATION Spec
CONSTANTS
  Browsers = {w1}
  Users = {ann}
  Pages = {p1}
  NoteIds = {}
  Requests = {r1, r2}
  Ops = {"view"}
  Faults = {}
  Lossy = FALSE
  MaxViews = 2
  MaxIds = 2
  None = None
INVARIANT
  CountedOnce
