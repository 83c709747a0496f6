SPECIFICATION EitherSpec
CONSTANTS
  Browsers = {w1, w2}
  Users = {ann, bob}
  Pages = {p1}
  NoteIds = {n1, n2}
  Requests = {r1, r2}
  Ops = {"view", "bookmark", "note"}
  Faults = {"count", "visitor", "stats", "toggle", "untoggle", "note", "unnote", "notes"}
  Lossy = TRUE
  MaxViews = 3
  MaxIds = 3
  None = None
SYMMETRY Symmetry
INVARIANTS
  VisitorsWithinViews
  SelfCounted
PROPERTIES
  BookmarksByReader
  NotesPrivate
