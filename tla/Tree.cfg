SPECIFICATION Spec
CONSTANTS
  a = a  box1 = box1  box2 = box2  box3 = box3  box4 = box4  None = None
  Calls = {c1, c2}
  Boxes = {box1, box2, box3, box4}
  Messages = {m1}
  Names = {a, toDelete, variant, inbox, gmail}
  Staging = toDelete
  Variant = variant
  Inbox = inbox
  Gmail = gmail
  StagingOn = TRUE
  SuffixLimit = 2
  Servers = {"plain", "prefixed", "flat"}
  Starts <- SmallStarts
  Wants <- SmallWants
  MaxEdits = 1
SYMMETRY Symmetry
CHECK_DEADLOCK FALSE
INVARIANT DestroyedWhereAsked
PROPERTY StagingFailsOnlyWhenSpoilt
