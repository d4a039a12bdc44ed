SPECIFICATION Spec
CONSTANTS
  Calls = {c1, c2}
  Messages = {m1}
  Boxes = {inbox, filed}
  Inbox = inbox
  Forms = {"rfc", "number"}
  Servers = {"none", "plain", "uidplus", "move"}
  MaxCopies = 3
  MaxOthers = 1
  Free = Free
SYMMETRY Symmetry
CHECK_DEADLOCK FALSE
INVARIANTS
  Conserved
  OneCopy
  CountIsTrue
