SPECIFICATION Spec
CONSTANTS
  a = a
  b = b
  blank = blank
  Texts = {a, b, blank}
  Blank = blank
  Visits <- MCVisits
INVARIANTS
  TypedTextIsKept
  LockedNoteIsLeftAlone
  SubscriptionsBalanced
CHECK_DEADLOCK FALSE
