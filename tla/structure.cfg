SPECIFICATION Spec
CONSTANTS
  None = 0
  Nodes = {1, 2, 3, 4, 5, 6, 7, 8}
  EdgeIds = {1, 2}
  Habits = {1}
  q1 = q1  q2 = q2
  Requests = {q1, q2}
  MaxVisions = 2
  MaxCommands = 3
  InitNodes <- MCInitNodes
  Commands <- MCCommands
SYMMETRY Symm
CHECK_DEADLOCK FALSE
INVARIANTS SerialHierarchy SerialJustified SerialAcyclic SerialNoParentCycle
