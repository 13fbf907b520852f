SPECIFICATION Spec
CONSTANTS
  e1 = e1
  e2 = e2
  Calls = {e1, e2}
  Targets <- MCTargets
  Named <- MCNamed
  Gates = {"spec-draft", "impl-started"}
  HumanGates = {"impl-started"}
  None = None
INVARIANT TestOrWaiverFirst
PROPERTY OverlapsLoseNoMore
SYMMETRY CallSymmetry
CHECK_DEADLOCK FALSE
