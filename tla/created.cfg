SPECIFICATION Spec
CONSTANTS
  f1 = f1  f2 = f2  f3 = f3
  r1 = r1  r2 = r2
  Folders = {f1, f2, f3}
  Refs = {r1, r2}
  Handlers = {h1}
  InitParent <- MCParent
  InitRoots <- MCRoots
  MaxMoves = 1
  None = None
  MyDrive = MyDrive
CHECK_DEADLOCK FALSE
INVARIANT CreatedStaysInside
