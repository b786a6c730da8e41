CONSTANTS
  p1 = p1
  p2 = p2
  Processes = {p1, p2}
  NoProcess = NoProcess
  Packages <- MCPackages
  Components <- MCComponents
  MaxParts = 2
  MaxAddons = 3
SPECIFICATION Spec
SYMMETRY Symmetry
INVARIANTS
  FindsWhatIsMeant
  FindsNewestOfOwner
CHECK_DEADLOCK FALSE
