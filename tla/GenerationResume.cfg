SPECIFICATION Spec
CONSTANTS
  Cands = {1, 2, 3}
  Niches <- MCNiches
  Bin <- MCBin
  Group <- MCGroup
  Cell <- MCCell
  Final <- MCFinal
  Quality <- MCQuality
  Score <- MCScore
  Uncertainty <- MCUncertainty
  Value <- MCValue
  Confidence <- MCConfidence
  Axes <- MCAxes
  Root <- MCRoot
  Frontier = {3}
  Delta = {3}
  Negative = {}
  SourceBlocked = {2}
  Seeds = {1, 2}
  MaxRound = 3
  MaxChildren = 1
  AdmissionLimit = 2
  UncertaintyFloor = 1
  Capacity = 1
  CellElites = 1
  ActiveFloor = 1
  RankFates = {"dormant", "incubating"}
  Branch = 2
  Reentry = 1
  Verdicting = {"sound", "broken"}
INVARIANT CheckpointCanBeRestored
