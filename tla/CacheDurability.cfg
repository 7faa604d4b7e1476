SPECIFICATION Spec
CONSTANT MaxEntries = 4
INVARIANTS  OkSurvivesPowerLoss
