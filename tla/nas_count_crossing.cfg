\* A message of the old context decoded after the Security Mode Command.
CONSTANTS
  StartCounts = {0, 250, 16777214}
  StartDl = {0, 16777215}
  Gaps = {1, 31, 33, 200}
  MaxSent = 3
  MaxSmc = 1
  MaxDl = 1
  Crossing = TRUE
SPECIFICATION Spec
INVARIANT FreshMessageAccepted
