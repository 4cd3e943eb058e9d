\* Uplink in order, with losses, from UL COUNTs at 0, just below an 8-bit
\* sqn wrap and just below the 24-bit wrap; two Security Mode Commands,
\* the second after the first context has been used.
CONSTANTS
  StartCounts = {0, 250, 16777214}
  StartDl = {0, 16777215}
  Gaps = {1, 31, 33, 200}
  MaxSent = 3
  MaxSmc = 2
  MaxDl = 1
  Crossing = FALSE
SPECIFICATION Spec
INVARIANTS TypeOK FreshMessageAccepted
PROPERTIES UlCountMonotonic
