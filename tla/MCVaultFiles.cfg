SPECIFICATION FairSpec
CONSTANTS
  Builds = {1, 2, 3}
  First = 1
  Salts = 3
  Dests = {d1}
  MaxEdits = 2
  MaxExports = 2
  MaxFaults = 2
PROPERTIES BackedUp ExportsAreWhole Retryable
