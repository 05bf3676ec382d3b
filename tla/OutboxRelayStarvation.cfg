\* As many malformed rows, older than row 3, as one run reads.
CONSTANTS
  Events = {1, 2, 3}
  Malformed = {1, 2}
  Runs = {r1}
  NoRun = NoRun
  BatchSize = 2
  Endpoints = 1
  MaxRefusals = 1
  MaxFailures = 1
SPECIFICATION RelaySpec
PROPERTIES
  AtLeastOnce
