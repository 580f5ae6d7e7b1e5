SPECIFICATION Spec
CONSTANTS
  MaxGiven = 2
  MaxSamples = 4
  Top = 6
  Percent = 4
CHECK_DEADLOCK FALSE
INVARIANTS WhatLoadsIsBuilt SweepMissesNoThreshold OperatingPointsAreBest
