CONSTANTS
  Counter = 7
  MaxResets = 2
  MaxLosses = 1
  MaxInputs = 1
  MaxInTransit = 3
SPECIFICATION FairSpec
INVARIANTS PackageStays ReadyIsConfigured ConfigurationIsWhole ClockIsSet
PROPERTIES BecomesReady AcquisitionResumes
\* the boards are ready, or a dropped configuration leaves both waiting
CHECK_DEADLOCK FALSE
