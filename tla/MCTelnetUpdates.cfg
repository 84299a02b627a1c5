\* Sizes that come faster than the application takes them.
SPECIFICATION Spec
CONSTANTS
  Parts = {"telnet"}
  OpenSize <- TwoBytes
  Scenarios <- FourScenarios
  Sizes <- ThreeSizes
  Output = 2
PROPERTIES
  UpdatesAreForwarded
CHECK_DEADLOCK FALSE
