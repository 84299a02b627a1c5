\* Telnet in four scenarios, and SSH.  A peer may stay silent: the system
\* may stop.
SPECIFICATION Spec
CONSTANTS
  Parts = {"telnet", "ssh"}
  OpenSize <- TwoBytes
  Scenarios <- FourScenarios
  Sizes <- ThreeSizes
  Output = 2
INVARIANTS
  DataIntact
  AnswersAlternate
  OutputThenEnd
PROPERTIES
  CallersReturn
CHECK_DEADLOCK FALSE
