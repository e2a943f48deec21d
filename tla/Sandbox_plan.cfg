SPECIFICATION SandboxSpec
CHECK_DEADLOCK FALSE
CONSTANTS
  Setups <- MCSetups
  Args <- MCArgs
INVARIANTS KeptOut Delivered LintForetells ArgumentsReach
