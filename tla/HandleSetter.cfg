SPECIFICATION Spec
CONSTANTS
  Contracts = {"auto"}
  Frames = 3
  Latency = 4
  Commands <- MCSetters
  Automations <- MCAutomations
  Flushes = {}
INVARIANTS SetterReports
