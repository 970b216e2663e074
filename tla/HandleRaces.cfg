SPECIFICATION Spec
CONSTANTS
  Contracts = {"auto", "streaming", "realtime"}
  Frames = 3
  Latency = 4
  Commands <- MCCommands
  Automations <- MCAutomations
  Flushes <- MCFlushes
INVARIANTS OneContract RealtimeAtUnity InSync FixedOutput StartupSilence
 
