SPECIFICATION FairSpec
CONSTANTS
  Setups <- FailHealPressure
  Senders = {1}
  MaxOutbound = 4
  MaxEvents = 2
  MaxEventBytes = 1
  MaxInbound = 4
  MaxConnections = 2
  MaxOpen = 2
CHECK_DEADLOCK FALSE
INVARIANTS ConnectsSettle FramesIntact InOrderOnce
PROPERTIES Reconnects InboundDelivered
