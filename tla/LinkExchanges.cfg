SPECIFICATION Spec
CONSTANTS
  Inputs = {in1}
  Outputs = {out1}
  Disconnected = Disconnected
  Gains = {8, 128}
  Gain1 = 8
  Unread = Unread
  MaxExchanges = 3
  MaxLostLines = 1
  Wires <- EveryWire
INVARIANTS TypeOK SameCommandAnswers MergedStatusIsTruthful
PROPERTY PromptLinkImplementsCalls
CHECK_DEADLOCK FALSE
