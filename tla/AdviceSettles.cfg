SPECIFICATION AdviceSpec
CONSTANTS
  NumInputs = 3
  AskedAmplitudes = {1, 8}
  DeclaredGains = {1, 8, 64}
PROPERTIES AdviceHelps AdviceSettles
CHECK_DEADLOCK FALSE
