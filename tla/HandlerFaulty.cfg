SPECIFICATION FairSpec
CONSTANTS
  Inputs = {in1, in2}
  Outputs = {out1}
  DacLinkInput = in1
  AdcLinkOutput = out1
  Disconnected = Disconnected
  Gains = {8, 128}
  Amplitudes = {8}
  SampleGains = {8}
  Decimations = {64}
  DefaultDecimation = 64
  Modes = {"FULL", "RP_ONLY"}
  MaxPoints = 2
  Links = {{"lost", "ackLost", "partial", "restart"}}
INVARIANTS ObjectsMatchStatus NoSilentOverdrive
PROPERTIES OnlyUnheardChangesUncover CommandsEnd
