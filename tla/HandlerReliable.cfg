SPECIFICATION Spec
CONSTANTS
  Inputs = {in1, in2}
  Outputs = {out1}
  DacLinkInput = in1
  AdcLinkOutput = out1
  Disconnected = Disconnected
  Gains = {8, 128}
  Amplitudes = {1, 8}
  SampleGains = {8, 64}
  Decimations = {64}
  DefaultDecimation = 64
  Modes = {"FULL"}
  MaxPoints = 2
  Links = {{}, {"lost", "partial"}}
INVARIANTS CacheCoversBoard NoMeasurementAboveFullScale
PROPERTIES ImplementsGuard RefusedOnlyIfOverdriven SaturationEvidenceKept
