SPECIFICATION Spec
CONSTANTS
  Components <- OnlyRapl
  Natives <- IntelProcessors
  MaxEvents = 16
  Interval = 1
  MaxTime = 0
  Second = 16
  Overhead = 1
  Span = 256
  Delays = {0}
  MaxDelay = 0
  Overshoots = {0}
  MaxOvershoot = 0
  Powers = {1}
  CounterSpan = 64
  MaxSamples = 1
INVARIANT ProcessorSupported
