SPECIFICATION Spec
CONSTANTS
  Components <- OnlyRapl
  Natives <- OneZen
  MaxEvents = 16
  Interval = 1
  MaxTime = 0
  Second = 16
  Overhead = 1
  Span = 256
  Delays = {0, 4}
  MaxDelay = 4
  Overshoots = {0, 1}
  MaxOvershoot = 1
  Powers = {1}
  CounterSpan = 64
  MaxSamples = 2
INVARIANT IntervalKept
