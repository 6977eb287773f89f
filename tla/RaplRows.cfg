SPECIFICATION Spec
CONSTANTS
  Components <- SomeComponents
  Natives <- ManyProcessors
  MaxEvents = 16
  Interval = 1
  MaxTime = 0
  Second = 16
  Overhead = 1
  Span = 256
  Delays = {0}
  MaxDelay = 0
  Overshoots = {0}
  MaxOvershoot = 0
  Powers = {0, 1, 2}
  CounterSpan = 16
  MaxSamples = 2
INVARIANT TypeOK
INVARIANT EventsComplete
INVARIANT RowsReadable
INVARIANT RowsInv
INVARIANT WholeRows
