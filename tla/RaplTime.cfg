SPECIFICATION FairSpec
CONSTANTS
  Components <- OnlyRapl
  Natives <- OneZen
  MaxEvents = 16
  Interval = 1
  MaxTime = 2
  Second = 16
  Overhead = 1
  Span = 256
  Delays = {0, 1}
  MaxDelay = 1
  Overshoots = {0, 2}
  MaxOvershoot = 2
  Powers = {3}
  CounterSpan = 64
  MaxSamples = 3
INVARIANT NoDrift
INVARIANT EnergyExact
INVARIANT RaplInv
INVARIANT MaxTimeKept
INVARIANT WholeRows
INVARIANT LittleUnmeasured
INVARIANT PowerRight
PROPERTY IsSampler
PROPERTY StepsBounded
PROPERTY RaplEnds
