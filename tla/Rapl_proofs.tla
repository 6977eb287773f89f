----------------------------- MODULE Rapl_proofs -----------------------------
(***************************************************************************)
(* The properties of Rapl hold for all processors, intervals, delays and   *)
(* widths, and Rapl implements Sampler.                                    *)
(***************************************************************************)
EXTENDS Rapl, SequenceTheorems, TLAPS

\* There are ten files.
LEMMA TenFiles == NumFiles = 10
BY DEF NumFiles, Streams

\* The constants are numbers.
LEMMA ConstantsOK ==
  /\ Period \in Nat /\ Period < Span /\ Span \in Nat \ {0}
  /\ Overhead \in Nat /\ MaxDelay \in Nat /\ MaxOvershoot \in Nat
  /\ MaxTime \in Nat /\ Second \in Nat \ {0}
  /\ MaxTime * Second \in Nat /\ (MaxTime > 0 => MaxTime * Second > 0)
  /\ MaxEvents \in Nat /\ MaxEvents > 0
  /\ \A d \in Delays : d \in Nat /\ d <= MaxDelay
  /\ \A o \in Overshoots : o \in Nat /\ o <= MaxOvershoot
<1>1. \A m, n \in Nat : m * n \in Nat /\ (m > 0 /\ n > 0 => m * n > 0)
  OBVIOUS
<1> QED BY <1>1, RaplAssumption DEF Period

\* The work of a turn is twelve delays.
LEMMA WorkIs == Work = 12 * MaxDelay /\ Work \in Nat
BY TenFiles, ConstantsOK DEF Work

\* One number more.
LEMMA OneMore ==
  ASSUME NEW n \in Nat, NEW p \in Nat
  PROVE  n * p \in Nat /\ (n + 1) * p \in Nat /\ (n + 1) * p = n * p + p
OBVIOUS

\* The time to sleep is a number, and when the gap is short it is what is left of
\* the interval.
LEMMA SleepTimeOK ==
  ASSUME now \in Nat, after \in Nat
  PROVE  /\ SleepTime \in Nat
         /\ (after <= now /\ now - after + Overhead <= Period =>
               SleepTime = Period - (now - after + Overhead))
BY ConstantsOK DEF SleepTime

\* A sequence with one number more.
LEMMA Appended ==
  ASSUME NEW S, NEW s \in Seq(S), NEW t \in S
  PROVE  /\ Append(s, t) \in Seq(S)
         /\ Len(Append(s, t)) = Len(s) + 1
         /\ Append(s, t)[Len(s) + 1] = t
         /\ Append(s, t) # <<>>
         /\ Len(s) \in Nat
BY AppendProperties, LenProperties, EmptySeq

\* A product grows with a factor.
LEMMA Monotone ==
  ASSUME NEW p \in Nat, NEW m \in Nat, NEW n \in Nat, m <= n
  PROVE  p * m \in Nat /\ p * m <= p * n
OBVIOUS

\* A failure ends the program where every line that was written is on disk.
LEMMA FailOK ==
  ASSUME RaplInv, NEW why \in Reasons \ {"done", "unexpected"}, Fail(why),
         pc \in Starting \union Measuring
  PROVE  RaplInv'
<1> USE DEF Fail, Exit, found, files, clock, energy
<1>1. disk' = disk
  BY TenFiles DEF RaplInv, FilesInv, ControlOK
<1>2. /\ pc' = "exited" /\ status' = why /\ why # "done" /\ why # "unexpected"
      /\ tail' = "whole"
      /\ UNCHANGED <<native, code, events, header, row, written, flushed, now, start,
                     before, after, counting, measured, values, used, pkg, pp0, times>>
  OBVIOUS
<1> HIDE DEF Fail, Exit, found, files, clock, energy
<1>3. ControlOK'
  BY <1>1, <1>2 DEF RaplInv, ControlOK, Places
<1>4. EventsInv'
  BY <1>2 DEF RaplInv, EventsInv, Ended
<1>5. FilesInv'
  BY <1>1, <1>2 DEF RaplInv, FilesInv, ControlOK, Samples, Starting, Measuring, Reasons
<1>6. ClockInv' /\ ScheduleInv'
  BY <1>2 DEF ClockInv, ScheduleInv, InLoop, Starting
<1>7. TimeLeftInv' /\ EnergyExact'
  BY <1>2 DEF RaplInv, TimeLeftInv, EnergyExact, InLoop
<1>8. TailInv' /\ PowerRight'
  BY <1>2 DEF TailInv, PowerRight, RowWritten, Measuring
<1> QED BY <1>3, <1>4, <1>5, <1>6, <1>7, <1>8 DEF RaplInv

\* A step from one place of the start to another.
LEMMA StartingOK ==
  ASSUME RaplInv, pc \in Starting, pc' \in Starting, status' = status,
         native' = native, code' \in Nat \ {0}, events' \in Seq(Event),
         Len(events') < MaxEvents,
         UNCHANGED <<files, clock, energy, times>>
  PROVE  RaplInv'
<1>1. UNCHANGED <<header, row, written, flushed, disk, tail, now, start, before,
                  after, counting, measured, values, used, pkg, pp0, times>>
  BY DEF files, clock, energy
<1>2. ControlOK'
  BY <1>1 DEF RaplInv, ControlOK, Places, Starting
<1>3. EventsInv'
  BY LenProperties, RaplAssumption DEF RaplInv, EventsInv, Ended, Starting
<1>4. FilesInv'
  BY <1>1 DEF RaplInv, FilesInv, ControlOK, Samples, Starting, Measuring
<1>5. ClockInv' /\ ScheduleInv'
  BY <1>1 DEF RaplInv, ClockInv, ScheduleInv, InLoop, Starting
<1>6. TimeLeftInv' /\ EnergyExact'
  BY <1>1 DEF RaplInv, TimeLeftInv, EnergyExact, InLoop, Starting, TimeIsUp
<1>7. TailInv' /\ PowerRight'
  <2>1. tail # "cut" /\ tail \in {"whole", "cut"} /\ status # "unexpected"
    BY DEF RaplInv, TailInv, Starting
  <2> QED BY <1>1, <2>1 DEF TailInv, PowerRight, RowWritten, Measuring, Starting
<1> QED BY <1>2, <1>3, <1>4, <1>5, <1>6, <1>7 DEF RaplInv

-----------------------------------------------------------------------------
\* The invariant holds before the program does anything.
LEMMA InitOK == Init => RaplInv
<1> SUFFICES ASSUME Init PROVE RaplInv
  OBVIOUS
<1> USE DEF Init
<1>1. ControlOK
  BY RaplAssumption, TenFiles, EmptySeq DEF ControlOK, Places, Reasons
<1>2. EventsInv
  BY RaplAssumption, EmptySeq DEF EventsInv
<1>3. /\ times = <<>> /\ Len(times) = 0 /\ written = 0 /\ pc = "arguments"
      /\ status = "none" /\ \A f \in 1 .. NumFiles : disk[f] = 0
  BY EmptySeq
<1> HIDE DEF Init
<1>4. FilesInv
  BY <1>3, TenFiles DEF FilesInv, Samples, Starting, Measuring
<1> USE DEF Init
<1>5. ClockInv /\ ScheduleInv /\ TimeLeftInv /\ EnergyExact
  BY DEF ClockInv, ScheduleInv, TimeLeftInv, EnergyExact, InLoop, Starting
<1>6. TailInv /\ PowerRight
  BY DEF TailInv, PowerRight, RowWritten, Measuring
<1> QED BY <1>1, <1>2, <1>4, <1>5, <1>6 DEF RaplInv

\* The places of the start.
LEMMA ArgumentsOK == RaplInv /\ ReadArguments => RaplInv'
<1> SUFFICES ASSUME RaplInv, ReadArguments PROVE RaplInv'
  OBVIOUS
<1>1. CASE Fail("usage")
  BY <1>1, FailOK DEF ReadArguments, Starting, Reasons
<1>2. CASE ~Fail("usage")
  BY <1>2, StartingOK DEF ReadArguments, Goto, Starting, found, RaplInv, ControlOK,
     EventsInv, Ended
<1> QED BY <1>1, <1>2

LEMMA LibraryOK == RaplInv /\ InitLibrary => RaplInv'
<1> SUFFICES ASSUME RaplInv, InitLibrary PROVE RaplInv'
  OBVIOUS
<1>1. CASE Fail("library")
  BY <1>1, FailOK DEF InitLibrary, Starting, Reasons
<1>2. CASE ~Fail("library")
  BY <1>2, StartingOK DEF InitLibrary, Goto, Starting, found, RaplInv, ControlOK,
     EventsInv, Ended
<1> QED BY <1>1, <1>2

LEMMA ComponentOK == RaplInv /\ FindComponent => RaplInv'
<1> SUFFICES ASSUME RaplInv, FindComponent PROVE RaplInv'
  OBVIOUS
<1>1. CASE Fail("component")
  BY <1>1, FailOK DEF FindComponent, Starting, Reasons
<1>2. CASE ~Fail("component")
  BY <1>2, StartingOK DEF FindComponent, Goto, Starting, found, RaplInv, ControlOK,
     EventsInv, Ended
<1> QED BY <1>1, <1>2

\* Events are collected while there is room for one more.
LEMMA FindEventOK == RaplInv /\ FindEvent => RaplInv'
<1> SUFFICES ASSUME RaplInv, FindEvent PROVE RaplInv'
  OBVIOUS
<1>1. CASE Fail("event")
  BY <1>1, FailOK DEF FindEvent, Starting, Reasons
<1>2. CASE ~Fail("event")
  <2> USE DEF RaplInv
  <2>d. pc = "events" /\ code <= Len(native)
    BY DEF FindEvent
  <2>e. EventsInv
    OBVIOUS
  <2>a. status = "none" \/ pc = "exited"
    BY DEF FilesInv
  <2>b. /\ native \in Seq(Event) /\ code \in Nat \ {0} /\ events \in Seq(Event)
    BY DEF ControlOK
  <2>c. Len(native) \in Nat /\ Len(events) \in Nat
    BY <2>b, LenProperties
  <2>1. /\ pc = "events" /\ native \in Seq(Event) /\ code \in 1 .. Len(native)
        /\ code \in Nat \ {0} /\ status = "none"
        /\ events \in Seq(Event) /\ Len(events) < MaxEvents /\ Len(events) \in Nat
    BY ONLY <2>a, <2>b, <2>c, <2>d, <2>e DEF EventsInv, Ended
  <2>2. native[code] \in Event
    BY <2>1, ElementOfSeq
  <2>3. /\ events' = Append(events, native[code]) \/ events' = events
        /\ code' = code + 1 /\ native' = native
        /\ UNCHANGED <<header, row, written, flushed, clock, energy, times>>
    BY <1>2 DEF FindEvent
  <2>4. events' \in Seq(Event) /\ Len(events') \in Nat /\ Len(events') <= Len(events) + 1
    BY <2>1, <2>2, <2>3, Appended
  <2>5. CASE ~Full(events')
    <3>1. UNCHANGED <<disk, tail>> /\ Goto("events")
      BY <1>2, <2>5 DEF FindEvent
    <3>2. Len(events') < MaxEvents
      BY <2>1, <2>4, <2>5, RaplAssumption DEF Full
    <3> QED BY <2>1, <2>3, <2>4, <3>1, <3>2, StartingOK DEF Goto, Starting, files
  <2>6. CASE Full(events')
    <3>1. Exit("full", "whole")
      BY <1>2, <2>6 DEF FindEvent
    <3>2. disk' = disk /\ pc' = "exited" /\ status' = "full" /\ tail' = "whole"
      BY <2>1, <3>1, TenFiles DEF Exit, RaplInv, FilesInv, ControlOK, Starting
    <3>3. UNCHANGED <<written, flushed, now, start, before, after, counting, measured, values,
                      used, times>>
      BY <2>3 DEF clock, energy
    <3>4. ControlOK'
      BY <2>1, <2>3, <2>4, <3>2, <3>3 DEF RaplInv, ControlOK, Places, Reasons
    <3>5. EventsInv'
      <4>1. Len(events') = MaxEvents
        BY <2>6 DEF Full
      <4>2. Ended' /\ MaxEvents <= MaxEvents
        BY <3>2, ConstantsOK DEF Ended
      <4> QED BY <4>1, <4>2 DEF EventsInv
    <3>6. FilesInv'
      BY <2>1, <3>2, <3>3 DEF RaplInv, FilesInv, ControlOK, Samples, Starting, Measuring
    <3>7. ClockInv' /\ ScheduleInv' /\ TimeLeftInv' /\ EnergyExact'
      BY <3>2, <3>3 DEF RaplInv, ClockInv, ScheduleInv, TimeLeftInv, EnergyExact,
         InLoop, Starting
    <3>8. TailInv' /\ PowerRight'
      BY <3>2 DEF TailInv, PowerRight, RowWritten, Measuring
    <3> QED BY <3>4, <3>5, <3>6, <3>7, <3>8 DEF RaplInv
  <2> QED BY <2>5, <2>6
<1> QED BY <1>1, <1>2

LEMMA AddEventsOK == RaplInv /\ AddEvents => RaplInv'
<1> SUFFICES ASSUME RaplInv, AddEvents PROVE RaplInv'
  OBVIOUS
<1>1. CASE Fail("empty") \/ Fail("set")
  BY <1>1, FailOK DEF AddEvents, Starting, Reasons
<1>2. CASE ~Fail("empty") /\ ~Fail("set")
  BY <1>2, StartingOK DEF AddEvents, Goto, Starting, found, RaplInv, ControlOK,
     EventsInv, Ended
<1> QED BY <1>1, <1>2

LEMMA OpenFilesOK == RaplInv /\ OpenFiles => RaplInv'
<1> SUFFICES ASSUME RaplInv, OpenFiles PROVE RaplInv'
  OBVIOUS
<1>1. CASE Fail("file")
  BY <1>1, FailOK DEF OpenFiles, Starting, Reasons
<1>2. CASE ~Fail("file")
  BY <1>2, StartingOK DEF OpenFiles, Goto, Starting, found, RaplInv, ControlOK,
     EventsInv, Ended
<1> QED BY <1>1, <1>2

\* The headers are the first line of every file, or none of the lines.
LEMMA WriteHeaderOK == RaplInv /\ WriteHeader => RaplInv'
<1> SUFFICES ASSUME RaplInv, WriteHeader PROVE RaplInv'
  OBVIOUS
<1>1. /\ pc = "header" /\ status = "none"
      /\ UNCHANGED <<native, code, events, now, start, before, after, counting,
                     measured, values, used, times>>
  BY DEF WriteHeader, found, clock, energy, RaplInv, FilesInv
<1>2. /\ \/ /\ pc' = "flush" /\ written' = 1 /\ flushed' = 0 /\ status' = "none"
            /\ tail' = tail /\ NoFileAt(events) = 0
         \/ /\ pc' = "exited" /\ status' = "unexpected" /\ tail' = "cut"
            /\ UNCHANGED <<written, flushed>>
      /\ disk' = disk
  BY <1>1, TenFiles DEF WriteHeader, HeaderStop, Exit, Goto, RaplInv, FilesInv, ControlOK, Starting
<1>c. ControlOK
  BY DEF RaplInv
<1>d. written \in Nat /\ flushed \in 0 .. 10
  BY <1>c, TenFiles DEF ControlOK
<1>a. written' \in Nat /\ flushed' \in 0 .. NumFiles
  BY ONLY <1>2, <1>d, TenFiles
<1>b. pc' \in Places /\ status' \in Reasons
  BY <1>2 DEF Places, Reasons
<1>3. ControlOK'
  BY ONLY <1>1, <1>2, <1>a, <1>b, <1>c DEF ControlOK
<1>4. EventsInv'
  BY <1>1, <1>2 DEF RaplInv, EventsInv, Ended
<1>5. FilesInv'
  BY <1>1, <1>2, TenFiles DEF RaplInv, FilesInv, ControlOK, Samples, Starting, Measuring
<1>6. ClockInv' /\ ScheduleInv' /\ TimeLeftInv' /\ EnergyExact'
  BY <1>1, <1>2 DEF RaplInv, ClockInv, ScheduleInv, TimeLeftInv, EnergyExact, InLoop,
     Starting
<1>7. TailInv' /\ PowerRight'
  <2>1. tail = "whole" /\ written = 0
    BY <1>1 DEF RaplInv, TailInv, FilesInv, Starting
  <2>2. TailInv'
    BY <1>1, <1>2, <2>1 DEF TailInv, Measuring
  <2> QED BY <1>1, <1>2, <2>2 DEF PowerRight, RowWritten
<1> QED BY <1>3, <1>4, <1>5, <1>6, <1>7 DEF RaplInv

-----------------------------------------------------------------------------
\* A flush puts the last line of one more file on disk.
LEMMA FlushOK == RaplInv /\ Flush => RaplInv'
<1> SUFFICES ASSUME RaplInv, Flush PROVE RaplInv'
  OBVIOUS
<1> USE ConstantsOK, TenFiles DEF RaplInv
<1>0. ControlOK /\ written \in Nat /\ flushed \in 0 .. 10 /\ now \in Nat
      /\ disk \in [1 .. 10 -> Nat] /\ after \in Nat
  BY DEF ControlOK
<1>1. PICK d \in Delays \union {0} : now' = now + d
  <2>1. CASE written = 1
    <3>1. 0 \in Delays \union {0} /\ now' = now + 0
      BY <1>0, <2>1 DEF Flush
    <3> QED BY <3>1
  <2>2. CASE written # 1
    BY <2>2 DEF Flush
  <2> QED BY <2>1, <2>2
<1>2. /\ pc = "flush" /\ flushed < 10 /\ flushed' = flushed + 1
      /\ disk' = [disk EXCEPT ![flushed + 1] = written]
      /\ UNCHANGED <<pc, status, native, code, events, written, tail, start, before, after,
                     counting, measured, values, used, pkg, pp0, times>>
  BY DEF Flush, LinesAfterFlush, found, energy
<1>3. d \in Nat /\ d <= MaxDelay /\ now' \in Nat /\ now <= now'
  BY <1>0, <1>1
<1>a. flushed' \in 0 .. NumFiles /\ disk' \in [1 .. NumFiles -> Nat]
  BY <1>0, <1>2
<1>4. ControlOK'
  BY ONLY <1>0, <1>2, <1>3, <1>a DEF ControlOK
<1>5. EventsInv' /\ EnergyExact'
  BY <1>2 DEF EventsInv, EnergyExact, Ended
<1>6. FilesInv'
  <2>1. /\ FilesInv /\ written > 0
        /\ \A f \in 1 .. 10 : disk[f] = IF f <= flushed THEN written ELSE written - 1
    BY <1>2 DEF FilesInv
  <2>2. \A f \in 1 .. 10 : disk'[f] = IF f <= flushed' THEN written ELSE written - 1
    BY <1>0, <1>2, <2>1
  <2>3. /\ \A f \in 1 .. 10 : disk'[f] \in {written, written - 1}
        /\ \A f \in 1 .. 10 : \A g \in 1 .. f : disk'[g] >= disk'[f]
    BY <1>0, <1>2, <2>2
  <2> QED BY <1>2, <2>1, <2>2, <2>3 DEF FilesInv, Samples, Starting, Measuring
<1>7. ClockInv'
  <2>1. ((flushed + 1) + 1) * MaxDelay = (flushed + 1) * MaxDelay + MaxDelay
        /\ (flushed + 1) * MaxDelay \in Nat
    <3>1. flushed + 1 \in Nat
      BY <1>0
    <3> QED BY <3>1, OneMore
  <2>2. CASE written > 1
    <3>1. /\ start \in Nat /\ start <= after /\ after <= now
          /\ after - start = LatestTime
          /\ now - after <= (flushed + 1) * MaxDelay
      BY <1>2, <2>2 DEF ControlOK, ClockInv, InLoop
    <3>2. now' - after <= (flushed' + 1) * MaxDelay
      BY <1>0, <1>1, <1>2, <1>3, <2>1, <3>1
    <3>3. LatestTime' = LatestTime
      BY <1>2 DEF LatestTime, Samples
    <3>4. after <= now'
      BY <1>0, <1>3, <3>1
    <3> QED BY ONLY <1>2, <3>1, <3>2, <3>3, <3>4 DEF ClockInv, InLoop
  <2>3. CASE ~(written > 1)
    BY <1>2, <2>3 DEF ClockInv, InLoop
  <2> QED BY <2>2, <2>3
<1>8. ScheduleInv'
  <2>1. InLoop => start \in Nat /\ measured \in Nat /\ measured <= now - start
    BY DEF ControlOK, ScheduleInv
  <2>2. InLoop => measured <= now' - start
    BY ONLY <1>0, <1>3, <2>1
  <2>3. Taken' = Taken /\ InLoop' = InLoop
    BY <1>2 DEF Taken, Samples, InLoop
  <2> QED BY <1>2, <2>2, <2>3 DEF ScheduleInv, Starting, Prompt
<1>9. TimeLeftInv' /\ TailInv'
  BY <1>2 DEF TimeLeftInv, Prompt, TimeIsUp, TailInv
<1>10. PowerRight'
  BY <1>2 DEF PowerRight, RowWritten, Prompt, Capacity
<1> QED BY <1>4, <1>5, <1>6, <1>7, <1>8, <1>9, <1>10

\* The clock of the loop is set.
LEMMA BeginLoopOK == RaplInv /\ BeginLoop => RaplInv'
<1> SUFFICES ASSUME RaplInv, BeginLoop PROVE RaplInv'
  OBVIOUS
<1> USE ConstantsOK, TenFiles DEF RaplInv
<1>1. /\ pc = "flush" /\ flushed = 10 /\ written = 1 /\ pc' = "loop"
      /\ start' = now /\ after' = now
      /\ UNCHANGED <<status, native, code, events, written, flushed, disk, tail, now, before,
                     counting, measured, values, used, times>>
  BY DEF BeginLoop, Goto, found, files
<1>2. ControlOK'
  BY <1>1 DEF ControlOK, Places
<1>3. EventsInv' /\ EnergyExact'
  BY <1>1 DEF EventsInv, EnergyExact, Ended
<1>4. FilesInv'
  BY <1>1 DEF FilesInv, ControlOK, Samples, Starting, Measuring
<1>5. times = <<>> /\ Samples = 0 /\ measured = 0 /\ now \in Nat /\ status = "none"
  BY <1>1, EmptySeq DEF FilesInv, ControlOK, Samples, ScheduleInv
<1>6. LatestTime' = 0 /\ Taken' = 0
  BY <1>1, <1>5 DEF LatestTime, Taken, Samples
<1>7. 11 * MaxDelay \in Nat /\ LeftOut(0) = 0
      /\ 0 * (Period - Overhead) = 0 /\ 0 * (Period - Overhead + MaxOvershoot) = 0
  BY DEF LeftOut
<1>8. ClockInv' /\ ScheduleInv'
  BY <1>1, <1>5, <1>6, <1>7 DEF ClockInv, ScheduleInv, InLoop, Starting
<1>9. TimeLeftInv'
  BY <1>1, <1>5 DEF TimeLeftInv, TimeIsUp
<1>10. TailInv' /\ PowerRight'
  BY <1>1 DEF TailInv, PowerRight, RowWritten, Measuring
<1> QED BY <1>2, <1>3, <1>4, <1>8, <1>9, <1>10

\* An amount that fits up to a moment fits up to a later one.
LEMMA LaterFits ==
  ASSUME NEW m \in Nat, NEW s \in Nat, NEW a \in Nat, NEW b \in Nat, m <= a - s, a <= b
  PROVE  m <= b - s
OBVIOUS

\* The counters start some time after the clock was read.
LEMMA StartCountingOK == RaplInv /\ StartCounting => RaplInv'
<1> SUFFICES ASSUME RaplInv, StartCounting PROVE RaplInv'
  OBVIOUS
<1>1. CASE Fail("start")
  BY <1>1, FailOK DEF StartCounting, Measuring, Reasons
<1>2. CASE ~Fail("start")
  <2> USE ConstantsOK, TenFiles DEF RaplInv
  <2>1. PICK d \in Delays : now' = now + d
    BY <1>2 DEF StartCounting
  <2>2. /\ pc = "loop" /\ pc' = "sleep" /\ before' = now /\ counting' \in now .. now'
        /\ UNCHANGED <<status, native, code, events, written, flushed, disk, tail,
                       start, after, measured, values, used, times>>
    BY <1>2 DEF StartCounting, Goto, BeforeTime, found, files, energy
  <2>3. /\ now \in Nat /\ now' \in Nat /\ now <= now' /\ now' - now <= MaxDelay
        /\ start \in Nat /\ after \in Nat /\ after <= now /\ start <= after
        /\ after - start = LatestTime /\ now - after <= 11 * MaxDelay
        /\ written = 1 => now = after
    <3>1. now \in Nat /\ start \in Nat /\ after \in Nat
      BY DEF ControlOK
    <3>2. d \in Nat /\ d <= MaxDelay
      OBVIOUS
    <3>3. /\ after <= now /\ start <= after /\ after - start = LatestTime
          /\ now - after <= 11 * MaxDelay
          /\ written = 1 => now = after
      BY <2>2 DEF ClockInv, InLoop
    <3> QED BY ONLY ConstantsOK, <2>1, <3>1, <3>2, <3>3
  <2>5. EventsInv' /\ EnergyExact'
    BY <2>2 DEF EventsInv, EnergyExact, Ended
  <2>6. FilesInv'
    BY <2>2 DEF FilesInv, Samples, Starting, Measuring
  <2>a. LatestTime' = LatestTime
    BY <2>2 DEF LatestTime, Samples
  <2>b. after <= now' /\ counting' \in Nat /\ now <= counting' /\ counting' <= now'
    BY ONLY <2>2, <2>3
  <2>4. ControlOK'
    BY <2>2, <2>3, <2>b DEF ControlOK, Places
  <2>7. ClockInv'
    BY ONLY TenFiles, <2>2, <2>3, <2>a, <2>b DEF ClockInv, InLoop
  <2>8. ScheduleInv'
    <3>1. measured \in Nat /\ measured <= now - start
      BY <2>2 DEF ControlOK, ScheduleInv, InLoop
    <3>2. measured <= counting' - start /\ measured <= now' - start
      <4>1. now \in Nat /\ now' \in Nat /\ start \in Nat /\ now <= now'
        BY <2>3
      <4> QED BY ONLY <2>b, <3>1, <4>1, LaterFits
    <3>3. Taken' = Taken
      BY <2>2 DEF Taken, Samples
    <3> QED BY <2>2, <3>2, <3>3 DEF ScheduleInv, InLoop, Starting, Prompt
  <2>9. TimeLeftInv' /\ TailInv' /\ PowerRight'
    BY <2>2 DEF TimeLeftInv, Prompt, TimeIsUp, TailInv, Measuring, PowerRight, RowWritten
  <2> QED BY <2>4, <2>5, <2>6, <2>7, <2>8, <2>9
<1> QED BY <1>1, <1>2

\* One number per event is a sequence.
LEMMA PerEvent ==
  ASSUME events \in Seq(Event), NEW f \in [DOMAIN events -> Nat]
  PROVE  f \in Seq(Nat)
<1>1. Len(events) \in Nat /\ DOMAIN events = 1 .. Len(events)
  BY LenProperties
<1> QED BY <1>1, SeqDef

\* When the program is prompt a sample comes an interval after the last one, less
\* the overhead, and is not longer than the interval and what usleep oversleeps.
LEMMA NextSample ==
  ASSUME RaplInv, pc = "sleep", Prompt,
         NEW o \in Overshoots, after' = now + SleepTime + o
  PROVE  /\ after' = after + (Period - Overhead + o)
         /\ after' - before <= Period + MaxOvershoot
         /\ Period - Overhead \in Nat
<1>1. /\ now \in Nat /\ after \in Nat /\ before \in Nat
      /\ after <= before /\ before <= now
      /\ before - after <= 11 * MaxDelay /\ now - before <= MaxDelay
  BY TenFiles DEF RaplInv, ControlOK, ClockInv
<1>2. now - after + Overhead <= Period /\ Period - Overhead \in Nat
  BY <1>1, ConstantsOK, WorkIs DEF Prompt
<1>3. SleepTime = Period - (now - after + Overhead)
  BY <1>1, <1>2, SleepTimeOK
<1>4. o \in Nat /\ o <= MaxOvershoot
  BY ConstantsOK
<1> QED BY ONLY <1>1, <1>2, <1>3, <1>4, after' = now + SleepTime + o, ConstantsOK

\* What is counted in a sample fits in a counter.
LEMMA CountedExactly ==
  ASSUME Capacity, NEW p \in Powers, NEW n \in Nat,
         n <= Period + MaxOvershoot + MaxDelay
  PROVE  Counted(p * n) = p * n
<1> DEFINE longest == Period + MaxOvershoot + MaxDelay
<1>1. p \in Nat /\ CounterSpan \in Nat \ {0} /\ longest \in Nat
  BY RaplAssumption, ConstantsOK
<1>a. p * longest < CounterSpan
  BY DEF Capacity
<1> HIDE DEF longest
<1>2. p * n \in Nat /\ p * n <= p * longest
  BY <1>1, Monotone DEF longest
<1>3. p * longest \in Nat
  BY <1>1, Monotone
<1> DEFINE amount == p * n
<1> HIDE DEF amount
<1>4. amount \in Nat /\ amount < CounterSpan
  BY <1>1, <1>2, <1>3, <1>a DEF amount
<1>5. amount % CounterSpan = amount
  BY ONLY <1>1, <1>4
<1> QED BY <1>5 DEF amount, Counted

\* Two times that are a delay apart at most make two amounts that are not further
\* apart than what a delay makes.
LEMMA NearAmounts ==
  ASSUME NEW p \in Nat, NEW t \in Nat, NEW e \in Nat, NEW d \in Nat,
         t <= e + d, e <= t + d
  PROVE  p * e <= p * t + p * d /\ p * t <= p * e + p * d
<1>1. \A k, m, n \in Nat : k * (m + n) = k * m + k * n
  OBVIOUS
<1>2. p * t <= p * (e + d) /\ p * e <= p * (t + d)
  BY Monotone
<1> QED BY <1>1, <1>2

\* The time measured does not go past the clock of the loop, and what it misses grows
\* by the time between two samples in which the counters were stopped.
LEMMA Elapsed ==
  ASSUME NEW s \in Nat, NEW a \in Nat, NEW r \in Nat, NEW w \in Nat, NEW t \in Nat,
         NEW m \in Nat, NEW out \in Nat, NEW gap \in Nat,
         s <= a, a <= r, r <= w, w <= t, r - a <= gap, m <= r - s, a - s - m <= out
  PROVE  /\ t - r \in Nat /\ m + (t - r) \in Nat
         /\ m + (t - r) <= t - s
         /\ w - s - (m + (t - r)) <= out + gap
OBVIOUS

\* The readings and the calls around them are a delay apart at most.
LEMMA NearTimes ==
  ASSUME NEW b \in Nat, NEW r \in Nat, NEW n \in Nat, NEW w \in Nat, NEW t \in Nat,
         NEW e \in Nat, NEW d \in Nat,
         b <= r, r <= n, n - b <= d, n <= w, w <= t, t <= e, e - w <= d
  PROVE  /\ w - b \in Nat /\ w - b <= (t - r) + d
         /\ t - r <= (w - b) + d
OBVIOUS

\* One sample more leaves out one gap more, which is shorter before the first.
LEMMA LeftOutGrows ==
  ASSUME NEW n \in Nat
  PROVE  /\ LeftOut(n) \in Nat
         /\ LeftOut(n + 1) = LeftOut(n) + (IF n = 0 THEN MaxDelay ELSE Work)
<1>1. MaxDelay \in Nat /\ Work \in Nat /\ 0 * Work = 0
  BY ConstantsOK, WorkIs
<1>2. CASE n = 0
  BY <1>1, <1>2 DEF LeftOut
<1>3. CASE n # 0
  <2>1. n - 1 \in Nat /\ (n - 1) + 1 = n
    BY <1>3
  <2>2. (n - 1) * Work \in Nat /\ n * Work = (n - 1) * Work + Work
    BY <1>1, <2>1, OneMore
  <2>3. LeftOut(n) = MaxDelay + (n - 1) * Work
    BY <1>3 DEF LeftOut
  <2>4. LeftOut(n + 1) = MaxDelay + n * Work
    BY <1>3 DEF LeftOut
  <2> QED BY <1>1, <1>3, <2>2, <2>3, <2>4
<1> QED BY <1>2, <1>3

\* A sample.
LEMMA SampleOK == RaplInv /\ Sample => RaplInv'
<1> SUFFICES ASSUME RaplInv, Sample PROVE RaplInv'
  OBVIOUS
<1>1. CASE Fail("stop")
  BY <1>1, FailOK DEF Sample, Measuring, Reasons
<1>2. CASE ~Fail("stop")
  <2>0. ControlOK /\ EventsInv /\ FilesInv /\ TailInv /\ ClockInv /\ ScheduleInv
        /\ TimeLeftInv
    BY DEF RaplInv
  <2>1. PICK o \in Overshoots, d \in Delays :
          after' = now + SleepTime + o /\ now' = after' + d
    BY <1>2 DEF Sample
  <2>v. values' = [i \in DOMAIN events |-> Counted(used'[i])]
    BY <1>2 DEF Sample
  <2>3. /\ pc = "sleep" /\ pc' = "row"
        /\ UNCHANGED <<status, native, code, events, written, flushed, disk, tail, start,
                       before, counting, times>>
    BY <1>2 DEF Sample, Goto, found, files
  <2>4. /\ now \in Nat /\ after \in Nat /\ before \in Nat /\ start \in Nat
        /\ counting \in Nat /\ measured \in Nat /\ Samples \in Nat
    BY <2>0, LenProperties DEF ControlOK, Samples
  <2>5. /\ start <= after /\ after <= before /\ before <= counting /\ counting <= now
        /\ before - after <= 11 * MaxDelay /\ now - before <= MaxDelay
        /\ after - start = LatestTime
        /\ written = 1 => before = after
    BY <2>0, <2>3, <2>4, TenFiles DEF ClockInv, InLoop
  <2>t. /\ o \in Nat /\ d \in Nat /\ d <= MaxDelay /\ SleepTime \in Nat
        /\ after' \in Nat /\ now <= after' /\ now' \in Nat /\ after' <= now'
        /\ now' - after' <= MaxDelay
    <3>1. o \in Nat /\ d \in Nat /\ d <= MaxDelay /\ SleepTime \in Nat
      BY <2>4, SleepTimeOK, ConstantsOK
    <3> QED BY ONLY <2>1, <2>4, <3>1, ConstantsOK
  <2>s. PICK stopped \in Nat :
          /\ after' <= stopped /\ stopped <= now'
          /\ measured' = measured + (stopped - counting)
          /\ \E power \in [DOMAIN events -> Powers] :
               used' = [i \in DOMAIN events |-> power[i] * (stopped - counting)]
    <3>1. PICK n \in after' .. now' :
            /\ measured' = measured + (n - counting)
            /\ \E power \in [DOMAIN events -> Powers] :
                 used' = [i \in DOMAIN events |-> power[i] * (n - counting)]
      BY <1>2 DEF Sample, Covered
    <3>2. n \in Nat /\ after' <= n /\ n <= now'
      BY <2>t
    <3> QED BY <3>1, <3>2
  <2> DEFINE ticks == stopped - counting
             elapsed == after' - before
  <2>2. PICK power \in [DOMAIN events -> Powers] :
          used' = [i \in DOMAIN events |-> power[i] * ticks]
    BY <2>s
  <2>6. /\ o \in Nat /\ d \in Nat /\ SleepTime \in Nat
        /\ after' \in Nat /\ now <= after' /\ now' \in Nat
        /\ stopped \in Nat /\ after' <= stopped /\ stopped <= now'
        /\ now' - after' <= MaxDelay
    BY <2>t, <2>s
  <2> DEFINE gap == IF Samples = 0 THEN MaxDelay ELSE Work
  <2>a. /\ measured <= counting - start
        /\ after - start - measured <= LeftOut(Samples)
        /\ LeftOut(Samples) \in Nat
        /\ LeftOut(Samples + 1) = LeftOut(Samples) + gap
    <3>1. Taken = Samples
      BY <2>3 DEF Taken
    <3> QED BY <2>0, <2>3, <2>4, <3>1, LeftOutGrows DEF ScheduleInv, InLoop
  <2>e. gap \in Nat /\ counting - after <= gap
    <3>1. Samples = 0 => written = 1
      BY <2>0, <2>3 DEF FilesInv, Measuring, ControlOK
    <3> QED BY <2>4, <2>5, <3>1, ConstantsOK, WorkIs
  <2>b. counting <= after'
    BY ONLY <2>4, <2>5, <2>6
  <2>d. /\ ticks \in Nat /\ measured + ticks \in Nat
        /\ measured + ticks <= stopped - start
        /\ after' - start - (measured + ticks) <= LeftOut(Samples) + gap
    <3>1. after <= counting
      BY ONLY <2>4, <2>5
    <3> HIDE DEF gap
    <3> QED BY <2>4, <2>5, <2>6, <2>a, <2>b, <2>e, <3>1, Elapsed
  <2>c. measured' = measured + ticks
    BY <2>s
  <2>7. /\ elapsed \in Nat /\ ticks <= elapsed + MaxDelay /\ elapsed <= ticks + MaxDelay
        /\ MaxDelay \in Nat
    <3>1. MaxDelay \in Nat
      BY ConstantsOK
    <3> QED BY <2>4, <2>5, <2>6, <3>1, NearTimes
  <2>8. Prompt => /\ after' = after + (Period - Overhead + o)
                  /\ elapsed <= Period + MaxOvershoot
                  /\ Period - Overhead \in Nat
    BY <2>1, <2>3, NextSample
  <2>x. \A i \in DOMAIN events : power[i] \in Powers /\ power[i] \in Nat
    BY RaplAssumption
  <2> HIDE DEF ticks, elapsed
  <2>9. used' \in Seq(Nat) /\ values' \in Seq(Nat)
    <3>1. \A i \in DOMAIN events :
            power[i] * ticks \in Nat /\ Counted(power[i] * ticks) \in Nat
      <4> SUFFICES ASSUME NEW i \in DOMAIN events
                   PROVE  power[i] * ticks \in Nat /\ Counted(power[i] * ticks) \in Nat
        OBVIOUS
      <4>1. power[i] \in Nat /\ CounterSpan \in Nat \ {0}
        BY <2>x, RaplAssumption
      <4>2. power[i] * ticks \in Nat
        BY <2>d, <4>1, OneMore
      <4> QED BY <4>1, <4>2 DEF Counted
    <3>2. used' \in [DOMAIN events -> Nat] /\ values' \in [DOMAIN events -> Nat]
      BY <2>2, <2>v, <3>1
    <3> QED BY <2>0, <3>2, PerEvent DEF ControlOK
  <2>10. ControlOK'
    BY <2>0, <2>3, <2>6, <2>c, <2>d, <2>9 DEF ControlOK, Places
  <2>11. EventsInv' /\ FilesInv' /\ TailInv'
    BY <2>0, <2>3 DEF EventsInv, FilesInv, TailInv, Ended, Samples, Starting, Measuring
  <2>12. EnergyExact'
    <3> SUFFICES ASSUME Prompt, Capacity PROVE values' = used'
      BY DEF EnergyExact, Prompt, Capacity
    <3>1. ticks <= Period + MaxOvershoot + MaxDelay
      BY <2>7, <2>8, <2>d, ConstantsOK
    <3>2. \A i \in DOMAIN events : Counted(power[i] * ticks) = power[i] * ticks
      BY <2>d, <2>x, <3>1, CountedExactly
    <3> QED BY <2>2, <2>v, <3>2
  <2>p. PowerRight'
    <3> SUFFICES ASSUME Prompt, Capacity, NEW i \in DOMAIN events
                 PROVE  \E p \in Powers :
                          /\ p * elapsed <= values'[i] + p * MaxDelay
                          /\ values'[i] <= p * elapsed + p * MaxDelay
      BY <2>3, <2>v DEF PowerRight, Prompt, Capacity, elapsed
    <3>1. values'[i] = power[i] * ticks
      BY <2>2, <2>12 DEF EnergyExact, Prompt, Capacity
    <3>2. /\ power[i] * elapsed <= power[i] * ticks + power[i] * MaxDelay
          /\ power[i] * ticks <= power[i] * elapsed + power[i] * MaxDelay
      BY <2>7, <2>d, <2>x, NearAmounts
    <3> QED BY <2>x, <3>1, <3>2
  <2>13. LatestTime' = LatestTime /\ Taken' = Samples + 1 /\ Taken = Samples
    BY <2>3 DEF LatestTime, Taken, Samples
  <2>14. ClockInv'
    <3>1. start <= after' /\ after' <= now' /\ now' - after' <= MaxDelay
      <4>1. start <= now
        BY ONLY <2>4, <2>5
      <4> QED BY ONLY <2>4, <2>6, <4>1
    <3>2. Prompt => /\ LatestTime + (Period - Overhead) <= after' - start
                    /\ after' - start <= LatestTime + (Period - Overhead + MaxOvershoot)
      BY ONLY <2>1, <2>4, <2>5, <2>6, <2>8, ConstantsOK
    <3> QED BY ONLY <2>3, <2>13, <3>1, <3>2 DEF ClockInv, InLoop, Prompt
  <2>15. ScheduleInv'
    <3>3. /\ measured' <= now' - start
          /\ after' - start - measured' <= LeftOut(Samples + 1)
      <4>1. measured + ticks <= now' - start
        BY <2>4, <2>6, <2>d, LaterFits
      <4> QED BY <2>a, <2>c, <2>d, <4>1
    <3>4. Prompt =>
            /\ (Samples + 1) * (Period - Overhead) <= after' - start
            /\ after' - start <= (Samples + 1) * (Period - Overhead + MaxOvershoot)
      <4> SUFFICES ASSUME Prompt
                   PROVE  /\ (Samples + 1) * (Period - Overhead) <= after' - start
                          /\ after' - start
                               <= (Samples + 1) * (Period - Overhead + MaxOvershoot)
        OBVIOUS
      <4> DEFINE low == Period - Overhead
                 high == Period - Overhead + MaxOvershoot
      <4>1. low \in Nat /\ high \in Nat /\ o <= MaxOvershoot
        BY <2>8, ConstantsOK
      <4>2. Samples * low <= after - start /\ after - start <= Samples * high
        BY <2>0, <2>3, <2>13 DEF ScheduleInv, InLoop
      <4>3. after' = after + (low + o) /\ low + o <= high
        BY <2>8, <4>1, ConstantsOK
      <4> HIDE DEF low, high
      <4>4. /\ Samples * low \in Nat /\ (Samples + 1) * low = Samples * low + low
            /\ Samples * high \in Nat /\ (Samples + 1) * high = Samples * high + high
        BY <2>4, <4>1, OneMore
      <4>5. (Samples + 1) * low <= after' - start
            /\ after' - start <= (Samples + 1) * high
        BY ONLY <2>4, <2>6, <4>1, <4>2, <4>3, <4>4
      <4> QED BY <4>5 DEF low, high
    <3> QED BY ONLY <2>3, <2>13, <3>3, <3>4
            DEF ScheduleInv, InLoop, Starting, Prompt
  <2>16. TimeLeftInv'
    <3>1. status = "none"
      BY <2>0, <2>3 DEF FilesInv
    <3>2. ASSUME Prompt, MaxTime > 0
          PROVE  after' - start < MaxTime * Second + Period + MaxOvershoot
      <4>1. ~(after - start >= MaxTime * Second)
        BY <2>0, <2>3, <3>2 DEF TimeLeftInv, TimeIsUp
      <4> QED BY ONLY <2>4, <2>6, <2>8, <3>2, <4>1, ConstantsOK
    <3> QED BY <2>3, <3>1, <3>2 DEF TimeLeftInv, Prompt
  <2> QED BY <2>10, <2>11, <2>12, <2>p, <2>14, <2>15, <2>16 DEF RaplInv
<1> QED BY <1>1, <1>2

\* A row is in the buffers of all the files, and on disk in none.
LEMMA WriteRowOK == RaplInv /\ WriteRow => RaplInv'
<1> SUFFICES ASSUME RaplInv, WriteRow PROVE RaplInv'
  OBVIOUS
<1>0. ControlOK /\ EventsInv /\ FilesInv /\ TailInv /\ ClockInv /\ ScheduleInv
      /\ TimeLeftInv /\ EnergyExact /\ PowerRight
  BY DEF RaplInv
<1>1. /\ pc = "row" /\ pc' = "flush" /\ written' = written + 1 /\ flushed' = 0
      /\ times' = Append(times, after - start)
      /\ UNCHANGED <<status, native, code, events, disk, tail, now, start, before, after,
                     counting, measured, values, used>>
  <2>1. pc = "row" /\ NoFileAt(events) = 0
    BY <1>0 DEF WriteRow, TailInv, Measuring
  <2> QED BY <2>1 DEF WriteRow, WholeRow, Goto, found, clock
<1>2. /\ times \in Seq(Nat) /\ after \in Nat /\ start \in Nat /\ written \in Nat
      /\ Samples \in Nat /\ disk \in [1 .. 10 -> Nat]
  BY <1>0, LenProperties, TenFiles DEF ControlOK, Samples
<1>3. start <= after /\ after <= now /\ now - after <= MaxDelay /\ after - start \in Nat
  BY <1>0, <1>1, <1>2 DEF ClockInv, InLoop
<1>4. /\ times' \in Seq(Nat) /\ Samples' = Samples + 1 /\ LatestTime' = after - start
      /\ Taken' = Samples + 1 /\ Taken = Samples + 1
  <2>1. /\ times' \in Seq(Nat) /\ Len(times') = Len(times) + 1 /\ times' # <<>>
        /\ times'[Len(times) + 1] = after - start
    <3>1. after - start \in Nat /\ times \in Seq(Nat)
      BY <1>2, <1>3
    <3> QED BY ONLY <1>1, <3>1, Appended
  <2> QED BY <1>1, <2>1 DEF Samples, LatestTime, Taken
<1>5. /\ status = "none" /\ written = Samples + 1 /\ written > 0
      /\ \A f \in 1 .. 10 : disk[f] = written
  BY <1>0, <1>1, TenFiles DEF FilesInv, Measuring
<1>a. flushed' \in 0 .. NumFiles /\ written' \in Nat /\ pc' \in Places
  BY <1>1, <1>2, TenFiles DEF Places
<1>6. ControlOK'
  BY ONLY <1>0, <1>1, <1>4, <1>a DEF ControlOK
<1>7. EventsInv' /\ EnergyExact'
  BY <1>0, <1>1 DEF EventsInv, EnergyExact, Ended
<1>8. FilesInv'
  <2>1. /\ \A f \in 1 .. 10 : /\ disk'[f] = written' - 1
                              /\ disk'[f] \in {written', written' - 1}
                              /\ f > flushed'
        /\ \A f \in 1 .. 10 : \A g \in 1 .. f : disk'[g] >= disk'[f]
    BY <1>1, <1>2, <1>5
  <2>2. written' = Samples' + 1 /\ written' > 0
    BY <1>1, <1>2, <1>4, <1>5
  <2> QED BY ONLY <1>1, <1>2, <1>5, <2>1, <2>2, TenFiles
          DEF FilesInv, Starting, Measuring
<1>9. ClockInv'
  <2>1. now' - after' <= (flushed' + 1) * MaxDelay
    BY <1>1, <1>2, <1>3, ConstantsOK
  <2>2. start' <= after' /\ after' <= now' /\ after' - start' = LatestTime'
    BY <1>1, <1>2, <1>3, <1>4
  <2> QED BY ONLY <1>1, <2>1, <2>2 DEF ClockInv, InLoop
<1>10. ScheduleInv'
  <2>1. /\ measured <= now - start
        /\ after - start - measured <= LeftOut(Taken)
        /\ Prompt =>
             /\ Taken * (Period - Overhead) <= after - start
             /\ after - start <= Taken * (Period - Overhead + MaxOvershoot)
    BY <1>0, <1>1 DEF ScheduleInv, InLoop
  <2>2. Taken' = Taken /\ written' # 1
    BY <1>1, <1>2, <1>4, <1>5
  <2> QED BY ONLY <1>1, <2>1, <2>2 DEF ScheduleInv, InLoop, Starting, Prompt
<1>11. TimeLeftInv'
  BY <1>0, <1>1, <1>5 DEF TimeLeftInv, Prompt
<1>12. TailInv' /\ PowerRight'
  BY <1>0, <1>1 DEF TailInv, Measuring, PowerRight, RowWritten, Prompt, Capacity
<1> QED BY <1>6, <1>7, <1>8, <1>9, <1>10, <1>11, <1>12 DEF RaplInv

\* The time is not up, and the loop goes on.
LEMMA NextTurnOK == RaplInv /\ NextTurn => RaplInv'
<1> SUFFICES ASSUME RaplInv, NextTurn PROVE RaplInv'
  OBVIOUS
<1> USE ConstantsOK, TenFiles DEF RaplInv
<1>1. /\ pc = "flush" /\ pc' = "loop" /\ written > 1 /\ flushed = 10 /\ ~TimeIsUp
      /\ UNCHANGED <<status, native, code, events, written, flushed, disk, tail, now, start,
                     before, after, counting, measured, values, used, times>>
  BY DEF NextTurn, Goto, found, files, clock, energy
<1>2. ControlOK'
  BY <1>1 DEF ControlOK, Places
<1>3. EventsInv' /\ EnergyExact'
  BY <1>1 DEF EventsInv, EnergyExact, Ended
<1>4. FilesInv'
  <2>1. written \in Nat
    BY DEF ControlOK
  <2> QED BY <1>1, <2>1 DEF FilesInv, Samples, Starting, Measuring
<1>5. LatestTime' = LatestTime /\ Taken' = Taken
  BY <1>1 DEF LatestTime, Taken, Samples
<1>6. ClockInv'
  BY <1>1, <1>5 DEF ClockInv, InLoop
<1>7. ScheduleInv'
  BY <1>1, <1>5 DEF ScheduleInv, InLoop, Starting, Prompt
<1>8. TimeLeftInv'
  BY <1>1 DEF TimeLeftInv, TimeIsUp, FilesInv
<1>9. TailInv' /\ PowerRight'
  BY <1>1 DEF TailInv, Measuring, PowerRight, RowWritten, Prompt, Capacity
<1> QED BY <1>2, <1>3, <1>4, <1>6, <1>7, <1>8, <1>9

\* The time is up, and the program ends with all the rows on disk.
LEMMA FinishOK == RaplInv /\ Finish => RaplInv'
<1> SUFFICES ASSUME RaplInv, Finish PROVE RaplInv'
  OBVIOUS
<1> USE ConstantsOK, TenFiles DEF RaplInv
<1>1. /\ pc = "flush" /\ written > 1 /\ flushed = 10 /\ TimeIsUp
      /\ pc' = "exited" /\ status' = "done" /\ tail' = "whole"
      /\ disk' = [f \in 1 .. 10 |-> written]
      /\ UNCHANGED <<native, code, events, written, flushed, now, start, before, after,
                     counting, measured, values, used, times>>
  BY DEF Finish, Fail, Exit, found, clock, energy
<1>2. written \in Nat /\ \A f \in 1 .. 10 : disk'[f] = written
  BY <1>1 DEF ControlOK
<1>3. ControlOK'
  <2>1. disk' \in [1 .. 10 -> Nat]
    BY <1>1, <1>2
  <2> QED BY <1>1, <2>1 DEF ControlOK, Places, Reasons
<1>4. EventsInv' /\ EnergyExact'
  BY <1>1 DEF EventsInv, EnergyExact, Ended
<1>5. FilesInv'
  BY <1>1, <1>2 DEF FilesInv, Samples, Starting, Measuring
<1>6. ClockInv' /\ ScheduleInv'
  BY <1>1 DEF ClockInv, ScheduleInv, InLoop, Starting
<1>7. TimeLeftInv'
  BY <1>1 DEF TimeLeftInv, TimeIsUp, Prompt
<1>8. TailInv' /\ PowerRight'
  BY <1>1 DEF TailInv, Measuring, PowerRight, RowWritten
<1> QED BY <1>3, <1>4, <1>5, <1>6, <1>7, <1>8

\* A kill leaves the files as they are.
LEMMA KillOK == RaplInv /\ Kill => RaplInv'
<1> SUFFICES ASSUME RaplInv, Kill PROVE RaplInv'
  OBVIOUS
<1>1. /\ ~Ended /\ pc' = "killed"
      /\ UNCHANGED <<status, native, code, events, written, flushed, disk, tail, now, start,
                     before, after, counting, measured, values, used, times>>
  BY DEF Kill, found, files, clock, energy
<1>2. ControlOK' /\ EventsInv' /\ EnergyExact'
  BY <1>1 DEF RaplInv, ControlOK, Places, EventsInv, EnergyExact, Ended
<1>3. FilesInv'
  BY <1>1 DEF RaplInv, FilesInv, Ended, Samples, Starting, Measuring
<1>4. ClockInv' /\ ScheduleInv'
  BY <1>1 DEF ClockInv, ScheduleInv, InLoop, Starting
<1>5. TimeLeftInv'
  BY <1>1 DEF RaplInv, TimeLeftInv, FilesInv, Ended
<1>6. TailInv' /\ PowerRight'
  BY <1>1 DEF RaplInv, TailInv, FilesInv, Ended, Measuring, PowerRight, RowWritten
<1> QED BY <1>2, <1>3, <1>4, <1>5, <1>6 DEF RaplInv

LEMMA StillOK == RaplInv /\ UNCHANGED vars => RaplInv'
<1> SUFFICES ASSUME RaplInv, UNCHANGED vars PROVE RaplInv'
  OBVIOUS
<1>1. UNCHANGED <<pc, status, native, code, events, written, flushed, disk, tail, now, start,
                  before, after, counting, measured, values, used, times>>
  BY DEF vars, found, files, clock, energy
<1>2. ControlOK' /\ EventsInv' /\ FilesInv'
  BY <1>1 DEF RaplInv, ControlOK, EventsInv, FilesInv, Ended, Samples
<1>3. ClockInv' /\ ScheduleInv'
  BY <1>1 DEF RaplInv, ClockInv, ScheduleInv, InLoop, LatestTime, Taken, Samples, Prompt
<1>4. TimeLeftInv' /\ EnergyExact'
  BY <1>1 DEF RaplInv, TimeLeftInv, EnergyExact, TimeIsUp, Prompt, Capacity
<1>5. TailInv' /\ PowerRight'
  BY <1>1 DEF RaplInv, TailInv, PowerRight, RowWritten, Prompt, Capacity
<1> QED BY <1>2, <1>3, <1>4, <1>5 DEF RaplInv

LEMMA StepOK == RaplInv /\ [Next]_vars => RaplInv'
BY ArgumentsOK, LibraryOK, ComponentOK, FindEventOK, AddEventsOK, OpenFilesOK,
   WriteHeaderOK, FlushOK, BeginLoopOK, StartCountingOK, SampleOK, WriteRowOK,
   NextTurnOK, FinishOK, KillOK, StillOK
DEF Next, Program, StartUp, Loop, Terminated

\* Whatever the processor, the interval and the delays, the invariant of the monitor
\* holds.
THEOREM RaplInvariant == Spec => []RaplInv
BY InitOK, StepOK, PTL DEF Spec

\* Killed or not, the files differ by the last line at most, and end in a part of a
\* line only where an event without a file has ended the program in its headers.
THEOREM WholeRowsHolds == Spec => []WholeRows
<1>1. RaplInv => WholeRows
  <2> SUFFICES ASSUME RaplInv PROVE WholeRows
    OBVIOUS
  <2>1. /\ (tail = "cut") <=> (status = "unexpected")
        /\ tail = "cut" => \A f \in 1 .. NumFiles : disk[f] = 0
    BY DEF RaplInv, TailInv, FilesInv
  <2> QED BY <2>1 DEF RaplInv, FilesInv, WholeRows, Measuring
<1> QED BY <1>1, RaplInvariant, PTL

\* The samples of a prompt monitor do not drift.
THEOREM NoDriftHolds == Spec => []NoDrift
<1>1. RaplInv => NoDrift
  BY DEF RaplInv, ScheduleInv, Taken, NoDrift
<1> QED BY <1>1, RaplInvariant, PTL

\* Two samples of a prompt monitor are never further apart than the interval and
\* the delays: it is the flushes it does not keep up with that may part them.
THEOREM IntervalKeptWhenPrompt == ASSUME Prompt PROVE Spec => []IntervalKept
<1>1. RaplInv => IntervalKept
  <2> SUFFICES ASSUME RaplInv, pc = "row"
               PROVE  after - start - LatestTime <=
                        Period + Work + Overhead + MaxOvershoot
    BY DEF IntervalKept, LatestTime
  <2>1. after - start <= LatestTime + (Period - Overhead + MaxOvershoot)
    BY DEF RaplInv, ClockInv
  <2>2. after \in Nat /\ start \in Nat /\ LatestTime \in Nat
    <3>1. times \in Seq(Nat) /\ after \in Nat /\ start \in Nat
      BY DEF RaplInv, ControlOK
    <3>2. times # <<>> => times[Len(times)] \in Nat
      BY <3>1, EmptySeq, ElementOfSeq, LenProperties
    <3> QED
      BY <3>1, <3>2 DEF LatestTime, Samples
  <2>3. Work \in Nat
    BY WorkIs
  <2> QED
    BY <2>1, <2>2, <2>3, ConstantsOK
<1> QED BY <1>1, RaplInvariant, PTL

\* Only the time of PAPI_start, PAPI_stop and the flushes is not measured.
THEOREM LittleUnmeasuredHolds == Spec => []LittleUnmeasured
<1>1. RaplInv => LittleUnmeasured
  BY DEF RaplInv, ScheduleInv, Taken, LittleUnmeasured
<1> QED BY <1>1, RaplInvariant, PTL

\* The elapsed time of a row is that of its energies, but for one delay.
THEOREM PowerRightHolds == Spec => []PowerRight
<1>1. RaplInv => PowerRight
  BY DEF RaplInv
<1> QED BY <1>1, RaplInvariant, PTL

\* The energies of a sample are exact while a counter does not go round in it.
THEOREM EnergyExactHolds == Spec => []EnergyExact
<1>1. RaplInv => EnergyExact
  BY DEF RaplInv
<1> QED BY <1>1, RaplInvariant, PTL

\* A monitor with a maximum time stops at the first sample that reaches it.
THEOREM MaxTimeKeptHolds == Spec => []MaxTimeKept
<1>1. RaplInv => MaxTimeKept
  BY DEF RaplInv, TimeLeftInv, TimeIsUp, MaxTimeKept
<1> QED BY <1>1, RaplInvariant, PTL

-----------------------------------------------------------------------------
(***************************************************************************)
(* The refinement.                                                         *)
(***************************************************************************)
\* A sample is under way only when there may be one more.
RoomInv == pc \in {"sleep", "row"} => Samples < MaxSamples

LEMMA RoomHolds == Spec => []RoomInv
<1>1. Init => RoomInv
  BY DEF Init, RoomInv
<1>2. RoomInv /\ [Next]_vars => RoomInv'
  <2> SUFFICES ASSUME RoomInv, [Next]_vars PROVE RoomInv'
    OBVIOUS
  <2> USE DEF RoomInv, Samples
  <2>1. CASE StartUp
    BY <2>1 DEF StartUp, ReadArguments, InitLibrary, FindComponent, FindEvent, AddEvents,
       OpenFiles, WriteHeader, BeginLoop, Fail, Exit, Goto
  <2>2. CASE Flush
    BY <2>2 DEF Flush
  <2>3. CASE StartCounting
    BY <2>3 DEF StartCounting, Goto, Fail, Exit
  <2>4. CASE Sample
    BY <2>4 DEF Sample, Goto, Fail, Exit
  <2>5. CASE WriteRow \/ NextTurn \/ Finish \/ Kill
    BY <2>5 DEF WriteRow, WholeRow, CutRow, NextTurn, Finish, Kill, Goto, Fail, Exit
  <2>6. CASE UNCHANGED vars
    BY <2>6 DEF vars
  <2> QED BY <2>1, <2>2, <2>3, <2>4, <2>5, <2>6 DEF Next, Program, Loop, Terminated
<1> QED BY <1>1, <1>2, PTL DEF Spec

\* A step that adds no row to a file, and neither ends the program nor takes a sample.
LEMMA Stutters ==
  ASSUME UNCHANGED <<times, disk>>, Ended' = Ended
  PROVE  UNCHANGED Reader!svars
BY DEF Reader!svars, RowsOn

\* A step that ends the program.
LEMMA Stops ==
  ASSUME UNCHANGED <<times, disk>>, ~Ended, Ended'
  PROVE  Reader!Stop
BY DEF Reader!Stop, RowsOn

\* An exit where all the lines are on disk.
LEMMA FailStops ==
  ASSUME RaplInv, NEW why, Fail(why), \A f \in 1 .. NumFiles : disk[f] = written, ~Ended
  PROVE  Reader!Stop
<1>1. disk' = disk
  BY TenFiles DEF Fail, Exit, RaplInv, ControlOK
<1>2. times' = times /\ Ended'
  BY DEF Fail, Exit, Ended
<1> QED BY <1>1, <1>2, Stops

\* Writing a row is a sample, a period after the last one.
LEMMA WriteRowSamples ==
  ASSUME RaplInv, RoomInv, Prompt, WriteRow
  PROVE  \E p \in Period - Overhead .. Period - Overhead + MaxOvershoot : Reader!Sample(p)
<1>1. /\ pc = "row" /\ pc' = "flush" /\ disk' = disk
      /\ times' = Append(times, after - start)
  BY DEF WriteRow, WholeRow, Goto, RaplInv, TailInv, Measuring
<1>2. /\ times \in Seq(Nat) /\ after \in Nat /\ start \in Nat /\ Samples \in Nat
      /\ Samples < MaxSamples
  BY <1>1, LenProperties DEF RaplInv, ControlOK, Samples, RoomInv
<1>3. \A f \in 1 .. NumFiles : RowsOn(f) = Samples
  <2>1. /\ written = Samples + 1
        /\ \A f \in 1 .. NumFiles : disk[f] = written
    BY <1>1 DEF RaplInv, FilesInv, Measuring
  <2> QED BY <1>2, <2>1 DEF RowsOn
<1>4. LatestTime \in Nat
  BY <1>2, ElementOfSeq, EmptySeq DEF LatestTime, Samples
<1> DEFINE p == after - start - LatestTime
<1>5. /\ LatestTime + (Period - Overhead) <= after - start
      /\ after - start <= LatestTime + (Period - Overhead + MaxOvershoot)
  BY <1>1 DEF RaplInv, ClockInv
<1>6. p \in Period - Overhead .. Period - Overhead + MaxOvershoot
      /\ LatestTime + p = after - start
  BY ONLY <1>2, <1>4, <1>5, ConstantsOK
<1>7. Reader!Latest = LatestTime /\ Len(times) = Samples
  BY DEF Reader!Latest, LatestTime, Samples
<1>8. Ended' = FALSE /\ Ended = FALSE
  BY <1>1 DEF Ended
<1>9. Reader!Sample(p)
  BY <1>1, <1>2, <1>3, <1>6, <1>7, <1>8
  DEF Reader!Sample, Reader!AllShown, RowsOn
<1> QED BY <1>6, <1>9

\* Flushing a file shows the last row in it, or only its header.
LEMMA FlushShows ==
  ASSUME RaplInv, Flush
  PROVE  (\E f \in 1 .. NumFiles : Reader!Show(f)) \/ UNCHANGED Reader!svars
<1>1. /\ pc = "flush" /\ pc' = "flush" /\ flushed < 10 /\ times' = times
      /\ disk' = [disk EXCEPT ![flushed + 1] = written]
  BY TenFiles DEF Flush, LinesAfterFlush
<1>2. /\ written \in Nat /\ flushed \in 0 .. 10 /\ disk \in [1 .. 10 -> Nat]
      /\ Samples \in Nat
  BY LenProperties, TenFiles DEF RaplInv, ControlOK, Samples
<1>3. /\ written = Samples + 1
      /\ \A f \in 1 .. 10 : disk[f] = IF f <= flushed THEN written ELSE written - 1
  BY <1>1, TenFiles DEF RaplInv, FilesInv
<1>4. ~Ended /\ ~Ended'
  BY <1>1 DEF Ended
<1> DEFINE f == flushed + 1
           shown == [g \in 1 .. NumFiles |-> RowsOn(g)]
<1>5. f \in 1 .. 10 /\ 1 .. NumFiles = 1 .. 10
  BY <1>1, <1>2, TenFiles
<1>6. CASE written = 1
  <2>1. \A g \in 1 .. 10 : RowsOn(g) = 0 /\ RowsOn(g)' = 0
    BY <1>1, <1>2, <1>3, <1>5, <1>6 DEF RowsOn
  <2>2. shown' = shown
    BY <1>5, <2>1
  <2> QED BY <1>1, <1>4, <2>2 DEF Reader!svars
<1>7. CASE written # 1
  <2>1. \A g \in 1 .. 10 : /\ RowsOn(g) = IF g <= flushed THEN Samples ELSE Samples - 1
                           /\ RowsOn(g)' = IF g = f THEN Samples ELSE RowsOn(g)
    BY <1>1, <1>2, <1>3, <1>5, <1>7 DEF RowsOn
  <2>2. /\ RowsOn(f) < Samples
        /\ \A g \in 1 .. f - 1 : RowsOn(g) = Samples
    BY <1>2, <1>5, <2>1
  <2>3. shown' = [shown EXCEPT ![f] = Samples]
    BY <1>5, <2>1
  <2>4. shown[f] < Len(times) /\ \A g \in 1 .. f - 1 : shown[g] = Len(times)
    <3>1. f \in 1 .. NumFiles /\ \A g \in 1 .. f - 1 : g \in 1 .. NumFiles
      BY <1>2, <1>5, TenFiles
    <3>2. \A g \in 1 .. NumFiles : shown[g] = RowsOn(g)
      OBVIOUS
    <3> HIDE DEF f, shown
    <3> QED BY <2>2, <3>1, <3>2 DEF Samples
  <2>5. Reader!Show(f)
    BY <1>1, <1>4, <2>3, <2>4 DEF Reader!Show, Samples
  <2> QED BY <1>5, <2>5
<1> QED BY <1>6, <1>7

\* Every step of the program is one of the sampler, or none.
LEMMA StepRefines ==
  ASSUME Prompt, RaplInv, RoomInv, [Next]_vars
  PROVE  [Reader!Next]_(Reader!svars)
<1> DEFINE Goal == Reader!Stop \/ UNCHANGED Reader!svars
<1>a. pc \in Starting \union Measuring =>
        ~Ended /\ \A f \in 1 .. NumFiles : disk[f] = written
  BY DEF Ended, Starting, Measuring, RaplInv, FilesInv
<1>1. CASE ReadArguments \/ InitLibrary \/ FindComponent \/ AddEvents \/ OpenFiles
  <2>1. pc \in Starting
    BY <1>1 DEF ReadArguments, InitLibrary, FindComponent, AddEvents, OpenFiles, Starting
  <2>2. (\E why \in Reasons : Fail(why)) \/ (pc' \in Starting /\ UNCHANGED <<times, disk>>)
    BY <1>1 DEF ReadArguments, InitLibrary, FindComponent, AddEvents, OpenFiles, Starting,
       Reasons, Goto, files
  <2>3. CASE \E why \in Reasons : Fail(why)
    BY <1>a, <2>1, <2>3, FailStops DEF Reader!Next
  <2>4. CASE pc' \in Starting /\ UNCHANGED <<times, disk>>
    BY <2>1, <2>4, Stutters DEF Ended, Starting
  <2> QED BY <2>2, <2>3, <2>4
<1>2. CASE FindEvent \/ WriteHeader
  <2>1. pc \in Starting /\ times' = times
    BY <1>2 DEF FindEvent, WriteHeader, Starting, Fail
  <2>2. \/ \E why \in Reasons : Fail(why)
        \/ pc' = "exited" /\ disk' = [f \in 1 .. NumFiles |-> written]
        \/ pc' \in {"events", "flush"} /\ disk' = disk
    BY <1>2 DEF FindEvent, WriteHeader, Exit, Goto, Reasons
  <2>3. CASE \E why \in Reasons : Fail(why)
    BY <1>a, <2>1, <2>3, FailStops DEF Reader!Next
  <2>4. CASE pc' = "exited" /\ disk' = [f \in 1 .. NumFiles |-> written]
    <3>1. disk' = disk
      BY <1>a, <2>1, <2>4, TenFiles DEF RaplInv, ControlOK
    <3> QED BY <1>a, <2>1, <2>4, <3>1, Stops DEF Ended, Reader!Next
  <2>5. CASE pc' \in {"events", "flush"} /\ disk' = disk
    BY <1>a, <2>1, <2>5, Stutters DEF Ended
  <2> QED BY <2>2, <2>3, <2>4, <2>5
<1>3. CASE BeginLoop \/ NextTurn
  <2>1. pc = "flush" /\ pc' = "loop" /\ UNCHANGED <<times, disk>>
    BY <1>3 DEF BeginLoop, NextTurn, Goto, files
  <2> QED BY <2>1, Stutters DEF Ended
<1>4. CASE StartCounting \/ Sample
  <2>1. pc \in {"loop", "sleep"} /\ times' = times
    BY <1>4 DEF StartCounting, Sample, Fail
  <2>2. Fail("start") \/ Fail("stop") \/ (pc' \in {"sleep", "row"} /\ disk' = disk)
    BY <1>4 DEF StartCounting, Sample, Goto, files
  <2>3. CASE Fail("start") \/ Fail("stop")
    BY <1>a, <2>1, <2>3, FailStops DEF Reader!Next, Measuring
  <2>4. CASE pc' \in {"sleep", "row"} /\ disk' = disk
    BY <2>1, <2>4, Stutters DEF Ended
  <2> QED BY <2>2, <2>3, <2>4
<1>5. CASE WriteRow
  BY <1>5, WriteRowSamples DEF Reader!Next
<1>6. CASE Flush
  BY <1>6, FlushShows DEF Reader!Next
<1>7. CASE Finish
  <2>1. ~Ended /\ \A f \in 1 .. NumFiles : disk[f] = written
    BY <1>7, TenFiles DEF Finish, Ended, RaplInv, FilesInv, ControlOK
  <2>2. Fail("done")
    BY <1>7 DEF Finish
  <2> QED BY <2>1, <2>2, FailStops DEF Reader!Next
<1>8. CASE Kill
  <2>1. UNCHANGED <<times, disk>> /\ ~Ended /\ Ended'
    BY <1>8 DEF Kill, files, Ended
  <2> QED BY <2>1, Stops DEF Reader!Next
<1>9. CASE UNCHANGED vars
  <2>1. UNCHANGED <<times, disk>> /\ Ended' = Ended
    BY <1>9 DEF vars, files, Ended
  <2> QED BY <2>1, Stutters
<1> QED BY <1>1, <1>2, <1>3, <1>4, <1>5, <1>6, <1>7, <1>8, <1>9
        DEF Next, Program, StartUp, Loop, Terminated

LEMMA InitRefines == Init => Reader!Init
BY TenFiles DEF Init, Reader!Init, RowsOn, Ended

\* A monitor that is prompt is a sampler, for any reader of its files.
THEOREM SamplerHolds == ASSUME Prompt PROVE Spec => IsSampler
<1>1. RaplInv /\ RoomInv /\ [Next]_vars => [Reader!Next]_(Reader!svars)
  BY StepRefines
<1> QED BY <1>1, InitRefines, RaplInvariant, RoomHolds, PTL
        DEF Spec, IsSampler, Reader!Spec
=============================================================================
