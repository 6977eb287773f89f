--------------------------------- MODULE Rapl ---------------------------------
(***************************************************************************)
(* rapl_plot (bin/rapl/rapl_plot/rapl_plot.c), the power monitor of a      *)
(* node: it looks for the energy events of the processor, opens ten files, *)
(* writes their headers, and then measures, writes a row in every file and *)
(* flushes them until its time is up or stop_rapl_monitor.sh kills it.     *)
(*                                                                         *)
(* Time is counted in ticks, the microseconds of the code: Second of them  *)
(* make a second.  It passes in PAPI_start, usleep, PAPI_stop and the      *)
(* flushes; the counters are read at some moment inside PAPI_start and     *)
(* PAPI_stop.  What a file is to hold sits in a buffer until it is         *)
(* flushed, and only what is on disk outlives a kill.  An energy file and  *)
(* the power file of the same events have the same columns: they are       *)
(* written side by side.                                                   *)
(***************************************************************************)
EXTENDS Integers, FiniteSets, SequencesExt

CONSTANTS
  Components,   \* lists of components that PAPI may have
  Natives,      \* lists of events that the RAPL component may have
  MaxEvents,    \* MAX_EVENTS
  Interval,     \* INTERVAL_SECONDS
  MaxTime,      \* MAX_TIME_SECONDS, 0 when it is not given
  Second,       \* ticks of a second
  Overhead,     \* ticks that the offset adds to what it measures
  Span,         \* number of values of a useconds_t
  Delays,       \* ticks that PAPI_start, PAPI_stop or a flush may take
  MaxDelay,     \* the longest of them
  Overshoots,   \* ticks that usleep may sleep too long
  MaxOvershoot, \* the most of them
  Powers,       \* energy that an event may count per tick
  CounterSpan,  \* number of values of an energy counter of the processor
  MaxSamples    \* bound: samples of a behaviour

\* An event of the processor: what it measures, of which package, as an energy
\* (ENERGY), as a number of counts (ENERGY_CNT) or another quantity.
Meters == {"PACKAGE", "DRAM", "PP0", "PP1", "PSYS"}
Event  == [meter : Meters, package : Nat, unit : {"energy", "count", "info"}]

\* microseconds_interval
Period == Interval * Second

ASSUME RaplAssumption ==
  /\ Natives \subseteq Seq(Event)
  /\ MaxEvents \in Nat \ {0}
  /\ Interval \in Nat /\ MaxTime \in Nat /\ Second \in Nat \ {0} /\ Overhead \in Nat
  /\ Span \in Nat \ {0} /\ Period < Span
  /\ MaxDelay \in Nat /\ Delays \subseteq 0 .. MaxDelay
  /\ MaxOvershoot \in Nat /\ Overshoots \subseteq 0 .. MaxOvershoot
  /\ Powers \subseteq Nat
  /\ CounterSpan \in Nat \ {0} /\ MaxSamples \in Nat

\* The energies of a meter among the events of a processor, and their packages.
EnergiesOf(es, meter) ==
  {i \in DOMAIN es : es[i].meter = meter /\ es[i].unit = "energy"}
PackagesOf(es, meter) == {es[i].package : i \in EnergiesOf(es, meter)}

\* A meter has an energy for every package or for none, and the packages come in
\* order, from 0 on.
Regular(es) ==
  \A meter \in Meters :
    /\ PackagesOf(es, meter) \in {{}, PackagesOf(es, "PACKAGE")}
    /\ \A i, j \in EnergiesOf(es, meter) : i < j => es[i].package < es[j].package
    /\ \A p \in PackagesOf(es, meter) : 0 .. p \subseteq PackagesOf(es, meter)

\* So are those that PAPI makes for a processor.  The cores and the packages of a
\* processor with eleven packages, 22 events, do not fit in the arrays.
ASSUME ProcessorAssumption ==
  MaxEvents <= 22 /\ \A es \in Natives : Regular(es)

VARIABLES
  pc,        \* where the program is; "exited" or "killed" in the end
  status,    \* why it exited
  native,    \* events of the component
  code,      \* next event of the enumeration
  events,    \* events[0 .. num_events - 1]
  header,    \* columns of the files, per stream
  row,       \* cells of the row under way, per stream
  written,   \* lines that were written to every file
  flushed,   \* files flushed since
  disk,      \* lines on disk, per file
  tail,      \* what comes after them: nothing, or a part of a line
  now, start, before, after,   \* the clock, start_time, before_time, after_time
  times,     \* history: the column TIME(s)
  counting,  \* history: when PAPI_start read the counters
  measured,  \* history: time between the readings of PAPI_start and PAPI_stop
  values,    \* what PAPI_stop returns
  used,      \* history: the energy that was used between the readings
  pkg, pp0   \* energy_pkg0, energy_pkg1 and energy_pp0_pkg0, energy_pp0_pkg1

found  == <<native, code, events>>
files  == <<header, row, written, flushed, disk, tail>>
clock  == <<now, start, before, after, counting, measured>>
energy == <<values, used, pkg, pp0>>
vars   == <<pc, status, found, files, clock, energy, times>>

-----------------------------------------------------------------------------
(***************************************************************************)
(* Events, files and columns.                                              *)
(***************************************************************************)
\* Fault: "ENERGY_CNT" is taken for an energy too.
IsEnergyOrCount(e) == e.unit \in {"energy", "count"}

\* "ENERGY" and not "ENERGY_CNT"
IsEnergy(e) == e.unit \in {"energy", "count"} /\ e.unit # "count"

\* A pair of an energy and a power file.  In each half the order of opening,
\* writing and flushing is this one.
Streams == <<"PACKAGE", "DRAM", "PP0", "PP1", "UNCORE">>
NumFiles == 2 * Len(Streams)

\* The ladder of DRAM_, PP0_, PP1_ and PACKAGE_ finds a file for an event.
HasFile(e) == e.meter \in {"DRAM", "PP0", "PP1", "PACKAGE"}

\* The first event without a file, where the ladder ends the program, or 0.
NoFileAt(es) ==
  LET HasNoFile(e) == ~HasFile(e) IN SelectInSeq(es, HasNoFile)

\* The name of an event has PACKAGE0 or PACKAGE1 in it.  The names of packages
\* from 10 on begin with that of package 1.
Mentions(e, p) == e.package = p \/ (p = 1 /\ e.package \in 10 .. 19)

Column(meter, p) == [meter |-> meter, package |-> p]

\* The k-th number of a finite set, and the numbers of a set in order.
Nth(S, k) == CHOOSE i \in S : Cardinality({j \in S : j <= i}) = k

InOrder(S) == [k \in 1 .. Cardinality(S) |-> Nth(S, k)]

\* Places of the events that a turn of a loop over them writes to a stream.
OfStream(es, s) == {i \in DOMAIN es : es[i].meter = s}

\* Columns that the events es add to the file of a stream.
EventColumns(es, s) ==
  LET mine == InOrder(OfStream(es, s))
  IN  [k \in DOMAIN mine |-> Column(s, es[mine[k]].package)]

\* A package adds an uncore column for itself, whether or not it has PP0.
Numbered(es) ==
  {i \in OfStream(es, "PACKAGE") : Mentions(es[i], 0) \/ Mentions(es[i], 1)}

UncoreColumns(es) ==
  LET mine == InOrder(Numbered(es))
  IN  [k \in DOMAIN mine |->
         Column("UNCORE", IF Mentions(es[mine[k]], 0) THEN 0 ELSE 1)]

Header(es) ==
  [k \in {Streams[n] : n \in DOMAIN Streams} |->
     IF k = "UNCORE" THEN UncoreColumns(es) ELSE EventColumns(es, k)]

\* Fault: any package is taken for package p.
SourceOfAny(meter, p) ==
  LET IsSource(e) == e.meter = meter
  IN  SelectLastInSeq(events, IsSource)

\* The last event of a meter that mentions package p, or none.
Source(meter, p) ==
  LET IsSource(e) == e.meter = meter /\ Mentions(e, p)
  IN  SelectLastInSeq(events, IsSource)

\* What the variables of a package remember after a row: the last one keeps its
\* value when there is no event for it.
Remember(memory, meter) ==
  [p \in 0 .. 1 |-> IF Source(meter, p) = 0 THEN memory[p]
                    ELSE values[Source(meter, p)]]

Cell(column, value) == [column |-> column, value |-> value]

\* Cells of the events of a stream.
EventCells(s) ==
  LET mine == InOrder(OfStream(events, s))
  IN  [k \in DOMAIN mine |->
         Cell(Column(s, events[mine[k]].package), values[mine[k]])]

\* A package without a reading of PP0 has no cell.
HasUncore(p, cores) == cores[p] # 0

\* Cells of the uncore stream, from what is remembered.
UncoreCells(packages, cores) ==
  LET CellOf(p) == IF HasUncore(p, cores)
                   THEN <<Cell(Column("UNCORE", p), packages[p] - cores[p])>>
                   ELSE <<>>
  IN  CellOf(0) \o CellOf(1)

-----------------------------------------------------------------------------
(***************************************************************************)
(* Start.                                                                  *)
(***************************************************************************)
Ended == pc \in {"exited", "killed"}

NoColumns == Header(<<>>)

Init ==
  /\ pc = "arguments" /\ status = "none"
  /\ native \in Natives /\ code = 1 /\ events = <<>>
  /\ header = NoColumns /\ row = NoColumns
  /\ written = 0 /\ flushed = 0
  /\ disk = [f \in 1 .. NumFiles |-> 0] /\ tail = "whole"
  /\ now = 0 /\ start = 0 /\ before = 0 /\ after = 0
  /\ counting = 0 /\ measured = 0
  /\ times = <<>> /\ values = <<>> /\ used = <<>>
  /\ pkg = [p \in 0 .. 1 |-> 0] /\ pp0 = [p \in 0 .. 1 |-> 0]

\* exit() writes what the buffers hold: the lines, and the one that was begun.
Exit(why, end) ==
  /\ pc' = "exited" /\ status' = why
  /\ disk' = [f \in 1 .. NumFiles |-> written] /\ tail' = end

\* A call to a library or to the system fails, and the program exits.
Fail(why) ==
  /\ Exit(why, "whole")
  /\ UNCHANGED <<found, header, row, written, flushed, clock, energy, times>>

Goto(place) == pc' = place /\ UNCHANGED status

\* The usage message: RAPL_SECONDS_INTERVAL is not quoted, and may be empty.
ReadArguments ==
  /\ pc = "arguments"
  /\ \/ Goto("library") /\ UNCHANGED <<found, files, clock, energy, times>>
     \/ Fail("usage")

InitLibrary ==
  /\ pc = "library"
  /\ \/ Goto("component") /\ UNCHANGED <<found, files, clock, energy, times>>
     \/ Fail("library")

\* The first component that is RAPL's or cannot be read ends the search.
FirstMatch(components) ==
  LET Matches(c) == c # "other"
      cid == SelectInSeq(components, Matches)
  IN  IF cid = 0 THEN "missing" ELSE components[cid]

FindComponent ==
  /\ pc = "component"
  /\ \E components \in Components :
       IF FirstMatch(components) = "rapl"
       THEN Goto("events") /\ UNCHANGED <<found, files, clock, energy, times>>
       ELSE Fail("component")

\* Fault: one more event is let in.
FullAfter(es) == Len(es) > MaxEvents

\* num_events == MAX_EVENTS
Full(es) == Len(es) = MaxEvents

\* One turn of the enumeration: the name and the information of an event.
FindEvent ==
  /\ pc = "events" /\ code <= Len(native)
  /\ \/ /\ code' = code + 1
        /\ events' = IF IsEnergy(native[code]) THEN Append(events, native[code])
                     ELSE events
        /\ IF Full(events') THEN Exit("full", "whole")
           ELSE Goto("events") /\ UNCHANGED <<disk, tail>>
        /\ UNCHANGED <<native, header, row, written, flushed, clock, energy, times>>
     \/ Fail("event")

\* The enumeration is over, and the events make a set.
AddEvents ==
  /\ pc = "events" /\ code > Len(native)
  /\ IF events = <<>> THEN Fail("empty")
     ELSE \/ Goto("open") /\ UNCHANGED <<found, files, clock, energy, times>>
          \/ Fail("set")

\* All the files are opened before any is looked at.
OpenFiles ==
  /\ pc = "open"
  /\ \/ Goto("header") /\ UNCHANGED <<found, files, clock, energy, times>>
     \/ Fail("file")

\* Fault: the headers skip an event that no file is for.
Unchecked == 0

\* The event that ends the headers, or 0.
HeaderStop == NoFileAt(events)

\* An event that no file is for ends the program, in the middle of the headers.
WriteHeader ==
  /\ pc = "header"
  /\ IF HeaderStop = 0
     THEN /\ header' = Header(events)
          /\ written' = 1 /\ flushed' = 0
          /\ Goto("flush") /\ UNCHANGED <<disk, tail>>
     ELSE /\ header' = Header(SubSeq(events, 1, HeaderStop - 1))
          /\ Exit("unexpected", "cut") /\ UNCHANGED <<written, flushed>>
  /\ UNCHANGED <<found, row, clock, energy, times>>

\* Fault: the file of the uncore power is not flushed.
FlushAllButLast(f) == IF f = NumFiles THEN disk[f] ELSE written

\* Lines of a file on disk after its fflush.
LinesAfterFlush(f) == written

\* fflush of the next file, after the headers or after a row.  Nothing reads the
\* clock before the loop: the time that flushing the headers takes is left out.
Flush ==
  /\ pc = "flush" /\ flushed < NumFiles
  /\ flushed' = flushed + 1
  /\ disk' = [disk EXCEPT ![flushed'] = LinesAfterFlush(flushed')]
  /\ IF written = 1 THEN now' = now ELSE \E d \in Delays : now' = now + d
  /\ UNCHANGED <<pc, status, found, header, row, written, tail, start, before,
                 after, counting, measured, energy, times>>

-----------------------------------------------------------------------------
(***************************************************************************)
(* The measuring loop.                                                     *)
(***************************************************************************)
BeginLoop ==
  /\ pc = "flush" /\ flushed = NumFiles /\ written = 1
  /\ start' = now /\ after' = now
  /\ pkg' = [p \in 0 .. 1 |-> 0] /\ pp0' = [p \in 0 .. 1 |-> 0]
  /\ Goto("loop")
  /\ UNCHANGED <<found, files, now, before, counting, measured, values, used, times>>

\* Fault: the elapsed time is taken from the sample before.
LastTime(asked) == after

\* before_time, when PAPI_start is asked at a time.
BeforeTime(asked) == asked

\* PAPI_start, which reads the counters before it returns.
StartCounting ==
  /\ pc = "loop" /\ Len(times) < MaxSamples
  /\ \/ /\ \E d \in Delays : now' = now + d
        /\ before' = BeforeTime(now)
        /\ counting' \in now .. now'
        /\ Goto("sleep")
        /\ UNCHANGED <<found, files, start, after, measured, energy, times>>
     \/ Fail("start")

\* Fault: the time that the rows took is left out.
FixedSleep == (Period - Overhead) % Span

\* Fault: the difference is taken the wrong way round.
WrongWayRound == (now - after + Overhead - Period) % Span

\* What usleep is called with: the difference of two long longs, as a useconds_t.
SleepTime == (Period - (now - after + Overhead)) % Span

\* Fault: the counters are read with a sign.
SignedCount(amount) ==
  LET bits == amount % CounterSpan
  IN  IF 2 * bits >= CounterSpan THEN bits - CounterSpan ELSE bits

\* The energy counters are read as numbers of a fixed width.
Counted(amount) == amount % CounterSpan

\* Fault: the counters are read for the first time after the sleep.
CoveredAwake(read, woke, stopped) == stopped - woke

\* Time that the counters cover, read in PAPI_start and in PAPI_stop, when usleep
\* returns in between.
Covered(read, woke, stopped) == stopped - read

\* usleep and PAPI_stop, which reads the counters before it returns.
Sample ==
  /\ pc = "sleep"
  /\ \/ /\ \E o \in Overshoots, d \in Delays :
             after' = now + SleepTime + o /\ now' = after' + d
        /\ \E stopped \in after' .. now' :
             LET ticks == Covered(counting, after', stopped)
             IN  /\ measured' = measured + ticks
                 /\ \E power \in [DOMAIN events -> Powers] :
                      used' = [i \in DOMAIN events |-> power[i] * ticks]
        /\ values' = [i \in DOMAIN events |-> Counted(used'[i])]
        /\ Goto("row")
        /\ UNCHANGED <<found, files, start, before, counting, pkg, pp0, times>>
     \/ Fail("stop")

\* The time, the cells and the end of a row, in the buffers of all the files.
WholeRow ==
  /\ times' = Append(times, after - start)
  /\ pkg' = Remember(pkg, "PACKAGE")
  /\ pp0' = Remember(pp0, "PP0")
  /\ row' = [s \in DOMAIN header |->
               IF s = "UNCORE" THEN UncoreCells(pkg', pp0') ELSE EventCells(s)]
  /\ written' = written + 1 /\ flushed' = 0
  /\ Goto("flush")
  /\ UNCHANGED <<found, header, disk, tail, clock, values, used>>

\* An event that no file is for would end the program in the middle of a row.
CutRow ==
  /\ Exit("unexpected", "cut")
  /\ UNCHANGED <<found, header, row, written, flushed, clock, energy, times>>

WriteRow == pc = "row" /\ IF NoFileAt(events) = 0 THEN WholeRow ELSE CutRow

\* Fault: the loop goes on whatever the time.
Endless == FALSE

\* Fault: the time at which the sample began is compared.
TimeWasUp == MaxTime > 0 /\ before - start >= MaxTime * Second

\* total_time has reached the maximum
TimeIsUp == MaxTime > 0 /\ after - start >= MaxTime * Second

NextTurn ==
  /\ pc = "flush" /\ flushed = NumFiles /\ written > 1
  /\ ~TimeIsUp
  /\ Goto("loop")
  /\ UNCHANGED <<found, files, clock, energy, times>>

Finish ==
  /\ pc = "flush" /\ flushed = NumFiles /\ written > 1
  /\ TimeIsUp
  /\ Fail("done")

\* killall -9, by stop_rapl_monitor.sh or by the process cleanup.
Kill ==
  /\ ~Ended
  /\ pc' = "killed"
  /\ UNCHANGED <<status, found, files, clock, energy, times>>

Terminated == Ended /\ UNCHANGED vars

StartUp ==
  \/ ReadArguments \/ InitLibrary \/ FindComponent \/ FindEvent \/ AddEvents
  \/ OpenFiles \/ WriteHeader \/ BeginLoop

Loop == StartCounting \/ Sample \/ WriteRow \/ NextTurn \/ Finish

Program == StartUp \/ Flush \/ Loop

Next == Program \/ Kill \/ Terminated

Spec == Init /\ [][Next]_vars

\* The program goes on by itself.
FairSpec == Spec /\ WF_vars(Program)

-----------------------------------------------------------------------------
(***************************************************************************)
(* Properties.                                                             *)
(***************************************************************************)
StreamSet == {Streams[n] : n \in DOMAIN Streams}
Columns == [meter : Meters \union {"UNCORE"}, package : Nat]
Cells == [column : Columns, value : Int]
Places == {"arguments", "library", "component", "events", "open", "header",
           "flush", "loop", "sleep", "row", "exited", "killed"}
Reasons == {"none", "usage", "library", "component", "event", "full",
            "empty", "set", "file", "unexpected", "start", "stop",
            "done"}

\* Every variable keeps its type.
TypeOK ==
  /\ pc \in Places /\ status \in Reasons
  /\ native \in Seq(Event) /\ code \in Nat \ {0} /\ events \in Seq(Event)
  /\ header \in [StreamSet -> Seq(Columns)] /\ row \in [StreamSet -> Seq(Cells)]
  /\ written \in Nat /\ flushed \in 0 .. NumFiles
  /\ disk \in [1 .. NumFiles -> Nat] /\ tail \in {"whole", "cut"}
  /\ now \in Nat /\ start \in Nat /\ before \in Nat /\ after \in Nat
  /\ times \in Seq(Nat) /\ counting \in Nat /\ measured \in Nat
  /\ values \in Seq(Nat) /\ used \in Seq(Nat)
  /\ pkg \in [0 .. 1 -> Nat] /\ pp0 \in [0 .. 1 -> Nat]

Samples == Len(times)
InLoop == pc \in {"loop", "sleep", "row"} \/ (pc = "flush" /\ written > 1)
RowWritten == written > 1 /\ pc \in {"flush", "loop"}
Starting == {"arguments", "library", "component", "events", "open", "header"}

\* What a turn of the loop takes at most besides the sleep: PAPI_stop, the flushes
\* and PAPI_start.
Work == (NumFiles + 2) * MaxDelay

\* The work of a turn and the overhead leave something of the interval to sleep, or
\* nothing: nothing wraps.
Prompt == Work + Overhead <= Period

\* What an event counts in the longest sample fits in a counter.
Capacity == \A p \in Powers : p * (Period + MaxOvershoot + MaxDelay) < CounterSpan

\* The energy events among the first n of the processor, in order.
EnergiesUpTo(n) ==
  LET wanted == InOrder({i \in 1 .. n : native[i].unit = "energy"})
  IN  [k \in DOMAIN wanted |-> native[wanted[k]]]

\* All the energy events of the processor are measured, in order and no others,
\* and none of them is stored past the end of the arrays.
EventsComplete ==
  /\ Len(events) <= MaxEvents
  /\ pc \notin {"arguments", "library", "component", "events"} \union
               {"exited", "killed"} =>
       /\ events = EnergiesUpTo(Len(native))
       /\ Len(events) \in 1 .. MaxEvents - 1

\* Whenever the program is killed, and when it exits, the files differ by the last
\* line at most, the first ones having it, and a program that exits leaves no line
\* behind.  The lines are whole: a part of a line comes after them only where an
\* event that no file is for has ended the program, and then it is a part of the
\* header, before any row.
WholeRows ==
  /\ \A f \in 1 .. NumFiles : \A g \in 1 .. f : disk[g] >= disk[f]
  /\ \A f \in 1 .. NumFiles : disk[f] \in {written, written - 1}
  /\ pc \in {"loop", "sleep", "row", "exited"} =>
       \A f \in 1 .. NumFiles : disk[f] = written
  /\ pc = "exited" /\ status = "done" => written = Samples + 1
  /\ (tail = "cut") <=> (status = "unexpected")
  /\ tail = "cut" => \A f \in 1 .. NumFiles : disk[f] = 0

\* The time that the rows take does not add up: sample k comes k periods after
\* the start, less the overhead, and later only by what usleep oversleeps.
NoDrift ==
  Prompt /\ InLoop /\ pc # "row" =>
    /\ Samples * (Period - Overhead) <= after - start
    /\ after - start <= Samples * (Period - Overhead + MaxOvershoot)

\* Time that n samples may leave out: that of the first PAPI_start, and that of the
\* work between two samples.
LeftOut(n) == IF n = 0 THEN 0 ELSE MaxDelay + (n - 1) * Work

\* The counters do not cover a time twice, and what the energies of the samples
\* leave out of the time in the last row is at most what PAPI_start, PAPI_stop and
\* the flushes have taken: never a part of a sleep.
LittleUnmeasured ==
  InLoop =>
    /\ measured <= now - start
    /\ pc # "row" => after - start - measured <= LeftOut(Samples)

\* The energies of a sample are those that were used between the readings of the
\* counters, since none goes round in an interval.
EnergyExact == Prompt /\ Capacity => values = used

\* By the elapsed time, which the flushes are not a part of, the energy of every
\* event comes from a power it had, but for what it used during one delay: PAPI_start
\* reads the counters after before_time, and PAPI_stop after after_time.
PowerRight ==
  Prompt /\ Capacity /\ (pc = "row" \/ RowWritten) =>
    \A i \in DOMAIN values : \E p \in Powers :
      /\ p * (after - before) <= values[i] + p * MaxDelay
      /\ values[i] <= p * (after - before) + p * MaxDelay

\* With a maximum time the program stops at the first sample that reaches it.
MaxTimeKept ==
  Prompt /\ pc = "exited" /\ status = "done" =>
    /\ MaxTime > 0
    /\ after - start >= MaxTime * Second
    /\ after - start < MaxTime * Second + Period + MaxOvershoot

\* Packages that have no reading of PP0 in this sample.
NoReading ==
  {p \in 0 .. 1 : \/ Source("PP0", p) = 0
                  \/ values[Source("PP0", p)] = 0}

\* Columns of the uncore whose package has a reading.
WithReading ==
  {c \in DOMAIN header["UNCORE"] : header["UNCORE"][c].package \notin NoReading}

\* The cells of an event are under its column, and are readings of this sample.  The
\* cells of the uncore are those of the announced packages that have a reading, in
\* the order of the columns, and what such a package has used in this sample besides
\* its cores; they are under their own columns exactly when package 0 has a reading.
RowsReadable ==
  RowWritten =>
    /\ \A s \in StreamSet \ {"UNCORE"} :
         /\ [k \in DOMAIN row[s] |-> row[s][k].column] = header[s]
         /\ \A k \in DOMAIN row[s] : \E i \in DOMAIN events :
              /\ Column(events[i].meter, events[i].package) = header[s][k]
              /\ row[s][k].value = values[i]
    /\ LET places == InOrder(WithReading)
       IN  [k \in DOMAIN row["UNCORE"] |-> row["UNCORE"][k].column] =
             [k \in DOMAIN places |-> header["UNCORE"][places[k]]]
    /\ \A k \in DOMAIN row["UNCORE"] : \E i, j \in DOMAIN events :
         /\ events[i].meter = "PACKAGE" /\ events[j].meter = "PP0"
         /\ events[i].package = events[j].package
         /\ row["UNCORE"][k].column.package = events[i].package
         /\ row["UNCORE"][k].value = values[i] - values[j]
    /\ \A k \in DOMAIN row["UNCORE"] :
         (row["UNCORE"][k].column = header["UNCORE"][k]) <=> (0 \notin NoReading)

\* Steps that the program has left at most: those before its first row, and the
\* NumFiles + 4 of every turn of the loop, which takes a tick or more.
Turns(ticks) == ticks * (NumFiles + 4)
TicksLeft ==
  LET ticks == MaxTime * Second - (after - start) IN IF ticks < 0 THEN 0 ELSE ticks

StepsToFlush ==
  CASE pc = "arguments" -> 6 + Len(native) [] pc = "library" -> 5 + Len(native)
    [] pc = "component" -> 4 + Len(native)
    [] pc = "events"    -> 3 + Len(native) + 1 - code
    [] pc = "open"      -> 2
    [] OTHER            -> 1

StepsLeft ==
  CASE Ended          -> 0
    [] pc \in Starting -> StepsToFlush + NumFiles + 1 + Turns(MaxTime * Second)
    [] pc = "flush" /\ written = 1 ->
         NumFiles - flushed + 1 + Turns(MaxTime * Second)
    [] pc = "flush" /\ written # 1 -> NumFiles - flushed + 1 + Turns(TicksLeft)
    [] pc = "loop"    -> Turns(TicksLeft)
    [] pc = "sleep"   -> Turns(TicksLeft) - 1
    [] pc = "row"     -> NumFiles + 2 + Turns(TicksLeft)

\* With a maximum time the program does not go round without end, slow as the
\* files and inexact as usleep may be: every step leaves fewer steps than before.
StepsBounded ==
  [][MaxTime > 0 /\ Overhead < Period => StepsLeft' \in 0 .. StepsLeft - 1]_vars

\* With a maximum time, and if it is not killed, the program ends by itself.
RaplEnds == MaxTime > 0 => <>Ended

\* etc/bdev-conf.sh: RAPL_SECONDS_INTERVAL is the interval of the samples, so
\* that two of them are not much further apart, slow as the files may be.
IntervalKept ==
  pc = "row" =>
    LET last == IF times = <<>> THEN 0 ELSE times[Samples]
    IN  after - start - last <=
          Period + Work + Overhead + MaxOvershoot

\* rapl_plot/README: the tool works on Intel processors from Sandy Bridge on, so
\* that none of their events ends it.
ProcessorSupported == status # "unexpected"

-----------------------------------------------------------------------------
(***************************************************************************)
(* The inductive invariant behind the properties.                          *)
(***************************************************************************)
Measuring == {"loop", "sleep", "row"}

\* The types the other parts rest on.
ControlOK ==
  /\ pc \in Places /\ status \in Reasons
  /\ native \in Seq(Event) /\ code \in Nat \ {0} /\ events \in Seq(Event)
  /\ written \in Nat /\ flushed \in 0 .. NumFiles
  /\ disk \in [1 .. NumFiles -> Nat]
  /\ now \in Nat /\ start \in Nat /\ before \in Nat /\ after \in Nat
  /\ times \in Seq(Nat) /\ counting \in Nat /\ measured \in Nat
  /\ values \in Seq(Nat) /\ used \in Seq(Nat)

\* num_events stays below MAX_EVENTS in a program that goes on.
EventsInv == Len(events) <= MaxEvents /\ (~Ended => Len(events) < MaxEvents)

\* How many lines were written, and which of them are on disk.
FilesInv ==
  /\ status = "none" \/ pc = "exited"
  /\ written = 0 => Samples = 0
  /\ written > 0 => written = Samples + 1
  /\ pc \in Starting => written = 0
  /\ pc = "flush" \/ pc \in Measuring \/ status = "done" => written > 0
  /\ pc \in Starting \union Measuring \union {"exited"} =>
       \A f \in 1 .. NumFiles : disk[f] = written
  /\ pc = "flush" =>
       \A f \in 1 .. NumFiles :
         disk[f] = IF f <= flushed THEN written ELSE written - 1
  /\ \A f \in 1 .. NumFiles :
       /\ disk[f] \in {written, written - 1}
       /\ \A g \in 1 .. f : disk[g] >= disk[f]

\* Only a program that has ended in its headers leaves a part of a line, and the
\* ladder finds a file for every event of a program that goes on.
TailInv ==
  /\ tail \in {"whole", "cut"}
  /\ (tail = "cut") <=> (status = "unexpected")
  /\ tail = "cut" => pc = "exited" /\ written = 0
  /\ pc = "flush" \/ pc \in Measuring => NoFileAt(events) = 0

\* Samples taken, the one under way included.
Taken == IF pc = "row" THEN Samples + 1 ELSE Samples

LatestTime == IF times = <<>> THEN 0 ELSE times[Samples]

\* Where the clocks are in the loop.
ClockInv ==
  /\ InLoop =>
       /\ start <= after /\ after <= now
       /\ pc # "row" => after - start = LatestTime
  /\ pc = "flush" /\ written > 1 => now - after <= (flushed + 1) * MaxDelay
  /\ pc = "loop" =>
       /\ now - after <= (NumFiles + 1) * MaxDelay
       /\ written = 1 => now = after
  /\ pc = "sleep" =>
       /\ after <= before /\ before <= counting /\ counting <= now
       /\ before - after <= (NumFiles + 1) * MaxDelay
       /\ written = 1 => before = after
       /\ now - before <= MaxDelay
  /\ pc = "row" => now - after <= MaxDelay
  /\ pc = "row" /\ Prompt =>
       /\ LatestTime + (Period - Overhead) <= after - start
       /\ after - start <= LatestTime + (Period - Overhead + MaxOvershoot)

\* What the samples amount to.
ScheduleInv ==
  /\ pc \in Starting \/ (pc = "flush" /\ written = 1) => measured = 0
  /\ pc = "sleep" => measured <= counting - start
  /\ InLoop =>
       /\ measured <= now - start
       /\ after - start - measured <= LeftOut(Taken)
       /\ Prompt =>
            /\ Taken * (Period - Overhead) <= after - start
            /\ after - start <= Taken * (Period - Overhead + MaxOvershoot)

\* The loop is only entered with time left.
TimeLeftInv ==
  /\ pc \in {"loop", "sleep"} => ~TimeIsUp
  /\ Prompt /\ MaxTime > 0 /\ (pc = "row" \/ (pc = "flush" /\ written > 1)) =>
       after - start < MaxTime * Second + Period + MaxOvershoot
  /\ status = "done" => pc = "exited" /\ TimeIsUp
  /\ Prompt /\ status = "done" =>
       after - start < MaxTime * Second + Period + MaxOvershoot

\* The events found so far, and all of them once the files are open.
FoundInv ==
  /\ native \in Natives
  /\ code \in 1 .. Len(native) + 1
  /\ events = EnergiesUpTo(code - 1)
  /\ pc \in {"open", "header", "flush"} \union Measuring =>
       code > Len(native) /\ events # <<>>

\* The header is that of the events, and a row is made of the last readings.
ReadingInv ==
  /\ pc = "flush" \/ pc \in Measuring => header = Header(events)
  /\ pc = "row" \/ RowWritten => DOMAIN values = DOMAIN events
  /\ InLoop => \A p \in 0 .. 1 : Source("PP0", p) = 0 => pp0[p] = 0
  /\ RowWritten =>
       /\ pkg = Remember(pkg, "PACKAGE") /\ pp0 = Remember(pp0, "PP0")
       /\ row = [s \in StreamSet |->
                   IF s = "UNCORE" THEN UncoreCells(pkg, pp0) ELSE EventCells(s)]

\* What the rows rest on, the types included.
RowsInv == TypeOK /\ FoundInv /\ ReadingInv

RaplInv ==
  /\ ControlOK /\ EventsInv /\ FilesInv /\ TailInv /\ ClockInv /\ ScheduleInv
  /\ TimeLeftInv /\ EnergyExact /\ PowerRight

-----------------------------------------------------------------------------
(***************************************************************************)
(* What is promised to a reader of the files.                              *)
(***************************************************************************)
RowsOn(f) == IF disk[f] = 0 THEN 0 ELSE disk[f] - 1

Reader == INSTANCE Sampler
  WITH NumFiles <- NumFiles,
       MinPeriod <- Period - Overhead,
       MaxPeriod <- Period - Overhead + MaxOvershoot,
       MaxSamples <- MaxSamples,
       times <- times,
       shown <- [f \in 1 .. NumFiles |-> RowsOn(f)],
       over <- IF Ended THEN "yes" ELSE "no"

\* The program is a sampler, for any reader of its files.
IsSampler == Reader!Spec
=============================================================================
