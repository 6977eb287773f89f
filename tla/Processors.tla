------------------------------ MODULE Processors ------------------------------
(***************************************************************************)
(* The events that the RAPL component of the PAPI library has for a        *)
(* processor (third-party/papi-7.2.0/src/components/rapl/linux-rapl.c):    *)
(* first all those that are counts, then as many that have a unit.         *)
(***************************************************************************)
EXTENDS Naturals, Sequences, SequencesExt

\* Quantities of a package that Intel processors have and that are no energies.
PowerInfo == <<"THERMAL_SPEC", "MINIMUM_POWER", "MAXIMUM_POWER",
               "MAXIMUM_TIME_WINDOW">>

\* Meters in the order in which their events are made.
EnergyMeters == <<"PACKAGE", "PP1", "DRAM", "PSYS", "PP0">>

\* One half of the events: each quantity for every package.  A power quantity
\* is of no meter; it is put under its package.
HalfOfEvents(intel, meters, packages, unit) ==
  LET HasMeter(m) == m \in meters
      info == IF intel THEN FlattenSeq([q \in DOMAIN PowerInfo |->
                [j \in 1 .. packages |->
                   [meter |-> "PACKAGE", package |-> j - 1, unit |-> "info"]]])
              ELSE <<>>
      mine == SelectSeq(EnergyMeters, HasMeter)
  IN  info \o FlattenSeq([m \in DOMAIN mine |->
                [j \in 1 .. packages |->
                   [meter |-> mine[m], package |-> j - 1, unit |-> unit]]])

\* rapl_native_events
NativeEvents(intel, meters, packages) ==
  HalfOfEvents(intel, meters, packages, "count")
    \o HalfOfEvents(intel, meters, packages, "energy")

\* Processors, by the meters that the library gives them.
SandyBridge(n)    == NativeEvents(TRUE, {"PACKAGE", "PP0", "PP1"}, n)
SandyBridgeEP(n)  == NativeEvents(TRUE, {"PACKAGE", "PP0", "DRAM"}, n)
SkylakeDesktop(n) == NativeEvents(TRUE, {"PACKAGE", "PP0", "DRAM", "PSYS"}, n)
SapphireRapids(n) == NativeEvents(TRUE, {"PACKAGE", "DRAM"}, n)
Zen(n)            == NativeEvents(FALSE, {"PACKAGE", "PP0"}, n)
Haswell(n)        == NativeEvents(TRUE, {"PACKAGE", "PP0", "PP1", "DRAM"}, n)

=============================================================================
