-------------------------------- MODULE MCRapl --------------------------------
(***************************************************************************)
(* Instances of Rapl for TLC.                                              *)
(***************************************************************************)
EXTENDS Rapl, Processors

\* Lists of components with RAPL's first, last, disabled, unreadable or missing.
SomeComponents ==
  {<<"rapl">>, <<"other", "rapl">>, <<"other", "disabled">>,
   <<"unreadable", "rapl">>, <<"other">>, <<>>}
OnlyRapl == {<<"rapl">>}

\* Processors whose events all have a file, one with too many packages for the
\* arrays, one with PSYS, and a component without events.
ManyProcessors ==
  {SandyBridge(1), SandyBridgeEP(2), SapphireRapids(2), Zen(1), Zen(2),
   Haswell(4), SkylakeDesktop(1), <<>>}
IntelProcessors == {SandyBridge(1), SandyBridgeEP(2), SkylakeDesktop(1), Haswell(1)}

\* A package whose events are few.
OneZen == {Zen(1)}

=============================================================================
