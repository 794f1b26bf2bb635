------------------------- MODULE MCBlackBoxExporter -------------------------
(***************************************************************************)
(* Small instances of BlackBoxExporter: monitors of both kinds, one of     *)
(* each or two RouteMonitors and a ClusterUrlMonitor.                      *)
(***************************************************************************)
EXTENDS BlackBoxExporter

CONSTANTS m1, m2, m3

MCBothKinds == [m \in {m1, m2} |-> IF m = m1 THEN "RouteMonitor" ELSE "ClusterUrlMonitor"]
MCThree == [m \in {m1, m2, m3} |-> IF m = m3 THEN "ClusterUrlMonitor" ELSE "RouteMonitor"]
=============================================================================
