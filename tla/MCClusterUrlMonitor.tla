------------------------ MODULE MCClusterUrlMonitor ------------------------
(* A small instance of ClusterUrlMonitor for TLC.                          *)
EXTENDS ClusterUrlMonitor

MCSpec  == [slo |-> [parses |-> TRUE, pct |-> 99500], skip |-> FALSE, hcp |-> FALSE, affix |-> "/a"]

\* A rule wanted and skipped, an SLO on the boundary, and a hosted cluster.
MCSpecs == {MCSpec, [MCSpec EXCEPT !.skip = TRUE],
            [MCSpec EXCEPT !.slo = [parses |-> TRUE, pct |-> 100000], !.affix = "/b"],
            [MCSpec EXCEPT !.hcp = TRUE]}

\* Everything there; the Infrastructure unreadable, the hosted cluster not
\* available and its base domain without the subdomain.
MCCluster  == [infra |-> <<"api", "x">>, version |-> TRUE, hcps |-> 1, annotated |-> TRUE,
               hosted |-> <<"rosa", "h">>, available |-> TRUE]
MCClusters == {MCCluster, [MCCluster EXCEPT !.infra = NoObj, !.hosted = <<"h", "y">>,
                                            !.available = FALSE]}

MCForeign == {{}, {ForeignFinalizer}}
=============================================================================
