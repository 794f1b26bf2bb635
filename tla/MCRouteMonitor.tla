--------------------------- MODULE MCRouteMonitor ---------------------------
(***************************************************************************)
(* Small instances of RouteMonitor for TLC.                                *)
(***************************************************************************)
EXTENDS RouteMonitor

Slo(pct) == [parses |-> TRUE, pct |-> pct]

Plain(slo, skip, rhobs) ==
    [slo |-> slo, skip |-> skip, rhobs |-> rhobs, insecure |-> FALSE, named |-> TRUE,
     port |-> 0, suffix |-> ""]

\* A rule wanted, the same monitor with rules skipped.
MCRuleSpecs == {Plain(Slo(99500), FALSE, FALSE), Plain(Slo(99500), TRUE, FALSE)}

\* The same two, and monitors of both kinds without SLO.
MCSkipSpecs == MCRuleSpecs \cup {Plain(NoSlo, FALSE, FALSE), Plain(NoSlo, FALSE, TRUE)}

\* An SLO on the boundary; no SLO, another port and module.
MCSloSpecs == MCRuleSpecs \cup
    {Plain(Slo(90000), FALSE, FALSE),
     [Plain(NoSlo, FALSE, FALSE) EXCEPT !.port = 8443, !.insecure = TRUE]}

MCHost(h, tls) == [hosts |-> <<h>>, tls |-> tls]
MCOneRoute == {MCHost("a", FALSE)}
MCLiveRoutes == {NoObj, MCHost("a", FALSE)}
\* Not there, not admitted, admitted without and with TLS, a second ingress ignored.
MCRoutes == {NoObj, [hosts |-> <<>>, tls |-> FALSE], MCHost("", FALSE), MCHost("a", TRUE),
             [hosts |-> <<"a", "b">>, tls |-> FALSE]}

MCNoFinalizer   == {{}}
MCAnyFinalizer  == {{}, {PrevFinalizerKey}}
=============================================================================
