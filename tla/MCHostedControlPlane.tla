------------------------ MODULE MCHostedControlPlane ------------------------
(* HostedControlPlane with small sets of specs and configurations for TLC. *)
EXTENDS HostedControlPlane, TLC

CONSTANTS p1, p2, d1, d2

MCPublic     == [id |-> TRUE, host |-> TRUE, private |-> FALSE, region |-> "east"]
MCPrivate    == [MCPublic EXCEPT !.private = TRUE]
MCMoved      == [MCPublic EXCEPT !.region = "west"]
MCNoHost     == [MCPublic EXCEPT !.host = FALSE]
MCNoRegion   == [MCPublic EXCEPT !.region = NoRegion]
MCNoID       == [MCPublic EXCEPT !.id = FALSE]

MCOneSpec    == {MCPublic}
MCAccess     == {MCPublic, MCPrivate}
MCLocated    == {MCPublic, MCPrivate, MCMoved}
MCIncomplete == {MCPublic, MCPrivate, MCMoved, MCNoHost, MCNoRegion, MCNoID}

MCRegions    == [east |-> "virginia", west |-> "oregon"]

MCFlags      == [url |-> "none", onlyPublic |-> FALSE, skip |-> FALSE]
MCURLFlags   == [MCFlags EXCEPT !.url = "valid"]
MCConfig     == [url |-> "valid", onlyPublic |-> FALSE, skip |-> FALSE, dynatrace |-> FALSE]

MCPlain      == {MCConfig}
MCSwitched   == {NoObj, [MCConfig EXCEPT !.skip = TRUE, !.url = "malformed"],
                 [MCConfig EXCEPT !.onlyPublic = TRUE, !.dynatrace = TRUE]}
MCDynatrace  == {[MCConfig EXCEPT !.dynatrace = TRUE, !.url = "none"]}

MCSymmetry   == Permutations(ProbeIds)
=============================================================================
