------------------------- MODULE HostedControlPlane -------------------------
(***************************************************************************)
(* The HostedControlPlane controller (controllers/hostedcontrolplane)      *)
(* working on one HostedControlPlane, from its creation to its removal,    *)
(* with the RHOBS synthetics API it keeps a probe in (pkg/rhobs), the      *)
(* Route and RouteMonitor it puts up inside the cluster, the ConfigMap     *)
(* that counts health checks, and the Dynatrace monitor it may keep.       *)
(*                                                                         *)
(* As in RouteMonitor, reads come from informer caches and a reconcile is  *)
(* a sequence of steps with one external call each.  Every result but Stop *)
(* comes back to the queue, at once after an error and after a timer       *)
(* otherwise; the timers are not told apart.                               *)
(***************************************************************************)
EXTENDS Naturals, FiniteSets

CONSTANTS
    HCPSpecs,          \* the specs a HostedControlPlane may have
    Flags,             \* the operator's command line
    ConfigMaps,        \* the contents the operator's ConfigMap may have
    NoObj,             \* "not found"
    ProbeIds,          \* the identities the API gives probes
    DynatraceIds,      \* and Dynatrace its monitors
    LeftOver,          \* the monitors that may exist before the operator starts
    DynatraceRegions,  \* the regions Dynatrace serves, with the location that serves each
    Unreliable,        \* the services that may stop answering
    Conflicting,       \* the states of a probe in which the API refuses another for its URL
    consecutiveSuccessfulHealthchecks,
    HealthInformerLags,  \* whether the cache of the health check ConfigMap may be behind
    MaxEdits,          \* bound on what users, HyperShift and the probe agents do
    MaxFaults          \* bound on failed calls to the cluster and on restarts

NoRegion == "none"
HCPSpec  == [id : BOOLEAN, host : BOOLEAN, private : BOOLEAN, region : STRING]
URLs     == {"none", "valid", "malformed"}
RHOBSConfig == [url : URLs, onlyPublic : BOOLEAN, skip : BOOLEAN]
Config      == [url : URLs, onlyPublic : BOOLEAN, skip : BOOLEAN, dynatrace : BOOLEAN]
Services    == {"rhobs", "dynatrace"}
Backplane   == "backplane"
Locations   == {DynatraceRegions[r] : r \in DOMAIN DynatraceRegions} \cup {Backplane}
Statuses == {"active", "failed", "terminating"}
Probe    == [status : Statuses, private : BOOLEAN, region : STRING]
HCP == [rv : Nat, deleting : BOOLEAN, fin : BOOLEAN, available : BOOLEAN, limited : BOOLEAN,
        spec : HCPSpecs]

ASSUME HCPAssumption ==
    /\ HCPSpecs \subseteq HCPSpec
    /\ Flags \in RHOBSConfig
    /\ ConfigMaps \subseteq Config \cup {NoObj}
    /\ NoObj \notin HCP
    /\ IsFiniteSet(ProbeIds) /\ NoObj \notin ProbeIds
    /\ IsFiniteSet(DynatraceIds) /\ NoObj \notin DynatraceIds
    /\ LeftOver \subseteq DynatraceIds
    /\ NoRegion \notin Locations \cup DOMAIN DynatraceRegions
    /\ Unreliable \subseteq Services
    /\ Conflicting \subseteq Statuses
    /\ consecutiveSuccessfulHealthchecks \in Nat \ {0}
    /\ HealthInformerLags \in BOOLEAN
    /\ MaxEdits \in Nat /\ MaxFaults \in Nat

VARIABLES
    hcp,         \* the HostedControlPlane on the API server
    hcpCache,    \* and in the informer cache
    hcLimited,   \* the limited-support label of its HostedCluster
    configMap,   \* the operator's ConfigMap
    started,     \* the RHOBSConfig the operator computed when it started
    enabled,     \* it then found the HostedControlPlane resource, and runs this controller
    queued, pc,
    work,        \* what the reconcile has read: the HostedControlPlane, the
                 \* configuration, the health counter, the probe it found, and
                 \* the Dynatrace monitors to keep and to remove
    health,      \* the count in the health check ConfigMap
    healthCache, \* the cached count, and whether its revision is the current one
    route,       \* the internal Route exists
    monitor,     \* the internal RouteMonitor
    dynatrace,   \* the locations of the Dynatrace monitors tagged with the cluster
    probes,      \* the probes of this cluster that the synthetics API lists
    up,          \* the services that answer
    late,        \* 15 minutes have passed since deletion was requested
    old,         \* the HostedControlPlane is more than 3 hours old
    streak,      \* history: health checks passed since the last that failed,
    passed,      \* and since the last whose failure was recorded
    released,    \* history: how the finalizer was removed
    overlooked,  \* history: the live probes listed next to the one that was last deleted
    edits, faults

vars == <<hcp, hcpCache, hcLimited, configMap, started, enabled, queued, pc, work, health, healthCache, route,
          monitor, dynatrace, probes, up, late, old, streak, passed, released, overlooked, edits, faults>>
budget  == <<edits, faults>>
worker  == <<queued, pc, work>>
objects == <<hcp, hcpCache, released, overlooked>>
checks  == <<health, healthCache, streak, passed>>
inside  == <<route, monitor>>
operator == <<started, enabled>>
world   == <<hcLimited, configMap, operator, up, late, old>>

Deploying == {"vpcEndpoint", "tls", "tlsDeleteRoute", "tlsDeleteMonitor", "route", "monitor",
              "dynatrace", "dynatraceExcess", "dynatraceMove", "dynatraceCreate",
              "getProbe", "terminate", "recreate", "create", "patchRegion"}
Removing  == {"deleteDynatrace", "deleteProbe", "deleteRoute", "deleteMonitor", "removeFinalizer"}

Work == [hcp : HCP, cfg : Config, client : BOOLEAN, found : ProbeIds \cup {NoObj},
         count : Nat, fresh : BOOLEAN, keep : DynatraceIds \cup {NoObj},
         excess : SUBSET DynatraceIds]

TypeOK ==
    /\ hcp \in HCP \cup {NoObj} /\ hcpCache \in HCP \cup {NoObj}
    /\ hcLimited \in BOOLEAN
    /\ configMap \in Config \cup {NoObj}
    /\ started \in [url : {"none", "valid"}, onlyPublic : BOOLEAN, skip : BOOLEAN]
    /\ enabled \in BOOLEAN
    /\ queued \in BOOLEAN
    /\ pc \in {"idle", "finalizer", "readiness", "healthcheck"} \cup Deploying \cup Removing
    /\ work \in Work \cup {NoObj}
    /\ health \in Nat \cup {NoObj}
    /\ healthCache \in [count : Nat \cup {NoObj}, fresh : BOOLEAN]
    /\ route \in BOOLEAN
    /\ monitor \in {"absent", "present", "deleting"}
    /\ dynatrace \in [DynatraceIds -> Locations \cup {NoObj}]
    /\ probes \in [ProbeIds -> Probe \cup {NoObj}]
    /\ up \subseteq Services /\ late \in BOOLEAN /\ old \in BOOLEAN
    /\ streak \in Nat /\ passed \in Nat
    /\ released \in {"no", "in time", "late", "dynatrace", "unconfigured"}
    /\ overlooked \subseteq ProbeIds
    /\ edits \in 0..MaxEdits
    /\ faults \in 0..MaxFaults

----------------------------------------------------------------------------
(* How a reconcile ends and goes on.                                       *)

Stop    == pc' = "idle" /\ work' = NoObj /\ UNCHANGED queued
Requeue == pc' = "idle" /\ work' = NoObj /\ queued' = TRUE
Goto(l) == pc' = l /\ UNCHANGED <<work, queued>>

\* Mutant of PeriodicRequeue: a reconcile that succeeds is the last.
PeriodicStop == Stop

PeriodicRequeue == Requeue

Fault == faults < MaxFaults /\ faults' = faults + 1 /\ UNCHANGED edits
Edit  == edits < MaxEdits /\ edits' = edits + 1 /\ UNCHANGED faults

----------------------------------------------------------------------------
(* Configuration.  A value of the ConfigMap overrides what it is merged     *)
(* into; a Boolean can only be switched on.                                *)

Override(base, c) ==
    [url        |-> IF c.url = "none" THEN base.url ELSE c.url,
     onlyPublic |-> base.onlyPublic \/ c.onlyPublic,
     skip       |-> base.skip \/ c.skip]

\* main: a ConfigMap that is missing or cannot be read leaves the flags alone, and
\* a malformed URL disables the probes.
Validated(c)    == IF c.url = "malformed" THEN [c EXCEPT !.url = "none"] ELSE c
StartUnread     == Validated(Flags)
StartRead       == IF configMap = NoObj THEN StartUnread ELSE Validated(Override(Flags, configMap))

\* getRHOBSConfig: the same merge, over what the operator started with.  Without the
\* ConfigMap, or when it cannot be read, Dynatrace is off.
WithDynatrace(c, on) ==
    [url |-> c.url, onlyPublic |-> c.onlyPublic, skip |-> c.skip, dynatrace |-> on]

\* Mutant of Fallback: what the ConfigMap said at the start is forgotten.
FallbackToFlags == WithDynatrace(StartUnread, FALSE)

Fallback == WithDynatrace(started, FALSE)

getRHOBSConfig ==
    IF configMap = NoObj THEN Fallback
    ELSE WithDynatrace(Override(started, configMap), configMap.dynatrace)

Init ==
    /\ hcp = NoObj /\ hcpCache = NoObj /\ released = "no" /\ overlooked = {}
    /\ hcLimited = FALSE
    /\ configMap \in ConfigMaps /\ started = StartRead /\ enabled = TRUE
    /\ queued = FALSE /\ pc = "idle" /\ work = NoObj
    /\ health = NoObj /\ healthCache = [count |-> NoObj, fresh |-> TRUE] /\ streak = 0 /\ passed = 0
    /\ route = FALSE /\ monitor = "absent"
    /\ \E left \in [LeftOver -> Locations \cup {NoObj}] :
          dynatrace = [i \in DynatraceIds |-> IF i \in LeftOver THEN left[i] ELSE NoObj]
    /\ probes = [i \in ProbeIds |-> NoObj]
    /\ up = Services /\ late = FALSE /\ old = FALSE
    /\ edits = 0 /\ faults = 0

AfterDynatrace(w) == IF w.cfg.url # "none" THEN "getProbe" ELSE "idle"

AfterInternalObjects(w) ==
    IF w.client THEN "dynatrace" ELSE AfterDynatrace(w)

\* The Available gate; with SkipInfrastructureHealthCheck all gates and the
\* internal objects are skipped.
AfterFinalizer(w) ==
    IF w.cfg.skip THEN AfterInternalObjects(w)
    ELSE IF w.hcp.available THEN "readiness" ELSE "idle"

AfterDynatraceDeletion(w) == IF w.cfg.url # "none" THEN "deleteProbe" ELSE "deleteRoute"

FirstStep(w) ==
    IF w.hcp.deleting
    THEN IF w.client THEN "deleteDynatrace" ELSE AfterDynatraceDeletion(w)
    ELSE IF w.hcp.fin THEN AfterFinalizer(w) ELSE "finalizer"

\* Start the step l, or wait for the next timer if the reconcile ends here.
Continue(l) == IF l = "idle" THEN PeriodicRequeue ELSE Goto(l)

\* Reconcile up to the choice between deletion and upkeep.  The Dynatrace client
\* needs a Secret; where Dynatrace does not answer, it may be what is missing.
Clients(cfg) == IF ~cfg.dynatrace THEN {FALSE}
                ELSE IF "dynatrace" \in up THEN {TRUE} ELSE BOOLEAN

Start(cfg) ==
    /\ pc = "idle" /\ queued
    /\ IF hcpCache = NoObj THEN queued' = FALSE /\ UNCHANGED <<pc, work>>
       ELSE \E client \in Clients(cfg) :
              LET w == [hcp |-> hcpCache, cfg |-> cfg, client |-> client, found |-> NoObj,
                        count |-> 0, fresh |-> TRUE, keep |-> NoObj, excess |-> {}]
              IN  IF (cfg.dynatrace /\ ~client /\ cfg.url = "none") \/ FirstStep(w) = "idle"
                  THEN UNCHANGED <<queued, pc, work>>
                  ELSE queued' = FALSE /\ work' = w /\ pc' = FirstStep(w)
    /\ UNCHANGED <<objects, checks, inside, dynatrace, probes, world>>

ReadConfig       == Start(getRHOBSConfig) /\ UNCHANGED budget
ConfigUnreadable == Start(Fallback) /\ Fault

\* Update of the HostedControlPlane from the reconcile's copy.
Current == hcp # NoObj /\ hcp.rv = work.hcp.rv

AddFinalizer ==
    /\ pc = "finalizer"
    /\ IF Current
       THEN /\ hcp' = [hcp EXCEPT !.fin = TRUE, !.rv = @ + 1]
            /\ LET w == [work EXCEPT !.hcp = hcp']
               IN  IF AfterFinalizer(w) = "idle" THEN Requeue
                   ELSE work' = w /\ pc' = AfterFinalizer(w) /\ UNCHANGED queued
       ELSE Requeue /\ UNCHANGED hcp
    /\ UNCHANGED <<hcpCache, released, overlooked, checks, inside, dynatrace, probes, world, budget>>

----------------------------------------------------------------------------
(* hcpReady: an old cluster is ready, a young one after enough health      *)
(* checks in a row, counted in an annotation of a ConfigMap.               *)

WriteHealth(n) ==
    /\ health' = n
    /\ healthCache' = IF ~HealthInformerLags THEN [count |-> n, fresh |-> TRUE]
                      ELSE IF n = health THEN healthCache
                      ELSE [healthCache EXCEPT !.fresh = FALSE]

Checking(n, f) ==
    IF n >= consecutiveSuccessfulHealthchecks THEN Goto("vpcEndpoint")
    ELSE /\ work' = [work EXCEPT !.count = n, !.fresh = f]
         /\ pc' = "healthcheck" /\ UNCHANGED queued

Readiness ==
    /\ pc = "readiness"
    /\ \/ /\ old
          /\ Goto("vpcEndpoint") /\ UNCHANGED <<health, healthCache>>
       \/ /\ ~old /\ healthCache.count # NoObj
          /\ Checking(healthCache.count, healthCache.fresh) /\ UNCHANGED <<health, healthCache>>
       \/ /\ ~old /\ healthCache.count = NoObj /\ health = NoObj
          /\ Checking(0, TRUE) /\ WriteHealth(0)
       \/ /\ ~old /\ healthCache.count = NoObj /\ health # NoObj
          /\ Requeue /\ UNCHANGED <<health, healthCache>>
    /\ UNCHANGED <<objects, streak, passed, inside, dynatrace, probes, world, budget>>

\* Mutant of CountAfter: a check that fails leaves the count alone.
CountAfterKept(ok, n) == IF ok THEN n + 1 ELSE n

CountAfter(ok, n) == IF ok THEN n + 1 ELSE 0

OneMore(n) == IF n < consecutiveSuccessfulHealthchecks THEN n + 1 ELSE n

\* History: a check has passed or failed, and a failure is recorded or lost.
Polled(ok, recorded) ==
    /\ streak' = IF ok THEN OneMore(streak) ELSE 0
    /\ passed' = IF ok THEN OneMore(passed) ELSE IF recorded THEN 0 ELSE passed

\* The /livez endpoint is polled and the count updated, from a copy that must be current.
Healthcheck ==
    /\ pc = "healthcheck"
    /\ \E ok \in BOOLEAN :
          LET n == CountAfter(ok, work.count)
          IN  /\ Polled(ok, work.fresh)
              /\ IF work.fresh THEN WriteHealth(n) ELSE UNCHANGED <<health, healthCache>>
              /\ IF work.fresh /\ n >= consecutiveSuccessfulHealthchecks
                 THEN Goto("vpcEndpoint") ELSE Requeue
    /\ UNCHANGED <<objects, inside, dynatrace, probes, world, budget>>

----------------------------------------------------------------------------
(* The VPC endpoint, the TLS dial, and the Route and RouteMonitor inside   *)
(* the cluster, which are taken down again when the dial fails.            *)

\* A gate that does not hold sends the reconcile back, as a failed call does.
VpcEndpoint ==
    /\ pc = "vpcEndpoint" /\ Goto("tls")
    /\ UNCHANGED <<objects, checks, inside, dynatrace, probes, world, budget>>

KubeAPIServerReachable ==
    /\ pc = "tls" /\ Goto("route")
    /\ UNCHANGED <<objects, checks, inside, dynatrace, probes, world, budget>>

TLSFails ==
    /\ pc = "tls" /\ Goto("tlsDeleteRoute") /\ Fault
    /\ UNCHANGED <<objects, checks, inside, dynatrace, probes, world>>

\* The RouteMonitor stays until its own controller removes its finalizer.
DeleteInternalObjects(first, second, last) ==
    \/ /\ pc = first
       /\ route' = FALSE /\ Goto(second) /\ UNCHANGED monitor
    \/ /\ pc = second
       /\ monitor' = IF monitor = "absent" THEN "absent" ELSE "deleting"
       /\ Continue(last) /\ UNCHANGED route

TLSUnavailable ==
    /\ DeleteInternalObjects("tlsDeleteRoute", "tlsDeleteMonitor", "idle")
    /\ UNCHANGED <<objects, checks, dynatrace, probes, world, budget>>

\* Create, or update what is there; an update does not stop a deletion.
DeployInternalObjects ==
    /\ \/ /\ pc = "route"
          /\ route' = TRUE /\ Goto("monitor") /\ UNCHANGED monitor
       \/ /\ pc = "monitor"
          /\ monitor' = IF monitor = "absent" THEN "present" ELSE monitor
          /\ Continue(AfterInternalObjects(work)) /\ UNCHANGED route
    /\ UNCHANGED <<objects, checks, dynatrace, probes, world, budget>>

----------------------------------------------------------------------------
(* Dynatrace.  Of the monitors tagged with the cluster, in whatever order   *)
(* they are listed, the first is kept; a failure only matters where there  *)
(* is no synthetics API.                                                   *)

\* Mutant of DynatraceFails: a failure never matters.
DynatraceFailsQuietly(next) == Goto(next)

DynatraceFails(next) == IF work.cfg.url # "none" THEN Goto(next) ELSE Requeue

\* determineDynatraceClusterRegionName and GetLocationEntityIdFromDynatrace.  Access
\* that is public only is refused, as a region Dynatrace does not serve is.
DynatraceLocation(spec) ==
    IF spec.region = NoRegion THEN NoRegion
    ELSE IF spec.private THEN Backplane
    ELSE IF spec.region \in DOMAIN DynatraceRegions THEN DynatraceRegions[spec.region]
    ELSE NoRegion

DynatraceUsable(spec) == spec.host /\ DynatraceLocation(spec) # NoRegion /\ spec.id

Tagged     == {i \in DynatraceIds : dynatrace[i] # NoObj /\ work.hcp.spec.id}
Without(i) == [dynatrace EXCEPT ![i] = NoObj]

\* A request that changes the monitors, then the action Ok; a request that is not
\* answered may have been carried out.
DynatraceRequest(result, Ok, Failed) ==
    \/ "dynatrace" \in up    /\ dynatrace' = result /\ Ok
    \/ "dynatrace" \notin up /\ dynatrace' \in {result, dynatrace} /\ Failed

\* The requests up to ListDynatraceHttpMonitorsForCluster.
ListDynatraceMonitors ==
    /\ pc = "dynatrace" /\ UNCHANGED dynatrace
    /\ \/ /\ "dynatrace" \notin up \/ ~DynatraceUsable(work.hcp.spec)
          /\ DynatraceFails("getProbe")
       \/ /\ "dynatrace" \in up /\ DynatraceUsable(work.hcp.spec)
          /\ \E k \in IF Tagged = {} THEN {NoObj} ELSE Tagged :
                /\ work' = [work EXCEPT !.keep = k, !.excess = Tagged \ {k}]
                /\ pc' = IF k = NoObj THEN "dynatraceCreate"
                         ELSE IF Tagged = {k} THEN "dynatraceMove" ELSE "dynatraceExcess"
          /\ UNCHANGED queued

\* Errors are logged, and every monitor in excess is tried once.
removeDyntraceMonitors ==
    /\ pc = "dynatraceExcess"
    /\ \E i \in work.excess :
          LET Next1 == /\ work' = [work EXCEPT !.excess = @ \ {i}]
                       /\ pc' = IF work.excess = {i} THEN "dynatraceMove" ELSE pc
                       /\ UNCHANGED queued
          IN  DynatraceRequest(Without(i), Next1, Next1)

\* Mutant of InPlace: a monitor is left wherever it is.
InPlaceAnywhere == TRUE

InPlace == dynatrace[work.keep] = DynatraceLocation(work.hcp.spec)

\* GetDynatraceHttpMonitor, then DeleteSingleMonitor if it is in another location.
MoveDynatraceMonitor ==
    /\ pc = "dynatraceMove"
    /\ \/ /\ InPlace /\ UNCHANGED dynatrace
          /\ IF "dynatrace" \in up THEN Continue(AfterDynatrace(work)) ELSE DynatraceFails("getProbe")
       \/ /\ ~InPlace
          /\ DynatraceRequest(Without(work.keep), Goto("dynatraceCreate"), DynatraceFails("getProbe"))

CreateDynatraceHttpMonitor ==
    /\ pc = "dynatraceCreate"
    /\ \E i \in {j \in DynatraceIds : dynatrace[j] = NoObj} :
          DynatraceRequest([dynatrace EXCEPT ![i] = DynatraceLocation(work.hcp.spec)],
                           Continue(AfterDynatrace(work)), DynatraceFails("getProbe"))

deployDynatraceHttpMonitorResources ==
    /\ \/ ListDynatraceMonitors \/ removeDyntraceMonitors
       \/ MoveDynatraceMonitor  \/ CreateDynatraceHttpMonitor
    /\ UNCHANGED <<objects, checks, inside, probes, world, budget>>

\* Listed, then deleted one by one until a request fails.
deleteDynatraceHttpMonitorResources ==
    /\ pc = "deleteDynatrace"
    /\ \/ /\ Tagged = {} /\ UNCHANGED dynatrace
          /\ IF "dynatrace" \in up THEN Goto(AfterDynatraceDeletion(work))
                                  ELSE DynatraceFails("deleteProbe")
       \/ \E i \in Tagged :
             DynatraceRequest(Without(i),
                              IF Tagged = {i} THEN Goto(AfterDynatraceDeletion(work)) ELSE Goto(pc),
                              DynatraceFails("deleteProbe"))
    /\ UNCHANGED <<objects, checks, inside, probes, world, budget>>
----------------------------------------------------------------------------
(* The synthetics API.  GetProbe takes the first probe listed for the      *)
(* cluster; the API does not promise an order.  While the API does not     *)
(* answer, a request may still have been carried out; one to a malformed   *)
(* URL is not sent.                                                        *)

Listed == {i \in ProbeIds : probes[i] # NoObj}
Found  == IF Listed = {} THEN {NoObj} ELSE Listed
Live   == {i \in Listed : probes[i].status # "terminating"}

\* Mutant of NewProbe: the region label is left out.
NewProbeWithoutRegion(spec) == [status |-> "active", private |-> spec.private]

NewProbe(spec) == [status |-> "active", private |-> spec.private, region |-> spec.region]

Terminated(i) == IF i = NoObj THEN probes ELSE [probes EXCEPT ![i].status = "terminating"]

\* A conflict is taken for success.  Where all identities of the model are taken by
\* terminating probes, the request waits for the agents.
Created ==
    IF \E i \in Listed : probes[i].status \in Conflicting THEN {probes}
    ELSE {[probes EXCEPT ![i] = NewProbe(work.hcp.spec)] : i \in ProbeIds \ Listed}

Answered == work.cfg.url = "valid" /\ "rhobs" \in up

\* A request that changes the probes to one of the given values, then the action
\* Ok, or an error.
Request(results, Ok, Failed) ==
    \/ Answered /\ probes' \in results /\ Ok
    \/ ~Answered /\ Failed
       /\ probes' \in {probes} \cup IF work.cfg.url = "valid" THEN results ELSE {}

DeleteProbe(i, Ok, Failed) == Request({Terminated(i)}, Ok, Failed)

----------------------------------------------------------------------------
(* ensureRHOBSProbe.                                                       *)

\* The label of the HostedControlPlane counts only as long as the HostedCluster
\* has it too.
isLimitedSupport(c) == c.limited /\ hcLimited

\* Mutant of AfterGetLimited: a probe is not created, and not deleted either.
AfterGetLimitedKept(i) == "idle"

AfterGetLimited(i) == IF i = NoObj THEN "idle" ELSE "terminate"

\* A probe without the private label is one with the wrong value of it.  The heartbeat
\* that is sent first changes nothing that is kept here, and the reconcile comes back
\* whether it fails or not.
AfterGet(i, spec) ==
    IF i = NoObj THEN "create"
    ELSE IF probes[i].status = "failed" THEN "recreate"
    ELSE IF spec.region = NoRegion THEN "idle"
    ELSE IF probes[i].private # spec.private THEN "recreate"
    ELSE IF probes[i].region # spec.region THEN "patchRegion"
    ELSE "idle"

\* Checks that end the reconcile before or after the probe is looked up.
SpecIncomplete(limited, spec) == ~spec.id \/ (~limited /\ ~spec.host)

GetProbe(limited) ==
    /\ LET spec    == work.hcp.spec
           skipped == ~limited /\ work.cfg.onlyPublic /\ spec.private
       IN  \/ /\ (spec.id /\ skipped) \/ SpecIncomplete(limited, spec) \/ ~Answered
              /\ Requeue
           \/ /\ Answered /\ ~skipped /\ ~SpecIncomplete(limited, spec)
              /\ \E i \in Found :
                    LET l == IF limited THEN AfterGetLimited(i) ELSE AfterGet(i, spec)
                    IN  IF l = "idle" THEN PeriodicRequeue
                        ELSE /\ pc' = l /\ work' = [work EXCEPT !.found = i]
                             /\ UNCHANGED queued
    /\ UNCHANGED <<objects, checks, inside, dynatrace, probes, world>>

EnsureProbe == pc = "getProbe" /\ GetProbe(isLimitedSupport(work.hcp)) /\ UNCHANGED budget

\* The HostedCluster cannot be read: the label of the HostedControlPlane is trusted.
HostedClusterUnreadable == pc = "getProbe" /\ work.hcp.limited /\ GetProbe(TRUE) /\ Fault

\* client.DeleteProbe, for a cluster in limited support or before the probe is
\* created anew.
TerminateProbe ==
    /\ \E i \in Found :
          \/ pc = "terminate" /\ DeleteProbe(i, PeriodicRequeue, Requeue)
          \/ pc = "recreate"  /\ DeleteProbe(i, Goto("create"), Requeue)
    /\ UNCHANGED <<objects, checks, inside, dynatrace, world, budget>>

CreateProbe ==
    /\ pc = "create"
    /\ IF work.hcp.spec.region = NoRegion THEN Requeue /\ UNCHANGED probes
       ELSE Request(Created, PeriodicRequeue, Requeue)
    /\ UNCHANGED <<objects, checks, inside, dynatrace, world, budget>>

UpdateProbeLabels ==
    /\ pc = "patchRegion"
    /\ IF probes[work.found] = NoObj
       THEN Requeue /\ UNCHANGED probes
       ELSE Request({[probes EXCEPT ![work.found].region = work.hcp.spec.region]},
                    PeriodicRequeue, Requeue)
    /\ UNCHANGED <<objects, checks, inside, dynatrace, world, budget>>

----------------------------------------------------------------------------
(* Deletion: the probe, the Route, the RouteMonitor, then the finalizer.   *)
(* A probe that cannot be deleted holds the cluster back for 15 minutes.   *)

\* Mutant of deleteRHOBSProbe: an error is logged and deletion goes on.
deleteRHOBSProbeFailOpen ==
    /\ pc = "deleteProbe"
    /\ IF ~work.hcp.spec.id THEN Goto("deleteRoute") /\ UNCHANGED <<probes, overlooked>>
       ELSE \E i \in Found :
               DeleteProbe(i, Goto("deleteRoute") /\ overlooked' = Live \ {i},
                           Goto("deleteRoute") /\ UNCHANGED overlooked)
    /\ UNCHANGED <<hcp, hcpCache, released, checks, inside, dynatrace, world, budget>>


GiveUp == IF late THEN Goto("deleteRoute") ELSE Requeue

deleteRHOBSProbe ==
    /\ pc = "deleteProbe"
    /\ IF ~work.hcp.spec.id THEN GiveUp /\ UNCHANGED <<probes, overlooked>>
       ELSE \E i \in Found :
               DeleteProbe(i, Goto("deleteRoute") /\ overlooked' = Live \ {i},
                           GiveUp /\ UNCHANGED overlooked)
    /\ UNCHANGED <<hcp, hcpCache, released, checks, inside, dynatrace, world, budget>>

finalizeHostedControlPlane ==
    /\ DeleteInternalObjects("deleteRoute", "deleteMonitor", "removeFinalizer")
    /\ UNCHANGED <<objects, checks, dynatrace, probes, world, budget>>

RemoveFinalizer ==
    /\ pc = "removeFinalizer"
    /\ IF Current
       THEN /\ hcp' = NoObj
            /\ released' = IF work.cfg.url # "none" THEN IF late THEN "late" ELSE "in time"
                           ELSE IF work.client THEN "dynatrace" ELSE "unconfigured"
            /\ Stop
       ELSE Requeue /\ UNCHANGED <<hcp, released>>
    /\ UNCHANGED <<hcpCache, overlooked, checks, inside, dynatrace, probes, world, budget>>

Reconcile ==
    \/ ReadConfig \/ AddFinalizer
    \/ Readiness \/ Healthcheck
    \/ VpcEndpoint \/ KubeAPIServerReachable \/ TLSUnavailable
    \/ DeployInternalObjects
    \/ deployDynatraceHttpMonitorResources \/ deleteDynatraceHttpMonitorResources
    \/ EnsureProbe \/ TerminateProbe \/ CreateProbe \/ UpdateProbeLabels
    \/ deleteRHOBSProbe \/ finalizeHostedControlPlane \/ RemoveFinalizer

----------------------------------------------------------------------------
(* Caches and faults.                                                      *)

SyncHCP ==
    /\ enabled /\ hcpCache # hcp
    /\ hcpCache' = hcp /\ queued' = TRUE
    /\ UNCHANGED <<hcp, released, overlooked, pc, work, checks, inside, dynatrace, probes, world, budget>>

SyncHealth ==
    /\ ~healthCache.fresh
    /\ healthCache' = [count |-> health, fresh |-> TRUE]
    /\ UNCHANGED <<objects, worker, health, streak, passed, inside, dynatrace, probes, world, budget>>

\* A call to the cluster fails, or a gate does not hold.  A health check whose
\* result cannot be recorded has been made all the same.
CallFails ==
    /\ pc # "idle"
    /\ Fault /\ Requeue
    /\ IF pc = "healthcheck" THEN \E ok \in BOOLEAN : Polled(ok, FALSE)
                             ELSE UNCHANGED <<streak, passed>>
    /\ UNCHANGED <<objects, health, healthCache, inside, dynatrace, probes, world>>

\* main reads the ConfigMap once, and runs this controller only if shouldEnableHCP can
\* see the HostedControlPlane resource.
Restart ==
    /\ Fault
    /\ pc' = "idle" /\ work' = NoObj
    /\ started' \in {StartRead, StartUnread} /\ enabled' \in BOOLEAN
    /\ hcpCache' = IF enabled' THEN hcp ELSE NoObj
    /\ queued' = (hcpCache' # NoObj)
    /\ healthCache' = [count |-> health, fresh |-> TRUE]
    /\ UNCHANGED <<hcp, released, overlooked, health, streak, passed, inside, dynatrace, probes,
                   hcLimited, configMap, up, late, old>>

----------------------------------------------------------------------------
(* The world: HyperShift and users, the RouteMonitor controller, the       *)
(* synthetics API and its agents, and the clock.                           *)

CreateHCP ==
    /\ hcp = NoObj /\ released = "no" /\ edits = 0 /\ Edit
    /\ \E s \in HCPSpecs : hcp' = [rv |-> 1, deleting |-> FALSE, fin |-> FALSE,
                                   available |-> FALSE, limited |-> FALSE, spec |-> s]
    /\ UNCHANGED <<hcpCache, released, overlooked, worker, checks, inside, dynatrace, probes, world>>

ChangeHCP ==
    /\ hcp # NoObj /\ Edit
    /\ \/ /\ hcp' = [hcp EXCEPT !.rv = @ + 1, !.available = ~@] /\ UNCHANGED hcLimited
       \/ /\ \E s \in HCPSpecs \ {hcp.spec} : hcp' = [hcp EXCEPT !.rv = @ + 1, !.spec = s]
          /\ UNCHANGED hcLimited
       \/ /\ ~hcLimited /\ hcLimited' = TRUE
          /\ hcp' = [hcp EXCEPT !.rv = @ + 1, !.limited = TRUE]
       \/ /\ hcLimited /\ hcLimited' = FALSE /\ UNCHANGED hcp
    /\ UNCHANGED <<hcpCache, released, overlooked, worker, checks, inside, dynatrace, probes,
                   configMap, operator, up, late, old>>

DeleteHCP ==
    /\ hcp # NoObj /\ Edit
    /\ ~hcp.deleting
    /\ hcp' = IF hcp.fin THEN [hcp EXCEPT !.rv = @ + 1, !.deleting = TRUE] ELSE NoObj
    /\ UNCHANGED <<hcpCache, released, overlooked, worker, checks, inside, dynatrace, probes, world>>

ChangeConfigMap ==
    /\ Edit
    /\ configMap' \in ConfigMaps \ {configMap}
    /\ queued' = (queued \/ hcpCache # NoObj)
    /\ UNCHANGED <<objects, pc, work, checks, inside, dynatrace, probes, hcLimited, operator,
                   up, late, old>>

ServiceGoesUpOrDown ==
    /\ Edit
    /\ \E s \in Unreliable : up' = IF s \in up THEN up \ {s} ELSE up \cup {s}
    /\ UNCHANGED <<objects, worker, checks, inside, dynatrace, probes, hcLimited, configMap, operator,
                   late, old>>

ProbeFails(i) ==
    /\ probes[i] # NoObj /\ Edit
    /\ probes[i].status = "active"
    /\ probes' = [probes EXCEPT ![i].status = "failed"]
    /\ UNCHANGED <<objects, worker, checks, inside, dynatrace, world>>

ProbeRemoved(i) ==
    /\ probes[i] # NoObj
    /\ probes[i].status = "terminating"
    /\ probes' = [probes EXCEPT ![i] = NoObj]
    /\ UNCHANGED <<objects, worker, checks, inside, dynatrace, world, budget>>

MonitorRemoved ==
    /\ monitor = "deleting"
    /\ monitor' = "absent" /\ queued' = (queued \/ hcpCache # NoObj)
    /\ UNCHANGED <<objects, pc, work, checks, route, dynatrace, probes, world, budget>>

DeletionIsLate ==
    /\ hcp # NoObj /\ ~late
    /\ hcp.deleting
    /\ late' = TRUE
    /\ UNCHANGED <<objects, worker, checks, inside, dynatrace, probes, hcLimited, configMap, operator,
                   up, old, budget>>

GrowsOld ==
    /\ hcp # NoObj /\ ~old
    /\ old' = TRUE
    /\ UNCHANGED <<objects, worker, checks, inside, dynatrace, probes, hcLimited, configMap, operator,
                   up, late, budget>>

Agents == MonitorRemoved \/ \E i \in ProbeIds : ProbeRemoved(i)
Users  == CreateHCP \/ ChangeHCP \/ DeleteHCP \/ ChangeConfigMap \/ ServiceGoesUpOrDown
          \/ \E i \in ProbeIds : ProbeFails(i)

Next ==
    \/ Reconcile
    \/ SyncHCP \/ SyncHealth
    \/ ConfigUnreadable \/ HostedClusterUnreadable \/ TLSFails \/ CallFails \/ Restart
    \/ Users \/ Agents
    \/ DeletionIsLate \/ GrowsOld

Spec == Init /\ [][Next]_vars

(***************************************************************************)
(* Queued requests are handled and timers fire, watches deliver, the       *)
(* agents remove what is marked, and time passes.  Nothing is assumed of   *)
(* the synthetics API, of Dynatrace or of the health endpoint.             *)
(***************************************************************************)
Fairness ==
    /\ WF_vars(Reconcile)
    /\ WF_vars(SyncHCP) /\ WF_vars(SyncHealth)
    /\ WF_vars(MonitorRemoved) /\ \A i \in ProbeIds : WF_vars(ProbeRemoved(i))
    /\ WF_vars(DeletionIsLate) /\ WF_vars(GrowsOld)

FairSpec == Spec /\ Fairness

----------------------------------------------------------------------------
(* Properties.                                                             *)

\* What allows for a live probe: the finalizer, or its removal after the 15 minutes or
\* by a reconcile that saw no API URL.
Kept == \/ hcp # NoObj /\ hcp.fin
        \/ released \in {"late", "dynatrace", "unconfigured"}

\* A probe that is not marked for termination belongs to a HostedControlPlane
\* that carries the finalizer, or the controller has given up on it ("fail closed -
\* prevents orphaned probes", Reconcile).
NoOrphanedProbe == Live # {} => Kept

\* The only probe that a release in time leaves behind is one that the API listed next
\* to the one that DeleteProbe marked, as it is while a probe is created anew: lost
\* answers, outages, failed probes, changes of the spec, the ConfigMap and the labels,
\* and restarts leave none (deleteRHOBSProbe, DeleteProbe).
OnlyOverlookedProbesLeft == ~Kept => Live \subseteq overlooked

Monitored == {i \in DynatraceIds : dynatrace[i] # NoObj}

\* Where Dynatrace is the only service, all monitors of the cluster are gone when the
\* finalizer is removed by a reconcile that could read the configuration, whatever
\* requests failed or were carried out unanswered before, with monitors in excess too
\* (Reconcile, DeleteDynatraceMonitorByCluserId).
NoOrphanedDynatrace == (released = "dynatrace") => Monitored = {}

\* An operator that had the URL of the synthetics API when it started releases no
\* cluster without asking for the deletion of its probe, even if the ConfigMap that
\* named the URL has gone since or cannot be read at that moment (getRHOBSConfig).
FallsBackToStart ==
    [][released = "no" /\ released' \in {"dynatrace", "unconfigured"} => started.url = "none"]_vars

\* Nothing is put up for a young cluster before as many health checks in a row
\* have passed as consecutiveSuccessfulHealthchecks says ("the number of
\* healthchecks in a row that must succeed before an HCP is considered healthy").
HealthyInARow ==
    (pc \in Deploying /\ ~work.cfg.skip) =>
        old \/ streak >= consecutiveSuccessfulHealthchecks

\* Nothing is put up for a young cluster before as many health checks have passed since
\* the last failure on record, however stale the cached count and whatever updates of
\* it are lost: a stale copy never completes the count (hcpReady, addHealthCheckSuccess,
\* resetHealthCheckSuccesses).
HealthyAfterPasses ==
    (pc \in Deploying /\ ~work.cfg.skip) =>
        old \/ passed >= consecutiveSuccessfulHealthchecks

\* The deletion of a cluster is never held back for good, even if the synthetics
\* API and Dynatrace stay down ("fail open (prevents indefinitely blocking
\* cluster deletion)"), unless the operator was restarted without this controller.
DeletionCompletes == (hcp # NoObj /\ hcp.deleting) ~> (hcp = NoObj \/ ~enabled)

\* A cluster that stays available, and the controller running.
Steady == hcp # NoObj /\ ~hcp.deleting /\ hcp.available /\ hcp.spec.id /\ enabled

\* The kube-apiserver of such a cluster is monitored from inside in the end, also
\* after an outage in which the Route and the RouteMonitor were taken down, the
\* latter perhaps still on its way out when they are put up again ("the blackbox
\* exporter stops probing" only while TLS fails, Reconcile).
EventuallyInside ==
    (<>[](Steady /\ ~getRHOBSConfig.skip)) => <>[](route /\ monitor = "present")

\* And the synthetics API answering.
Probing == Steady /\ "rhobs" \in up /\ getRHOBSConfig.url = "valid"

Wanted ==
    /\ Probing
    /\ ~isLimitedSupport(hcp)
    /\ hcp.spec.host /\ hcp.spec.region # NoRegion
    /\ ~(getRHOBSConfig.onlyPublic /\ hcp.spec.private)

\* A cluster that should have a probe gets one with the right labels and keeps
\* it, whatever state its probes were in: failed, terminating, of the wrong
\* kind, or created by a request whose answer was lost ("The ensureRHOBSProbe
\* call is idempotent").
EventuallyProbed ==
    (<>[]Wanted) => <>[](hcp # NoObj /\ \E i \in Listed : probes[i] = NewProbe(hcp.spec))

\* A cluster in limited support loses its probe for good ("delete probe if it
\* exists and skip creation").
LimitedSupportClears ==
    (<>[](Probing /\ isLimitedSupport(hcp))) => <>[](Live = {})

DynatraceWanted ==
    Steady /\ "dynatrace" \in up /\ getRHOBSConfig.dynatrace /\ DynatraceUsable(hcp.spec)

\* A cluster that Dynatrace can monitor ends up with one monitor, in the location of
\* its region and access, however many there were, wherever they were, and whatever
\* requests were lost (deployDynatraceHttpMonitorResources).
EventuallyOneMonitor ==
    (<>[]DynatraceWanted) =>
        <>[](hcp # NoObj /\ \E i \in Monitored :
                 Monitored = {i} /\ dynatrace[i] = DynatraceLocation(hcp.spec))
=============================================================================
