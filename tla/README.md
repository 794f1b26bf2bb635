# Verification of route-monitor-operator

TLA+ models of the operator, TLC configurations that check them on small
instances, and TLAPS proofs. Paths are relative to the repository.

## 1. The system

The operator runs three controllers in one process. Each takes names from a
work queue with one worker, so a controller handles one name at a time, but the
three run concurrently. Reads go to informer caches, writes to the API server.
A write carries the revision of the copy it was made from and is refused if the
object has changed. A reconcile that returns an error is retried.

| Component | State it keeps | Operations | Interaction | Modelled in |
|---|---|---|---|---|
| RouteMonitor controller (`controllers/routemonitor`) | RouteMonitor: finalizers, status (URL, references, error) | finalizer, route URL, ServiceMonitor, PrometheusRule, removal of all | watches RouteMonitors and owned ServiceMonitors of monitoring.coreos.com | `RouteMonitor` |
| Common helpers (`pkg/reconcile`, `pkg/util/finalizer`, `api/v1alpha1/common_types.go`) | none | finalizers, references, error status, SLO parsing | called by both monitor controllers | `MonitorCommon` |
| ServiceMonitor and PrometheusRule helpers (`pkg/servicemonitor`, `pkg/alert`) | the dependents | create or update, delete | called by both monitor controllers | `RouteMonitor`, `ClusterUrlMonitor` |
| Blackbox exporter (`pkg/blackboxexporter`) | ConfigMap, Deployment, Service | put up, count users, take down | shared by two controllers, not watched | `BlackBoxExporter` |
| ClusterUrlMonitor controller (`controllers/clusterurlmonitor`) | as RouteMonitor | as RouteMonitor, with a URL made from objects of the cluster | shares the exporter; reads Infrastructure, ClusterVersion, HostedControlPlane, HostedCluster | `ClusterUrlMonitor`; its exporter steps in `BlackBoxExporter` |
| HostedControlPlane controller (`controllers/hostedcontrolplane`) | finalizer, health check ConfigMap, Route, RouteMonitor | gates, internal objects, probe, deletion | synthetics API, Dynatrace, RouteMonitor controller, operator ConfigMap | `HostedControlPlane` |
| Synthetics client (`pkg/rhobs`) | probes at the API | get, create, relabel, terminate | HTTP, answers may be lost | `HostedControlPlane` |
| Dynatrace client (`pkg/dynatrace`) | monitors at the API | list, create, delete | HTTP, answers may be lost | `HostedControlPlane` |
| Start-up (`main.go`) | configuration, whether the HostedControlPlane controller runs | merge of flags and ConfigMap, check of the URL, `shouldEnableHCP` | | `HostedControlPlane` |
| `pkg/util`, API types, metrics | none | URL and version checks | | `ValidURL` as a class of URLs; the rest is left out |

What is hard here: decisions taken on stale copies; a dependent that is created
before its reference is recorded; two controllers that put up and take down the
same exporter; objects that are read but not watched; an HTTP request that is
carried out unanswered; deletions that must neither lose a resource nor hang.
`PROJECT.json` lists these hazards at their lines.

## 2. Modules

| Module | Content |
|---|---|
| `MonitorCommon` | pure operators for the shared helpers |
| `MonitorLife` | abstract specification: what a monitor controller promises about one monitor |
| `RouteMonitor` | the controller on one name, its dependents, caches, users, faults; properties; inductive invariant |
| `RouteMonitorProofs` | types, finalizer, intent of the user, refinement of `MonitorLife` |
| `RouteMonitorQuietProofs` | what a `RouteMonitor` has when nothing is left to do |
| `ClusterUrlMonitor` | the controller on one name, its dependents, the objects of the cluster it reads |
| `ClusterUrlMonitorProofs` | types, error budget of the rules, refinement of `MonitorLife` |
| `ClusterUrlMonitorQuietProofs` | what a `ClusterUrlMonitor` has when nothing is left to do |
| `BlackBoxExporter` | both monitor controllers as far as the exporter is concerned |
| `BlackBoxExporterProofs` | types; what two controllers on lagging caches leave of the exporter |
| `HostedControlPlane` | the controller on one HostedControlPlane, from creation to removal, and the services it calls |
| `HostedControlPlaneProofs` | types, the fallback of the configuration, probes, Dynatrace monitors, health checks |
| `MC...` | the sets that the configurations use |

`MonitorCommon` is extended by the two monitor controllers, which both implement
`MonitorLife`. `BlackBoxExporter` stands beside them: their reconciles meet only
in the exporter.

### MonitorLife

`life` is the phase of the monitor (absent, open, kept, going, leaving), `deps`
the contents of its dependents. The promise is an order: a finalizer before the
first dependent is put up, no dependent put up or rewritten once the finalizer
is off, the finalizer off only after a deletion request, no way back from one.
The refinement mapping is `LifeOf(obj)`, which reads the phase off the finalizer
and the deletion request of the stored monitor, and the stored dependents as
they are: in `RouteMonitor` `dependents` gathers `sm` and `pr`, in
`ClusterUrlMonitor` `deps` has that shape. Caches, queues, the reconcile's copy
and all failures map to stuttering. Where a stale copy would let a reconcile
write after the release, the step has no counterpart and the refinement fails.

### RouteMonitor

`obj` is the RouteMonitor on the API server, `rmCache` the informer's copy, `rm`
the reconcile's. `sm`/`smCache` and `pr`/`prCache` are the dependents, `smEvents`
what the ServiceMonitor watch has yet to deliver. `pc` is the step the reconcile
is at; a step is one write with the cached reads that lead to it, so anything
may happen between two writes. `Stop` and `Requeue` are the two ways a reconcile
ends. `Store` and `Fresh` are the API server: a revision check, no new revision
for a write that changes nothing, removal of a deleted object with its last
finalizer. `SyncMonitor`, `SyncServiceMonitor` and `SyncPrometheusRule` bring a
cache up to date and queue the name where the code watches the kind. A status
update and a full update are alike, since each changes only its own part of a
copy that must be current. URLs keep scheme, host, port and suffix; alert
expressions and templates are reduced to the URL, the SLO and the module, which
is all that varies. Names, labels and the cluster ID are left out.

The reconcile of a monitor under deletion begins with the exporter
(`BlackBoxExporter`), as does that of a live one after its finalizer is set;
failing there is `CallFails` here.

`misread` is a history variable that no action reads: the last step on the rule
went by a cached copy that differed from the stored one. Rules are read through
the cached client and not watched, so such a step has no second chance; the
properties of rules name this one way to go wrong instead of assuming it away.

### ClusterUrlMonitor

The shape is that of `RouteMonitor`, with the dependents of all three kinds
(ServiceMonitors of `coreos` and `rhobs`, the rule) in one function `deps`.
`cluster` holds what the controller reads of the cluster and nobody watches: the
host of the Infrastructure, the ClusterVersion, the HostedControlPlanes and the
HostedCluster. A host is a sequence of labels, so that `removeSubdomain` is the
code's. `Domains` is empty where `GetClusterDomain` fails, `ClusterReady` covers
the cluster ID and the available version. `spec.domainRef` (`hcp`) selects the
source of the domain and the kind of the ServiceMonitor. `RemoveFinalizer` goes
on to `EnsureFinalizerSet` when there is nothing to remove, as the code does;
the API server refuses the finalizer that this puts on an object under deletion.
`ForeignRelease` is another controller whose finalizer holds the monitor.
`misread` is as in `RouteMonitor`.

### BlackBoxExporter

A monitor is "new", "live" or "deleting". Each controller's worker (`pc`, `cur`,
`listed`) works through `EnsureBlackBoxExporterResourcesExist`, or lists both
kinds and perhaps goes through `EnsureBlackBoxExporterResourcesAbsent`, one part
a step. What the monitors need besides is left out, as is the spec of the
Deployment: an update that fails because the Deployment is gone is kept.

`crossed` is a history variable that no action reads: the parts on which a step
went wrong in one of the two ways the design leaves open, that is a part taken for
present or absent on a stale copy, or a part taken down from under a monitor of
the other kind, or put up while the other controller was taking the exporter down.
Any other step that puts the part up or takes it down strikes it off.

### HostedControlPlane

`work` is what a reconcile has read: the cached HostedControlPlane, the merged
configuration, whether there is a Dynatrace client, the probe it found, the
health count and whether that was current. The steps follow `Reconcile` in
order: finalizer, Available gate, `hcpReady` (`Readiness`, `Healthcheck`), VPC
endpoint, TLS dial, Route and RouteMonitor, Dynatrace, probe; or, on deletion,
Dynatrace, probe, Route, RouteMonitor, finalizer. Every result but Stop comes
back to the queue; the intervals (30 s, 5 min, 10 min, back-off) are not told
apart. The two clocks that matter are `late` (15 minutes since the deletion
request) and `old` (3 hours since creation), which turn true at any moment
after the object qualifies.

The synthetics API is external. It lists the probes of a cluster in no
particular order; while it is not `up` every request fails, but may have been
carried out, at once or never: a request that reaches the API after the reconcile
that sent it has gone on is not modelled. `Conflicting` says in which states an
existing probe makes it answer 409: the code shows only that a conflict exists "for
this URL". The runs use `{"active", "failed"}`: `ensureRHOBSProbe` creates a probe
right after it has marked its predecessor, and the mock in `synthetics_test.go`
answers 201 to that. The theorems hold for every value. Where every identity of
the model is taken by a terminating probe, a request to create one waits for the
agents.

`streak`, `passed`, `released` and `overlooked` are history variables that no
action reads: the health checks passed since the last failure and since the last
failure on record, how the finalizer was removed, and the live probes that were
listed next to the one a deletion marked.

`started` is the configuration `main.go` computes: the flags, overridden by the
ConfigMap of that moment if it can be read, with a malformed URL removed.
`enabled` is the answer of `shouldEnableHCP`. A restart computes both anew, and
may fail to read either. A reconcile merges the ConfigMap over `started`, this
time without the check of the URL, or falls back to `started` without Dynatrace.
URLs are "none", "valid" or "malformed"; a request to a malformed one is never
sent. `up` says which of the two services answer.

`dynatrace` gives every monitor tagged with the cluster its location. An
operator of an earlier time may have left any number anywhere (`LeftOver`). The
steps are those of `deployDynatraceHttpMonitorResources`: list, remove what is in
excess one by one, delete the one kept if it is elsewhere, create. Access that is
public only and regions Dynatrace does not serve are alike, since both are
refused. A missing Secret is possible only while Dynatrace does not answer,
which has the same effects.

The RouteMonitor controller appears only as `MonitorRemoved`. A Route or
RouteMonitor that exists is updated to what it was; an "already exists" followed
by "not found" in the cache is a failed call. The unconditional heartbeat of a
probe has no effect that is modelled, and a probe without the private label is one
with the wrong value of it.

## 3. Runs

Passing runs:

| Run | Shows |
|---|---|
| `RouteMonitorSafety` | `DeployUnderFinalizer`, `KeepsUserIntent`, `QuietServiceMonitor`, `QuietPrometheusRule`, `QuietErrorStatus` under edits, deletions, faults and lagging caches of monitors, ServiceMonitors and rules. `ImplementsLife`: the controller implements `MonitorLife` |
| `RouteMonitorLive` | `DeletionCompletes`, `ComesToRest`, with ServiceMonitors of both kinds |
| `ClusterUrlMonitor` | `QuietServiceMonitor`, `QuietPrometheusRule`, `RuleHasErrorBudget`; `ImplementsLife` although a deletion runs on into `EnsureFinalizerSet`; `DeletionCompletes` although others hold the monitor; `EventuallyServed` once the unwatched cluster is up |
| `ExporterShared` | `OnlyCrossedPartsMissing`, `OnlyCrossedServiceEmpty` with three monitors, both controllers and lagging caches: what one controller does alone never costs a part |
| `ExporterLive` | `DeletionCompletes`, `ComesToRest` with both controllers and lagging caches |
| `HCPProbes` | `OnlyOverlookedProbesLeft` and `HealthyAfterPasses` through outages, lost answers, changes of access and region, incomplete specs, configuration changes (a malformed URL among them), a lagging cache of the health check ConfigMap |
| `HCPDynatrace` | `NoOrphanedDynatrace`, `EventuallyOneMonitor` from any monitors left over, with outages of Dynatrace and changes of access and region |
| `HCPLive` | `OnlyOverlookedProbesLeft` and `FallsBackToStart` with failed calls, an unreadable ConfigMap and restarts, `DeletionCompletes` with the API down for good, `EventuallyInside`, `EventuallyProbed`, `LimitedSupportClears` |

"Quiet" properties speak of states in which no reconcile runs or is due and all
caches are current: the state the controller leaves things in.

Violations are disagreements between the code and what the repository says of
it; `PROJECT.json` quotes the lines.

| Run | What happens |
|---|---|
| `RouteMonitorOrphanedRule` | The rule is created; before its reference is recorded the monitor is deleted, the status update conflicts, and deletion finds no reference. Rules have no owner reference. The property leaves aside a rule that a lagging cache hides from the deletion, which stays as well. |
| `ExporterTornDown` | The last monitor of one kind goes while the first of the other comes; the live one is left without a complete exporter, and nothing is watched that would put it up again before the next resync. |
| `HCPOrphanedProbe` | A probe fails, is marked and created anew. While both are listed the cluster is deleted; `DeleteProbe` finds the terminating one first, marks it again and reports success, and the finalizer goes in time. The new probe stays. |
| `HCPHealthLost` | The reset after a failed health check cannot be written; the next success completes the old count. |

### Behaviour outside the passing instances

The constants of the passing runs leave out cases in which the code does not
keep a property. Each can be seen by changing a constant of a run, or the
property as said:

* A spec of the rhobs type in `RouteMonitorSafety`: `QuietServiceMonitor` fails. A
  monitor is deleted and created again; the new one takes its predecessor's
  ServiceMonitor, still in the cache, for its own; the garbage collector removes
  it, and the kind is not watched.
* `PrevFinalizerKey` as the only initial finalizer in `RouteMonitorLive`:
  `DeletionCompletes` fails. A monitor that carries only the previous finalizer
  when its deletion is requested is never released.
* `QuietPrometheusRule` without `misread`, in `RouteMonitorSafety` and in
  `ClusterUrlMonitor`: a rule is deleted because the spec says so and wanted again at
  once; the cache still shows it, nothing is created, and rules are not watched.
* `OnlyCrossedServiceEmpty` without `crossed`, in `ExporterTornDown`: the race of that
  run, caught half way. The Deployment goes between the steps in which the other
  controller finds it and puts up the Service, although "A Service should not point
  to an empty target (Deployment)". With lagging caches of the parts one controller
  alone can do it.
* `HealthInformerLags = TRUE` with `MaxFaults = 0` in `HCPHealthLost`:
  `HealthyInARow` fails without any failed call. The reset after a failed check is
  made from a copy that is behind and refused; the next success completes the old
  count.
* A specification in `HCPDynatrace` without an ID: `NoOrphanedDynatrace` fails, since
  the monitors are looked up by the ID.
* `EventuallyServed` without `OwnsUnwatched`: a hosted
  cluster's monitor that is created anew takes its predecessor's ServiceMonitor
  for its own and loses it to the garbage collector, unnoticed.
* `PrevFinalizerKey` alone in `InitialFinalizers` of `ClusterUrlMonitor`:
  `DeletionCompletes` fails. Removing the finalizer looks for the current key
  only, and the reconcile that goes on to set it is refused for ever.

Known from the code and visible in the models, without a property of their own:

* An edit of `domainRef` from the cluster's own domain to the hosted cluster's
  leaves the ServiceMonitor of the old kind, and the rule, in place.
* In an operator whose only service is Dynatrace, a ConfigMap that is gone or
  cannot be read at the moment of a deletion releases the cluster and leaves its
  Dynatrace monitors (`released = "unconfigured"`).
* `main.go` drops a malformed URL of the ConfigMap so that it "disables RHOBS probe
  operations". Every reconcile merges the ConfigMap again, takes the URL up and fails
  on it; a deletion is held for 15 minutes.
* A ConfigMap can switch `onlyPublic` and `skip` on but not off, although
  `main.go` speaks of an override.
* If `shouldEnableHCP` cannot see the resource at start, the controller stays
  off until the next restart, and deletions of HostedControlPlanes wait for it.

Two more follow from the same decisions: a rule whose reference was not recorded
also survives an edit to `skipPrometheusRule`, and the exporter stays without
users when neither of two monitors is the last as it looks, or one is deleted
before it gets its finalizer. The periodic resync (every 10 hours) would repair
the rule, the ServiceMonitor and the exporter in the end; in `RouteMonitor` a
resync is an event that may happen, not one that is waited for.

### Bounds

`MaxEdits` bounds what users and the outside world do, `MaxFaults` failed calls,
restarts and resyncs. One name suffices for `RouteMonitor`, `ClusterUrlMonitor`
and `HostedControlPlane`: reconciles of different names share nothing but the
exporter. Three to five edits cover create, edit or delete, and create again, in
every interleaving with the steps of a reconcile. The exporter needs two
monitors, one that goes and one that comes, and in `ExporterShared` a third, so that
one kind has two. Two probe identities and `Conflicting = {"active", "failed"}` allow
one terminating and one live probe, as after every probe that is created anew; two
Dynatrace monitors, in `HCPDynatrace`, allow one in excess. The
two states of the cluster in `ClusterUrlMonitor` differ in everything the
controller reads: the one serves both kinds of monitors, in the other the
Infrastructure is unreadable and the hosted cluster has another domain and is not
available. The number of health checks (5 in the code) is 2
or 3 where they are the point, which still allows a failure in the middle, and 1 or 2
elsewhere. Nothing
else is bounded: health checks may fail at any time, and a
service that is down stays down as long as it likes. Deadlock is not checked, since the system stops when users do.

### Fairness

`FairSpec` assumes that a worker takes what is queued and goes on with a
reconcile, that timers fire and watches deliver, that the garbage collector
collects, that agents remove terminating probes, and that time passes. This is
what controller-runtime and Kubernetes provide. Users, failures and restarts
are under no fairness, and neither service need ever come back. Two assumptions
are about others: `ForeignRelease` says that another controller lets a monitor
go in the end, without which no deletion can complete; `WF` of the garbage
collector is what Kubernetes promises. Properties that speak of a cluster that
stays wanted (`<>[]Wanted` and the like) need it to be so from some point on: the
objects of the cluster are polled, so a moment is not enough.

## 4. Proofs

Every invariant of the passing runs, and every action property and refinement, is
also a theorem. They hold for all values of the constants
that the module's assumption allows: any number of specs, Routes, probes and
monitors, any bounds. The assumptions (`RouteMonitorAssumption` and its like) say
what kind of values the constants are. Two kinds of clauses are about the logic rather than the code:
`NoObj` is not an object, and the empty string (an unset field) is a string.

No theorem assumes that a cache is current, that one controller runs alone, that
calls succeed or that the API refuses a second probe. Where one of these makes the
difference, the property says by a history variable (`misread`, `crossed`,
`overlooked`, `passed`) which states it speaks of; section 3 says what happens in the
others, in a run that expects a violation or in words. The theorems that need more of their constants, or speak of one kind
of monitor only:

| Hypothesis | Of | Why |
|---|---|---|
| `~obj.spec.rhobs` | `ServiceMonitorInPlace` of RouteMonitors | ServiceMonitors of that kind are not watched, see above |
| `\A s \in HCPSpecs : s.id` | `NoDynatraceOrphaned` | the monitors are looked up by the cluster ID; violated without one, see above |

### RouteMonitor

* `TypeCorrect`: `Spec => []TypeOK`.
* `DeploysUnderFinalizer`: `Spec => []DeployUnderFinalizer`. The property is not
  inductive: the decision to deploy rests on the cache. `IndInv` adds that a copy
  is never newer than the stored object and equals it when revisions agree
  (`CopyOf`); that a cached monitor with the finalizer and without a deletion
  request vouches for the stored one (`CacheVouches`); and that a reconcile that
  removes has a copy under deletion which the cache does not fall behind
  (`RemovingCopy`). The last is why removing the finalizer, the one step that
  could break `CacheVouches`, does not.
* `UserIntentKept`: `Spec => KeepsUserIntent`, from `CopyOf`: an accepted write
  is made from a copy equal to the stored object, and each of them leaves spec
  and deletion request alone.
* `RefinesLife`: `Spec => ImplementsLife`. Every step of the controller, its
  faults and its users maps to one of `MonitorLife` or to a stutter: in a state of
  `IndInv` a reconcile that is about to write a dependent finds the finalizer on
  the stored monitor, so `PutUp` is allowed; a release is a write from a copy under
  deletion, equal to what is stored.
* `ServiceMonitorInPlace`, `PrometheusRuleInPlace`, `ErrorStatusTrue`: the three
  Quiet properties. They speak of the end of a reconcile, so `QuietInv` says what
  has been achieved by each step of it: what the copy holds (`Prepared`), the
  status (`Recorded`), the ServiceMonitor (`Placed`), the rule (`Ruled`). These hold
  only while the monitor is `Settled`, that is cached as stored and not queued:
  any event that could disturb them unsettles it. That it does rests on `Work` (a
  reconcile works on the cached monitor, or another is due) and `Caches` (a
  dependent's copy is current, or its event is under way). `ErrorStatusTrue`
  needs one fact of its own, `HostKnown`: `SetErrorStatus` leaves a recorded error
  in place when a different one occurs, and a status would be wrong for ever if
  two could occur. `ErrNoHost` cannot: without a URL no reconcile gets that far.
  In `PrometheusRuleInPlace` the rule may be anything while `misread`; the theorem
  says that nothing else (conflicts, lost status updates, lagging caches of monitors
  and ServiceMonitors, restarts) has that effect.

### ClusterUrlMonitor

* `TypeCorrect`, and `RuleBudget`: `Spec => []RuleHasErrorBudget`.
* `RefinesLife`: the argument is that of RouteMonitors. It has to bear two things
  more: the deletion that runs on into `EnsureFinalizerSet`, whose write the API
  server refuses (`CopyUsed`: the finalizer is set where there is none), and a
  monitor that stays after its release because others hold it.
* `ServiceMonitorInPlace`, `PrometheusRuleInPlace`: as above. Here a lagging cache of
  the watched ServiceMonitors does no harm even across deletion and creation of a
  monitor: the event queues the name.

### BlackBoxExporter

* `TypeCorrect`, for monitors of both kinds.
* `ServiceKeepsTarget`: `Spec => []OnlyCrossedServiceEmpty`. `Building` says which
  parts are up, or crossed, at each step of each worker. It carries over a failure in
  the middle because parts are put up in one order and taken down in the reverse one,
  and over the steps of the other worker because a step that takes a part away from
  under it records that.
* `ExporterServes`: `Spec => []OnlyCrossedPartsMissing`. The property speaks of all
  monitors, a worker of one. The invariant is that every monitor which is neither
  queued nor at work has had what its cached state asks for (`Settlement`). For a live
  one that means an exporter of which no part is missing without being crossed, and
  which no worker of its own kind is about to take down: one that has listed the
  monitors already has this one on its list (`Vouched`, `AtWork`).

### HostedControlPlane

`HCPInv` plays the part of `IndInv`: types, copies (`Copies`), and what a copy with
the finalizer vouches for (`Vouched`). On it rest:

* `FallsBack`: `Spec => FallsBackToStart`. A reconcile without a URL runs in an
  operator that started without one (`StartedURL`), which a restart could break
  only if a reconcile survived it.
* `ProbesAccountedFor`: `Spec => []OnlyOverlookedProbesLeft`. A probe is created only
  by a reconcile whose object still carries the finalizer (`Vouched`); a reconcile past
  the request to delete the probe that is not late has seen it answered, so every live
  probe was listed next to the one marked (`ProbesKept`). An answer that is lost leaves
  the reconcile before that step, and no step but `CreateProbe` makes a probe live.
* `NoDynatraceOrphaned`: no step after the deletion of the monitors is reached
  while one is left (`MonitorsKept`), though requests may be carried out unanswered.
* `HealthyAfterChecks`: `Spec => []HealthyAfterPasses`. The count in the ConfigMap never
  exceeds the checks passed since the last failure on record; an update made from a
  copy that is not current is refused; and a cached count that is complete is right
  however old it is, since no check is made after the last (`Counted`).

The invariants were checked with TLC on the instances of the runs before they were
proved.

### Only model-checked

Liveness: `DeletionCompletes`, `ComesToRest`, `EventuallyServed`,
`EventuallyOneMonitor`, `EventuallyInside`, `EventuallyProbed`, `LimitedSupportClears`.
It needs `ENABLED` and fairness, which the prover does not handle. The runs that
expect a violation are instances by nature.

## 5. Plan

Done: all modules of section 2, the refinement of `MonitorLife` by both monitor
controllers, and the theorems of section 4.

Left:

* The composition of `HostedControlPlane` with `RouteMonitor` on the internal
  RouteMonitor, in place of `MonitorRemoved`.
* Requests to the two services that are carried out after the reconcile that sent
  them has gone on.

## 6. Not modelled

Flag parsing, scheme, leader election and health endpoints of the manager
(set-up code without state); generated code (`zz_generated.deepcopy.go`);
metrics; the integration test helper in `int/`; the contents of the exporter's
Deployment, with the version comparison and the private load balancer check that
choose them; OIDC tokens (a client is made for every call, so its token cache is
never shared and the lock in `client.go` never contended); platforms other than
AWS, for which `getClusterRegion` has no provision.
