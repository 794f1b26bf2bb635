------------------------- MODULE ClusterUrlMonitor -------------------------
(***************************************************************************)
(* The ClusterUrlMonitor controller (controllers/clusterurlmonitor)        *)
(* working on one ClusterUrlMonitor name.  As in RouteMonitor, reads come  *)
(* from informer caches and a reconcile is a sequence of steps with one    *)
(* write each; what differs is that the URL comes from objects of the      *)
(* cluster, that the kind of the ServiceMonitor follows spec.domainRef, and*)
(* that a monitor under deletion goes on to EnsureFinalizerSet when it has *)
(* no finalizer to remove.                                                 *)
(*                                                                         *)
(* The ServiceMonitors of both API groups and the PrometheusRule are one   *)
(* function from kinds to objects.  The objects of the cluster (the        *)
(* Infrastructure, the ClusterVersion, the HostedControlPlane and the      *)
(* HostedCluster) are only read; none of them is watched.                  *)
(***************************************************************************)
EXTENDS MonitorCommon, Sequences

CONSTANTS
    Specs,              \* the specs users give the monitor
    Clusters,           \* the states of the cluster's objects
    NoObj,              \* "not found"; for a URL also: it does not parse
    InitialFinalizers,  \* finalizers a monitor may carry before the operator sees it
    MaxEdits,           \* bound on what users and the cluster do
    MaxFaults           \* bound on failed calls and restarts

Ref       == "monitor"     \* the monitor's own NamespacedName, the only one written
ForeignFinalizer == "foreign"   \* of another controller
AllFinalizers == FinalizerKeys \cup {ForeignFinalizer}
ServiceMonitors == {"coreos", "rhobs"}
Kinds     == ServiceMonitors \cup {"rule"}
Watched   == {"coreos"}    \* SetupWithManager

Host == Seq(STRING) \ {<<>>}   \* the labels of a host name
URL  == [affix : STRING, domain : Host]
ClusterUrlMonitorSpec ==
    [slo : {NoSlo} \cup SloSpec, skip : BOOLEAN, hcp : BOOLEAN, affix : STRING]
Cluster == [infra : Host \cup {NoObj}, version : BOOLEAN, hcps : Nat, annotated : BOOLEAN,
            hosted : Host \cup {NoObj}, available : BOOLEAN]

Monitor   == [uid : Nat, rv : Nat, deleting : BOOLEAN, fin : SUBSET AllFinalizers, spec : Specs,
              smRef : {NoRef, Ref}, prRef : {NoRef, Ref}, err : MonitorErrors]
NoOwner   == 0
Dependent == [rv : Nat, owner : Nat, spec : [url : URL, slo : Int]]

ASSUME ClusterUrlMonitorAssumption ==
    /\ Specs \subseteq ClusterUrlMonitorSpec
    /\ Clusters \subseteq Cluster
    /\ InitialFinalizers \subseteq SUBSET {PrevFinalizerKey, ForeignFinalizer}
    /\ MaxEdits \in Nat /\ MaxFaults \in Nat
    /\ NoURL \notin URL
    /\ NoSlo \notin SloSpec
    /\ NoObj \notin Monitor \cup Dependent \cup Host
    /\ "" \in STRING  \* true of TLA+, and unknown to the provers

VARIABLES
    obj,      \* the ClusterUrlMonitor on the API server
    cumCache, \* and in the informer cache
    queued, pc,
    cum,      \* the reconcile's copy
    deps,     \* its dependents on the API server
    depCache, \* and in the informer caches
    events,   \* the kinds with changes that an informer has yet to deliver
    misread,  \* history: the last step on the rule went by a cached copy that was behind
    cluster,  \* the objects of the cluster
    rev, edits, faults

vars   == <<obj, cumCache, queued, pc, cum, deps, depCache, events, misread, cluster, rev,
            edits, faults>>
budget == <<edits, faults>>
dependents == <<deps, depCache, events>>

Deploying == {"serviceMonitor", "smRef", "prometheusRule", "prRef"}
Removing  == {"deleteServiceMonitor", "deletePrometheusRule", "removeFinalizer"}

TypeOK ==
    /\ obj \in Monitor \cup {NoObj} /\ cumCache \in Monitor \cup {NoObj}
    /\ cum \in Monitor \cup {NoObj}
    /\ queued \in BOOLEAN
    /\ pc \in {"idle", "setFinalizer"} \cup Deploying \cup Removing
    /\ deps \in [Kinds -> Dependent \cup {NoObj}]
    /\ depCache \in [Kinds -> Dependent \cup {NoObj}]
    /\ events \in SUBSET Kinds
    /\ misread \in BOOLEAN
    /\ cluster \in Clusters
    /\ rev \in Nat
    /\ edits \in 0..MaxEdits /\ faults \in 0..MaxFaults

Init ==
    /\ obj = NoObj /\ cumCache = NoObj /\ cum = NoObj
    /\ queued = FALSE /\ pc = "idle"
    /\ deps = [k \in Kinds |-> NoObj] /\ depCache = deps /\ events = {}
    /\ misread = FALSE
    /\ cluster \in Clusters
    /\ rev = 0 /\ edits = 0 /\ faults = 0

----------------------------------------------------------------------------
(* How a reconcile ends and goes on, and Client.Update of the monitor.     *)

Stop    == pc' = "idle" /\ cum' = NoObj /\ UNCHANGED queued

\* Mutant of Requeue: the error is logged and swallowed.
RequeueSwallowed == pc' = "idle" /\ cum' = NoObj /\ UNCHANGED queued

Requeue == pc' = "idle" /\ cum' = NoObj /\ queued' = TRUE
Goto(l) == pc' = l /\ UNCHANGED <<cum, queued>>

Fresh(stored, copy) == stored # NoObj /\ stored.rv = copy.rv

\* An object that is being deleted goes with its last finalizer.
Store(new) ==
    \/ /\ new.deleting /\ new.fin = {}
       /\ obj' = NoObj /\ UNCHANGED rev
    \/ /\ ~(new.deleting /\ new.fin = {})
       /\ IF new = obj THEN UNCHANGED <<obj, rev>>
          ELSE obj' = [new EXCEPT !.rv = rev + 1] /\ rev' = rev + 1

\* The API server also refuses a new finalizer on an object under deletion.
Accepted(new) == Fresh(obj, cum) /\ (obj.deleting => new.fin \subseteq obj.fin)

UpdateMonitorResource(new) ==
    IF Accepted(new) THEN Store(new) /\ Stop
                     ELSE UNCHANGED <<obj, rev>> /\ Requeue

----------------------------------------------------------------------------
(* Reconcile: GetClusterUrlMonitor, EnsureMonitorAndDependenciesAbsent and *)
(* EnsureFinalizerSet.                                                     *)

\* Mutant of FirstStep: dependents are put up before the finalizer is set.
FirstStepWithoutFinalizer(m) ==
    IF WasDeleteRequested(m) THEN "deleteServiceMonitor" ELSE "serviceMonitor"

FirstStep(m) ==
    IF WasDeleteRequested(m) THEN "deleteServiceMonitor"
    ELSE IF SetFinalizer(m, FinalizerKey).changed THEN "setFinalizer"
    ELSE "serviceMonitor"

GetClusterUrlMonitor ==
    /\ pc = "idle" /\ queued
    /\ queued' = FALSE
    /\ cum' = cumCache
    /\ pc' = IF cumCache = NoObj THEN "idle" ELSE FirstStep(cumCache)
    /\ UNCHANGED <<obj, cumCache, dependents, misread, cluster, rev, budget>>

EnsureFinalizerSet ==
    /\ pc = "setFinalizer"
    /\ UpdateMonitorResource(DeleteFinalizer(SetFinalizer(cum, FinalizerKey).obj, PrevFinalizerKey).obj)
    /\ UNCHANGED <<cumCache, dependents, misread, cluster, budget>>

----------------------------------------------------------------------------
(* Where the URL comes from.                                               *)

\* Cut at the first dot: a host of one label leaves an empty name behind it.
removeSubdomain(sub, host) ==
    LET baseName == IF Len(host) = 1 THEN <<"">> ELSE Tail(host)
    IN  IF Head(host) = sub THEN baseName ELSE <<Head(host)>> \o baseName

\* The domains GetClusterDomain may return for c: none if it fails, else one.
Domains(spec, c) ==
    IF spec.hcp
    THEN IF c.hcps = 1 /\ c.annotated /\ c.hosted # NoObj
         THEN {removeSubdomain("rosa", c.hosted)} ELSE {}
    ELSE IF c.infra # NoObj THEN {removeSubdomain("api", c.infra)} ELSE {}

\* The cluster ID can be read, and a hosted cluster has its version available.
ClusterReady(spec, c) == IF spec.hcp THEN c.hcps = 1 /\ c.available ELSE c.version

ClusterUrl(spec, d) == [affix |-> spec.affix, domain |-> d]

----------------------------------------------------------------------------
(* Dependents: what a create, update or delete makes of the stored object, *)
(* given the cached one; the empty set is an error.                        *)

Deployed(stored, seen, new) ==
    IF seen = NoObj THEN IF stored = NoObj THEN {new} ELSE {}
    ELSE IF seen.spec = new.spec THEN {stored}
    ELSE IF Fresh(stored, seen) THEN {[seen EXCEPT !.rv = new.rv, !.spec = new.spec]}
    ELSE {}

Deleted(ref, stored, seen) ==
    IF ref = NoRef \/ seen = NoObj THEN {stored}
    ELSE IF stored = NoObj THEN {} ELSE {NoObj}

WriteDependent(k, new) ==
    /\ deps' = [deps EXCEPT ![k] = new]
    /\ events' = IF new = deps[k] THEN events ELSE events \cup {k}
    /\ UNCHANGED depCache

Deploy(k, spec, owner, Ok) ==
    LET new == [rv |-> rev + 1, owner |-> owner, spec |-> spec]
    IN  \/ \E d \in Deployed(deps[k], depCache[k], new) :
              /\ WriteDependent(k, d)
              /\ rev' = IF d = deps[k] THEN rev ELSE rev + 1
              /\ Ok
        \/ /\ Deployed(deps[k], depCache[k], new) = {}
           /\ UNCHANGED <<dependents, rev>> /\ Requeue

Delete(k, ref, next) ==
    \/ \E d \in Deleted(ref, deps[k], depCache[k]) : WriteDependent(k, d) /\ Goto(next)
    \/ /\ Deleted(ref, deps[k], depCache[k]) = {}
       /\ UNCHANGED dependents /\ Requeue

----------------------------------------------------------------------------
(* ServiceMonitors: domainRef selects the API group.                       *)

Kind(spec) == IF spec.hcp THEN "rhobs" ELSE "coreos"

\* Mutant of ServiceMonitorUrl: the domain is left out.
ServiceMonitorUrlBare(spec, d) == [affix |-> spec.affix, domain |-> <<>>]

ServiceMonitorUrl(spec, d) == ClusterUrl(spec, d)

EnsureServiceMonitorExists ==
    /\ pc = "serviceMonitor"
    /\ \/ \E d \in Domains(cum.spec, cluster) :
             /\ ClusterReady(cum.spec, cluster)
             /\ Deploy(Kind(cum.spec),
                       [url |-> ServiceMonitorUrl(cum.spec, d), slo |-> NoParsedSlo], cum.uid,
                       Goto(IF SetResourceReference(cum.smRef, Ref).updated
                            THEN "smRef" ELSE "prometheusRule"))
       \/ /\ Domains(cum.spec, cluster) = {} \/ ~ClusterReady(cum.spec, cluster)
          /\ Requeue /\ UNCHANGED <<dependents, rev>>
    /\ UNCHANGED <<obj, cumCache, misread, cluster, budget>>

SetServiceMonitorRef ==
    /\ pc = "smRef"
    /\ UpdateMonitorResource([cum EXCEPT !.smRef = SetResourceReference(@, Ref).ref])
    /\ UNCHANGED <<cumCache, dependents, misread, cluster, budget>>

----------------------------------------------------------------------------
(* PrometheusRules.  The URL is never empty, so only the SLO can be wrong. *)

Parsed(spec)    == ParseMonitorSLOSpecs(ClusterUrl(spec, <<"">>), spec.slo)
WantsRule(spec) == ~spec.skip /\ ~spec.hcp /\ Parsed(spec).slo # NoParsedSlo

\* A monitor for a hosted cluster keeps what rule it has.
EnsurePrometheusRuleExists ==
    /\ pc = "prometheusRule"
    /\ LET error == SetErrorStatus(cum.err, Parsed(cum.spec).err)
           plain == ~cum.spec.skip /\ ~cum.spec.hcp
           known == Domains(cum.spec, cluster) # {}
       IN  \/ /\ cum.spec.skip
              /\ Delete("rule", cum.prRef, "prRef") /\ UNCHANGED <<obj, rev>>
           \/ /\ ~cum.spec.skip /\ cum.spec.hcp
              /\ Stop /\ UNCHANGED <<obj, rev, dependents>>
           \/ /\ plain /\ ~known
              /\ Requeue /\ UNCHANGED <<obj, rev, dependents>>
           \/ /\ plain /\ known /\ error.changed
              /\ UpdateMonitorResource([cum EXCEPT !.err = error.status])
              /\ UNCHANGED dependents
           \/ /\ plain /\ known /\ ~error.changed /\ ~WantsRule(cum.spec)
              /\ Delete("rule", cum.prRef, "prRef") /\ UNCHANGED <<obj, rev>>
           \/ /\ known /\ ~error.changed /\ WantsRule(cum.spec)
              /\ \E d \in Domains(cum.spec, cluster) :
                    Deploy("rule", [url |-> ClusterUrl(cum.spec, d), slo |-> Parsed(cum.spec).slo],
                           NoOwner,
                           IF SetResourceReference(cum.prRef, Ref).updated THEN Goto("prRef")
                                                                           ELSE Stop)
              /\ UNCHANGED obj
    /\ misread' = (depCache["rule"] # deps["rule"])
    /\ UNCHANGED <<cumCache, cluster, budget>>

SetPrometheusRuleRef ==
    /\ pc = "prRef"
    /\ LET ref == IF WantsRule(cum.spec) THEN Ref ELSE NoRef
       IN  UpdateMonitorResource([cum EXCEPT !.prRef = SetResourceReference(@, ref).ref])
    /\ UNCHANGED <<cumCache, dependents, misread, cluster, budget>>

----------------------------------------------------------------------------
(* EnsureMonitorAndDependenciesAbsent.  Between its first two steps it     *)
(* may take the exporter down, which is module BlackBoxExporter's.         *)

DeleteServiceMonitorDeployment ==
    /\ pc = "deleteServiceMonitor"
    /\ Delete(Kind(cum.spec), cum.smRef, "deletePrometheusRule")
    /\ UNCHANGED <<obj, cumCache, misread, cluster, rev, budget>>

DeletePrometheusRuleDeployment ==
    /\ pc = "deletePrometheusRule"
    /\ Delete("rule", cum.prRef, "removeFinalizer")
    /\ UNCHANGED <<obj, cumCache, misread, cluster, rev, budget>>

\* Mutant of RemoveFinalizer: the reconcile ends where the finalizer should go.
RemoveFinalizerForgotten ==
    /\ pc = "removeFinalizer"
    /\ Stop /\ UNCHANGED <<obj, rev>>
    /\ UNCHANGED <<cumCache, dependents, misread, cluster, budget>>

\* Without the finalizer the reconcile continues with EnsureFinalizerSet.
RemoveFinalizer ==
    /\ pc = "removeFinalizer"
    /\ LET d == DeleteFinalizer(cum, FinalizerKey)
       IN  IF d.changed THEN UpdateMonitorResource(DeleteFinalizer(d.obj, PrevFinalizerKey).obj)
                        ELSE Goto("setFinalizer") /\ UNCHANGED <<obj, rev>>
    /\ UNCHANGED <<cumCache, dependents, misread, cluster, budget>>

Reconcile ==
    \/ GetClusterUrlMonitor \/ EnsureFinalizerSet
    \/ EnsureServiceMonitorExists \/ SetServiceMonitorRef
    \/ EnsurePrometheusRuleExists \/ SetPrometheusRuleRef
    \/ DeleteServiceMonitorDeployment \/ DeletePrometheusRuleDeployment \/ RemoveFinalizer

----------------------------------------------------------------------------
(* Caches, watches and the garbage collector.                              *)

SyncMonitor ==
    /\ cumCache # obj
    /\ cumCache' = obj /\ queued' = TRUE
    /\ UNCHANGED <<obj, pc, cum, dependents, misread, cluster, rev, budget>>

\* Mutant of SyncDependent: owned ServiceMonitors are not watched.
SyncDependentUnwatched(k) ==
    /\ k \in events
    /\ depCache' = [depCache EXCEPT ![k] = deps[k]] /\ events' = events \ {k}
    /\ UNCHANGED <<obj, cumCache, queued, pc, cum, deps, misread, cluster, rev, budget>>

SyncDependent(k) ==
    /\ k \in events
    /\ depCache' = [depCache EXCEPT ![k] = deps[k]] /\ events' = events \ {k}
    /\ queued' = (queued \/ k \in Watched)
    /\ UNCHANGED <<obj, cumCache, pc, cum, deps, misread, cluster, rev, budget>>

\* A ServiceMonitor whose owner is gone.
GarbageCollect(k) ==
    /\ deps[k] # NoObj
    /\ ~(obj # NoObj /\ obj.uid = deps[k].owner)
    /\ WriteDependent(k, NoObj)
    /\ UNCHANGED <<obj, cumCache, queued, pc, cum, misread, cluster, rev, budget>>

\* Another controller lets a monitor under deletion go.
ForeignRelease ==
    /\ obj # NoObj
    /\ obj.deleting /\ ForeignFinalizer \in obj.fin
    /\ Store([obj EXCEPT !.fin = @ \ {ForeignFinalizer}])
    /\ UNCHANGED <<cumCache, queued, pc, cum, dependents, misread, cluster, budget>>

----------------------------------------------------------------------------
(* Faults, users and the cluster.                                          *)

Fault == faults < MaxFaults /\ faults' = faults + 1 /\ UNCHANGED edits
Edit  == edits < MaxEdits /\ edits' = edits + 1 /\ UNCHANGED faults

CallFails ==
    /\ pc # "idle"
    /\ Fault /\ Requeue
    /\ UNCHANGED <<obj, cumCache, dependents, misread, cluster, rev>>

Restart ==
    /\ Fault
    /\ pc' = "idle" /\ cum' = NoObj
    /\ cumCache' = obj /\ depCache' = deps /\ events' = {}
    /\ queued' = (obj # NoObj)
    /\ UNCHANGED <<obj, deps, misread, cluster, rev>>

CreateMonitor ==
    /\ obj = NoObj /\ Edit
    /\ \E s \in Specs, f \in InitialFinalizers :
          obj' = [uid |-> rev + 1, rv |-> rev + 1, deleting |-> FALSE, fin |-> f, spec |-> s,
                  smRef |-> NoRef, prRef |-> NoRef, err |-> NoErr]
    /\ rev' = rev + 1
    /\ UNCHANGED <<cumCache, queued, pc, cum, dependents, misread, cluster>>

EditSpec ==
    /\ obj # NoObj /\ Edit
    /\ \E s \in Specs \ {obj.spec} : obj' = [obj EXCEPT !.spec = s, !.rv = rev + 1]
    /\ rev' = rev + 1
    /\ UNCHANGED <<cumCache, queued, pc, cum, dependents, misread, cluster>>

DeleteMonitor ==
    /\ obj # NoObj /\ Edit
    /\ ~obj.deleting
    /\ Store([obj EXCEPT !.deleting = TRUE])
    /\ UNCHANGED <<cumCache, queued, pc, cum, dependents, misread, cluster>>

ChangeCluster ==
    /\ Edit
    /\ cluster' \in Clusters \ {cluster}
    /\ UNCHANGED <<obj, cumCache, queued, pc, cum, dependents, misread, rev>>

Users == CreateMonitor \/ EditSpec \/ DeleteMonitor \/ ChangeCluster

Next ==
    \/ Reconcile
    \/ SyncMonitor \/ \E k \in Kinds : SyncDependent(k)
    \/ \E k \in ServiceMonitors : GarbageCollect(k)
    \/ ForeignRelease
    \/ CallFails \/ Restart
    \/ Users

Spec == Init /\ [][Next]_vars

\* As for RouteMonitor; an error requeues, so the cluster's objects are polled
\* until they can be read.
Fairness ==
    /\ WF_vars(Reconcile)
    /\ WF_vars(SyncMonitor) /\ \A k \in Kinds : WF_vars(SyncDependent(k))
    /\ \A k \in ServiceMonitors : WF_vars(GarbageCollect(k))
    /\ WF_vars(ForeignRelease)

FairSpec == Spec /\ Fairness

----------------------------------------------------------------------------
(* Properties.                                                             *)

LifeOf(m) == IF m = NoObj THEN "absent" ELSE Phase(m)

Life == INSTANCE MonitorLife WITH
    Dependents <- Kinds, Missing <- NoObj, life <- LifeOf(obj)

\* The controller keeps the promise of MonitorLife, although its reconcile of a
\* monitor under deletion runs on into EnsureFinalizerSet, and although others
\* hold a released monitor back: no dependent is put up or rewritten without the
\* finalizer, and no monitor returns from its deletion (Reconcile).
ImplementsLife == Life!Spec

\* Nothing is left to do: no reconcile runs or is due and every cache is current.
Quiet  == pc = "idle" /\ ~queued /\ cumCache = obj /\ events = {}
Served == Quiet /\ obj # NoObj /\ ~obj.deleting

\* The URLs the monitor may have had: the cluster's objects are not watched.
Urls(spec) == {ClusterUrl(spec, d) : d \in UNION {Domains(spec, c) : c \in Clusters}}

HasServiceMonitor ==
    /\ deps[Kind(obj.spec)] # NoObj
    /\ deps[Kind(obj.spec)].spec.url \in Urls(obj.spec)

\* Once everything is quiet a monitor of the cluster's own domain has a referenced
\* ServiceMonitor that probes its URL, also after edits of domainRef and after a
\* predecessor's ServiceMonitor was collected ("Takes care that right
\* ServiceMonitor for the defined ClusterURLMonitor are in place").
QuietServiceMonitor ==
    (Served /\ ~obj.spec.hcp) => obj.smRef = Ref /\ HasServiceMonitor

\* The rule says what the monitor says.
HasPrometheusRule ==
    /\ deps["rule"] # NoObj
    /\ deps["rule"].spec.url \in Urls(obj.spec)
    /\ deps["rule"].spec.slo = Parsed(obj.spec).slo

\* Once everything is quiet a monitor that asks for a PrometheusRule references it
\* and has it, with its URL and SLO, unless the step that settled it went by a
\* cached rule that was behind; one whose rules are skipped, or that has no valid
\* SLO, references none (EnsurePrometheusRuleExists; rules are not watched).
QuietPrometheusRule ==
    Served => IF WantsRule(obj.spec)
              THEN obj.prRef = Ref /\ (misread \/ HasPrometheusRule)
              ELSE (obj.spec.skip \/ ~obj.spec.hcp) => obj.prRef = NoRef

\* Whatever the user asks for, the objective of a rule is above 90% and leaves an
\* error budget, of which the alerts fire at a multiple (IsValid, alertThreshold).
RuleHasErrorBudget ==
    deps["rule"] # NoObj => deps["rule"].spec.slo \in (90 * PctScale + 1)..(100 * PctScale - 1)

\* A monitor whose deletion is requested goes away, also when another controller
\* holds it back longer than the operator, whose update for the finalizer is then
\* refused again and again, and whatever has become of the cluster it names
\* (EnsureMonitorAndDependenciesAbsent comes before all that needs the domain).
DeletionCompletes ==
    (obj # NoObj /\ obj.deleting) ~> (obj = NoObj \/ ~obj.deleting)

\* The cluster's objects can be read, and a hosted cluster is available.
Servable ==
    /\ obj # NoObj /\ ~obj.deleting
    /\ Domains(obj.spec, cluster) # {} /\ ClusterReady(obj.spec, cluster)

\* A ServiceMonitor that is seen but not watched belongs to the monitor itself, and
\* not to a predecessor with whom it goes.
OwnsUnwatched ==
    (depCache["rhobs"] # NoObj /\ obj # NoObj) => depCache["rhobs"].owner = obj.uid

\* A monitor created before its cluster is up, of which nothing is watched, gets
\* its ServiceMonitor once the cluster is (GetClusterDomain,
\* isClusterVersionAvailable, and the requeue when they fail).
EventuallyServed ==
    (<>[]Servable /\ []OwnsUnwatched) => <>[](obj # NoObj /\ HasServiceMonitor)
=============================================================================
