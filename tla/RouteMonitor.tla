---------------------------- MODULE RouteMonitor ----------------------------
(***************************************************************************)
(* The RouteMonitor controller (controllers/routemonitor) working on one   *)
(* RouteMonitor name, with the ServiceMonitor and PrometheusRule helpers   *)
(* it calls (pkg/servicemonitor, pkg/alert).                               *)
(*                                                                         *)
(* The manager's client reads from informer caches and writes to the API   *)
(* server.  Each object therefore appears twice, as the API server holds   *)
(* it and as the cache last saw it; a cache catches up in steps of its own *)
(* and may skip intermediate versions.  A reconcile is a sequence of steps,*)
(* one for each write to the API server, with the cached reads that lead   *)
(* to it; between two steps users, caches and the garbage collector move.  *)
(* controller-runtime runs one reconcile of a name at a time and keeps the *)
(* name in its queue at most once.                                         *)
(***************************************************************************)
EXTENDS MonitorCommon, Sequences

CONSTANTS
    Specs,               \* the specs users give the monitor
    Routes,              \* the states of the Route that spec.route names
    NoObj,               \* "not found"
    InitialFinalizers,   \* finalizers a monitor may carry before the operator sees it
    Meddled,             \* the kinds whose ServiceMonitors somebody deletes by hand
    MaxEdits,            \* bound on what users do
    MaxFaults            \* bound on failed calls, restarts and resyncs

Kinds == {"coreos", "rhobs"}
Ref   == "monitor"       \* the monitor's own NamespacedName, the only one written

URL  == [https : BOOLEAN, host : STRING, port : Nat, suffix : STRING]
RouteMonitorSpec ==
    [slo : {NoSlo} \cup SloSpec, skip : BOOLEAN, rhobs : BOOLEAN,
     insecure : BOOLEAN, named : BOOLEAN, port : Nat, suffix : STRING]
Route == [hosts : Seq(STRING), tls : BOOLEAN]

Monitor == [uid : Nat, rv : Nat, deleting : BOOLEAN, fin : SUBSET FinalizerKeys, spec : Specs,
            routeURL : URL \cup {NoURL}, smRef : {NoRef, Ref}, prRef : {NoRef, Ref},
            err : MonitorErrors]
ServiceMonitor == [rv : Nat, owner : Nat,
                   spec : [url : URL \cup {NoURL}, insecure : BOOLEAN]]
PrometheusRule == [rv : Nat, spec : [url : URL \cup {NoURL}, slo : Int]]

ASSUME RouteMonitorAssumption ==
    /\ Specs \subseteq RouteMonitorSpec
    /\ Routes \subseteq Route \cup {NoObj}
    /\ InitialFinalizers \subseteq SUBSET {PrevFinalizerKey}
    /\ Meddled \subseteq Kinds
    /\ MaxEdits \in Nat /\ MaxFaults \in Nat
    /\ NoURL \notin URL
    /\ NoSlo \notin SloSpec
    /\ NoObj \notin Monitor \cup ServiceMonitor \cup PrometheusRule

VARIABLES
    obj,      \* the RouteMonitor on the API server
    rmCache,  \* and in the informer cache
    queued,   \* its name is in the work queue
    pc,       \* the step the reconcile is at
    rm,       \* the reconcile's copy of the RouteMonitor
    sm,       \* the ServiceMonitor of each kind on the API server
    smCache,
    smEvents, \* the kinds with changes that the watch has yet to deliver
    pr,       \* the PrometheusRule on the API server
    prCache,
    misread,  \* history: the last step on the rule went by a cached copy that was behind
    route,    \* the Route
    rev,      \* the API server's revision counter
    edits,
    faults

vars == <<obj, rmCache, queued, pc, rm, sm, smCache, smEvents, pr, prCache, misread, route, rev,
          edits, faults>>
budget == <<edits, faults>>
serviceMonitors == <<sm, smCache, smEvents>>

Deploying == {"routeURL", "serviceMonitor", "smRef", "prometheusRule", "prRef"}
Removing  == {"deleteServiceMonitor", "deletePrometheusRule", "removeFinalizer"}

TypeOK ==
    /\ obj \in Monitor \cup {NoObj}
    /\ rmCache \in Monitor \cup {NoObj}
    /\ rm \in Monitor \cup {NoObj}
    /\ queued \in BOOLEAN
    /\ pc \in {"idle", "setFinalizer"} \cup Deploying \cup Removing
    /\ sm \in [Kinds -> ServiceMonitor \cup {NoObj}]
    /\ smCache \in [Kinds -> ServiceMonitor \cup {NoObj}]
    /\ smEvents \in SUBSET Kinds
    /\ pr \in PrometheusRule \cup {NoObj}
    /\ prCache \in PrometheusRule \cup {NoObj}
    /\ misread \in BOOLEAN
    /\ route \in Route \cup {NoObj}
    /\ rev \in Nat
    /\ edits \in 0..MaxEdits
    /\ faults \in 0..MaxFaults

Init ==
    /\ obj = NoObj /\ rmCache = NoObj /\ rm = NoObj
    /\ queued = FALSE /\ pc = "idle"
    /\ sm = [k \in Kinds |-> NoObj] /\ smCache = sm /\ smEvents = {}
    /\ pr = NoObj /\ prCache = NoObj /\ misread = FALSE
    /\ route \in Routes
    /\ rev = 0 /\ edits = 0 /\ faults = 0

----------------------------------------------------------------------------
(* How a reconcile ends: utilreconcile.Stop and utilreconcile.RequeueWith. *)

Stop    == pc' = "idle" /\ rm' = NoObj /\ UNCHANGED queued
Requeue == pc' = "idle" /\ rm' = NoObj /\ queued' = TRUE
Goto(l) == pc' = l /\ UNCHANGED <<rm, queued>>

(***************************************************************************)
(* Client.Update and Client.Status().Update of the RouteMonitor.  The API  *)
(* server refuses a copy that is not of the current revision, gives no new *)
(* revision to a write that changes nothing, and removes an object that is *)
(* being deleted once its finalizers are gone.                             *)
(***************************************************************************)
\* Mutant of Fresh: the revision is cleared before the update, the last writer wins.
FreshWithoutRevision(stored, copy) == stored # NoObj

Fresh(stored, copy) == stored # NoObj /\ stored.rv = copy.rv

Store(new) ==
    \/ /\ new.deleting /\ new.fin = {}
       /\ obj' = NoObj /\ UNCHANGED rev
    \/ /\ ~(new.deleting /\ new.fin = {})
       /\ IF new = obj THEN UNCHANGED <<obj, rev>>
          ELSE /\ obj' = [new EXCEPT !.rv = rev + 1]
               /\ rev' = rev + 1

UpdateMonitorResource(new) ==
    IF Fresh(obj, rm) THEN Store(new) /\ Stop
             ELSE UNCHANGED <<obj, rev>> /\ Requeue

----------------------------------------------------------------------------
(* Reconcile, GetRouteMonitor and the choice between deletion and upkeep.  *)

\* Mutant of FirstStep: dependents are put up before the finalizer is set.
FirstStepWithoutFinalizer(m) ==
    IF WasDeleteRequested(m) THEN "deleteServiceMonitor" ELSE "routeURL"

FirstStep(m) ==
    IF WasDeleteRequested(m) THEN "deleteServiceMonitor"
    ELSE IF SetFinalizer(m, FinalizerKey).changed THEN "setFinalizer"
    ELSE "routeURL"

\* Mutant of GetRouteMonitor: "not found" is returned as an error.
GetRouteMonitorOrRequeue ==
    /\ pc = "idle" /\ queued
    /\ queued' = (rmCache = NoObj)
    /\ rm' = rmCache
    /\ pc' = IF rmCache = NoObj THEN "idle" ELSE FirstStep(rmCache)
    /\ UNCHANGED <<obj, rmCache, serviceMonitors, pr, prCache, misread, route, rev, budget>>

GetRouteMonitor ==
    /\ pc = "idle" /\ queued
    /\ queued' = FALSE
    /\ rm' = rmCache
    /\ pc' = IF rmCache = NoObj THEN "idle" ELSE FirstStep(rmCache)
    /\ UNCHANGED <<obj, rmCache, serviceMonitors, pr, prCache, misread, route, rev, budget>>

EnsureFinalizerSet ==
    /\ pc = "setFinalizer"
    /\ UpdateMonitorResource(DeleteFinalizer(SetFinalizer(rm, FinalizerKey).obj, PrevFinalizerKey).obj)
    /\ UNCHANGED <<rmCache, serviceMonitors, pr, prCache, misread, route, budget>>

\* The first ingress decides; the port, the suffix and the scheme are added to its host.
RouteUsable(spec) ==
    /\ spec.named
    /\ route # NoObj
    /\ Len(route.hosts) > 0
    /\ route.hosts[1] # ""

\* Mutant of ExtractedRouteURL: the scheme is left out.
ExtractedWithoutScheme(spec) ==
    [host |-> route.hosts[1], port |-> spec.port, suffix |-> spec.suffix]

ExtractedRouteURL(spec) ==
    [https |-> route.tls, host |-> route.hosts[1], port |-> spec.port, suffix |-> spec.suffix]

EnsureRouteURLExists ==
    /\ pc = "routeURL"
    /\ IF ~RouteUsable(rm.spec) THEN Requeue /\ UNCHANGED <<obj, rev>>
       ELSE IF rm.routeURL = ExtractedRouteURL(rm.spec)
            THEN Goto("serviceMonitor") /\ UNCHANGED <<obj, rev>>
            ELSE UpdateMonitorResource([rm EXCEPT !.routeURL = ExtractedRouteURL(rm.spec)])
    /\ UNCHANGED <<rmCache, serviceMonitors, pr, prCache, misread, route, budget>>

----------------------------------------------------------------------------
(* Create or update a dependent: the decision rests on the cached copy,    *)
(* the outcome on the API server's.                                        *)

Kind(spec) == IF spec.rhobs THEN "rhobs" ELSE "coreos"
ServiceMonitorTemplate(m) == [url |-> m.routeURL, insecure |-> m.spec.insecure]

WriteServiceMonitor(k, new) ==
    /\ sm' = [sm EXCEPT ![k] = new]
    /\ smEvents' = smEvents \cup {k}

AfterServiceMonitor ==
    LET r == SetResourceReference(rm.smRef, Ref)
    IN  Goto(IF r.updated THEN "smRef" ELSE "prometheusRule")

\* useRHOBS selects the API group; GetOSDClusterID and getHostedControlPlane
\* only read, and their failure is CallFails.
EnsureServiceMonitorExists ==
    /\ pc = "serviceMonitor"
    /\ LET k    == Kind(rm.spec)
           spec == ServiceMonitorTemplate(rm)
           seen == smCache[k]
       IN  \/ /\ rm.routeURL # NoURL /\ seen = NoObj /\ sm[k] = NoObj
              /\ WriteServiceMonitor(k, [rv |-> rev + 1, owner |-> rm.uid, spec |-> spec])
              /\ rev' = rev + 1
              /\ AfterServiceMonitor
           \/ /\ rm.routeURL # NoURL /\ seen # NoObj /\ seen.spec # spec /\ Fresh(sm[k], seen)
              /\ WriteServiceMonitor(k, [seen EXCEPT !.rv = rev + 1, !.spec = spec])
              /\ rev' = rev + 1
              /\ AfterServiceMonitor
           \/ /\ rm.routeURL # NoURL /\ seen # NoObj /\ seen.spec = spec
              /\ UNCHANGED <<sm, smEvents, rev>>
              /\ AfterServiceMonitor
           \/ /\ \/ rm.routeURL = NoURL
                 \/ seen = NoObj /\ sm[k] # NoObj
                 \/ seen # NoObj /\ seen.spec # spec /\ ~Fresh(sm[k], seen)
              /\ UNCHANGED <<sm, smEvents, rev>>
              /\ Requeue
    /\ UNCHANGED <<obj, rmCache, smCache, pr, prCache, misread, route, budget>>

SetServiceMonitorRef ==
    /\ pc = "smRef"
    /\ UpdateMonitorResource([rm EXCEPT !.smRef = SetResourceReference(@, Ref).ref])
    /\ UNCHANGED <<rmCache, serviceMonitors, pr, prCache, misread, route, budget>>

----------------------------------------------------------------------------
(* PrometheusRules.                                                        *)

Parsed(m) == ParseMonitorSLOSpecs(m.routeURL, m.spec.slo)
RuleTemplate(m) == [url |-> m.routeURL, slo |-> Parsed(m).slo]

WriteRule(new) == pr' = new /\ UNCHANGED prCache

\* DeletePrometheusRuleDeployment, then the step l.
DeletePrometheusRule(l) ==
    \/ /\ rm.prRef = NoRef \/ prCache = NoObj
       /\ Goto(l) /\ UNCHANGED <<pr, prCache>>
    \/ /\ rm.prRef # NoRef /\ prCache # NoObj
       /\ IF pr = NoObj THEN Requeue /\ UNCHANGED <<pr, prCache>>
                        ELSE Goto(l) /\ WriteRule(NoObj)

UpdatePrometheusRuleDeployment ==
    LET spec == RuleTemplate(rm)
        Done == IF SetResourceReference(rm.prRef, Ref).updated THEN Goto("prRef") ELSE Stop
    IN  \/ /\ prCache = NoObj /\ pr = NoObj
           /\ WriteRule([rv |-> rev + 1, spec |-> spec]) /\ rev' = rev + 1 /\ Done
        \/ /\ prCache # NoObj /\ prCache.spec # spec /\ Fresh(pr, prCache)
           /\ WriteRule([rv |-> rev + 1, spec |-> spec]) /\ rev' = rev + 1 /\ Done
        \/ /\ prCache # NoObj /\ prCache.spec = spec
           /\ UNCHANGED <<pr, prCache, rev>> /\ Done
        \/ /\ \/ prCache = NoObj /\ pr # NoObj
              \/ prCache # NoObj /\ prCache.spec # spec /\ ~Fresh(pr, prCache)
           /\ UNCHANGED <<pr, prCache, rev>> /\ Requeue

\* The reference the last write of the reconcile records.
WantsRule(m) == ~m.spec.skip /\ Parsed(m).slo # NoParsedSlo

EnsurePrometheusRuleExists ==
    /\ pc = "prometheusRule"
    /\ LET error == SetErrorStatus(rm.err, Parsed(rm).err)
       IN  \/ /\ rm.spec.skip
              /\ DeletePrometheusRule("prRef") /\ UNCHANGED <<obj, rev>>
           \/ /\ ~rm.spec.skip /\ error.changed
              /\ UpdateMonitorResource([rm EXCEPT !.err = error.status])
              /\ UNCHANGED <<pr, prCache>>
           \/ /\ ~rm.spec.skip /\ ~error.changed /\ ~WantsRule(rm)
              /\ DeletePrometheusRule("prRef") /\ UNCHANGED <<obj, rev>>
           \/ /\ ~error.changed /\ WantsRule(rm)
              /\ UpdatePrometheusRuleDeployment /\ UNCHANGED obj
    /\ misread' = (prCache # pr)
    /\ UNCHANGED <<rmCache, serviceMonitors, route, budget>>

SetPrometheusRuleRef ==
    /\ pc = "prRef"
    /\ LET ref == IF WantsRule(rm) THEN Ref ELSE NoRef
       IN  UpdateMonitorResource([rm EXCEPT !.prRef = SetResourceReference(@, ref).ref])
    /\ UNCHANGED <<rmCache, serviceMonitors, pr, prCache, misread, route, budget>>

----------------------------------------------------------------------------
(* EnsureMonitorAndDependenciesAbsent.  Its first part, the blackbox       *)
(* exporter, is module BlackBoxExporter's.                                 *)

\* isHCP is false: only the ServiceMonitor of monitoring.coreos.com is deleted.
DeleteServiceMonitorDeployment ==
    /\ pc = "deleteServiceMonitor"
    /\ \/ /\ rm.smRef = NoRef \/ smCache["coreos"] = NoObj
          /\ Goto("deletePrometheusRule") /\ UNCHANGED <<sm, smEvents>>
       \/ /\ rm.smRef # NoRef /\ smCache["coreos"] # NoObj
          /\ IF sm["coreos"] = NoObj THEN Requeue /\ UNCHANGED <<sm, smEvents>>
             ELSE Goto("deletePrometheusRule") /\ WriteServiceMonitor("coreos", NoObj)
    /\ UNCHANGED <<obj, rmCache, smCache, pr, prCache, misread, route, rev, budget>>

DeletePrometheusRuleDeployment ==
    /\ pc = "deletePrometheusRule"
    /\ DeletePrometheusRule("removeFinalizer")
    /\ misread' = (prCache # pr)
    /\ UNCHANGED <<obj, rmCache, serviceMonitors, route, rev, budget>>

\* Mutant of RemoveFinalizer: the change is sent to the status subresource, which
\* ignores the finalizers.
RemoveFinalizerFromStatus ==
    /\ pc = "removeFinalizer"
    /\ Stop /\ UNCHANGED <<obj, rev>>
    /\ UNCHANGED <<rmCache, serviceMonitors, pr, prCache, misread, route, budget>>

\* A monitor without FinalizerKey is left as it is.
RemoveFinalizer ==
    /\ pc = "removeFinalizer"
    /\ LET d == DeleteFinalizer(rm, FinalizerKey)
       IN  IF d.changed THEN UpdateMonitorResource(DeleteFinalizer(d.obj, PrevFinalizerKey).obj)
                        ELSE Stop /\ UNCHANGED <<obj, rev>>
    /\ UNCHANGED <<rmCache, serviceMonitors, pr, prCache, misread, route, budget>>

Reconcile ==
    \/ GetRouteMonitor
    \/ EnsureFinalizerSet
    \/ EnsureRouteURLExists
    \/ EnsureServiceMonitorExists
    \/ SetServiceMonitorRef
    \/ EnsurePrometheusRuleExists
    \/ SetPrometheusRuleRef
    \/ DeleteServiceMonitorDeployment
    \/ DeletePrometheusRuleDeployment
    \/ RemoveFinalizer

----------------------------------------------------------------------------
(* Caches and watches.  SetupWithManager watches RouteMonitors and the     *)
(* ServiceMonitors of monitoring.coreos.com they own, nothing else.        *)

SyncMonitor ==
    /\ rmCache # obj
    /\ rmCache' = obj /\ queued' = TRUE
    /\ UNCHANGED <<obj, pc, rm, serviceMonitors, pr, prCache, misread, route, rev, budget>>

\* Mutant of SyncServiceMonitor: owned ServiceMonitors are not watched.
SyncUnwatched(k) ==
    /\ k \in smEvents
    /\ smCache' = [smCache EXCEPT ![k] = sm[k]]
    /\ smEvents' = smEvents \ {k}
    /\ UNCHANGED <<obj, rmCache, queued, pc, rm, sm, pr, prCache, misread, route, rev, budget>>

SyncServiceMonitor(k) ==
    /\ k \in smEvents
    /\ smCache' = [smCache EXCEPT ![k] = sm[k]]
    /\ smEvents' = smEvents \ {k}
    /\ queued' = (queued \/ k = "coreos")
    /\ UNCHANGED <<obj, rmCache, pc, rm, sm, pr, prCache, misread, route, rev, budget>>

SyncPrometheusRule ==
    /\ prCache # pr
    /\ prCache' = pr
    /\ UNCHANGED <<obj, rmCache, queued, pc, rm, serviceMonitors, pr, misread, route, rev, budget>>

\* A ServiceMonitor carries a controller reference to the monitor's uid.
GarbageCollect(k) ==
    /\ sm[k] # NoObj
    /\ ~(obj # NoObj /\ obj.uid = sm[k].owner)
    /\ WriteServiceMonitor(k, NoObj)
    /\ UNCHANGED <<obj, rmCache, queued, pc, rm, smCache, pr, prCache, misread, route, rev, budget>>

----------------------------------------------------------------------------
(* Faults.  A call that took effect but whose answer is lost is a failure  *)
(* of the next call.                                                       *)

Fault == faults < MaxFaults /\ faults' = faults + 1 /\ UNCHANGED edits

CallFails ==
    /\ pc # "idle"
    /\ Fault /\ Requeue
    /\ UNCHANGED <<obj, rmCache, serviceMonitors, pr, prCache, misread, route, rev>>

\* The operator starts again: caches are listed anew, every monitor is queued.
Restart ==
    /\ Fault
    /\ pc' = "idle" /\ rm' = NoObj
    /\ rmCache' = obj /\ smCache' = sm /\ smEvents' = {} /\ prCache' = pr
    /\ queued' = (obj # NoObj)
    /\ UNCHANGED <<obj, sm, pr, misread, route, rev>>

\* The informer's periodic resync, or a failure that the last call of a
\* reconcile reports although it took effect.
Resync ==
    /\ rmCache # NoObj
    /\ Fault /\ queued' = TRUE
    /\ UNCHANGED <<obj, rmCache, pc, rm, serviceMonitors, pr, prCache, misread, route, rev>>

----------------------------------------------------------------------------
(* Users, and the owner of the Route.                                      *)

Edit == edits < MaxEdits /\ edits' = edits + 1 /\ UNCHANGED faults

CreateMonitor ==
    /\ obj = NoObj /\ Edit
    /\ \E s \in Specs, f \in InitialFinalizers :
          obj' = [uid |-> rev + 1, rv |-> rev + 1, deleting |-> FALSE, fin |-> f, spec |-> s,
                  routeURL |-> NoURL, smRef |-> NoRef, prRef |-> NoRef, err |-> NoErr]
    /\ rev' = rev + 1
    /\ UNCHANGED <<rmCache, queued, pc, rm, serviceMonitors, pr, prCache, misread, route>>

EditSpec ==
    /\ obj # NoObj /\ Edit
    /\ \E s \in Specs \ {obj.spec} : obj' = [obj EXCEPT !.spec = s, !.rv = rev + 1]
    /\ rev' = rev + 1
    /\ UNCHANGED <<rmCache, queued, pc, rm, serviceMonitors, pr, prCache, misread, route>>

DeleteMonitor ==
    /\ obj # NoObj /\ Edit
    /\ ~obj.deleting
    /\ IF obj.fin = {} THEN obj' = NoObj /\ UNCHANGED rev
       ELSE obj' = [obj EXCEPT !.deleting = TRUE, !.rv = rev + 1] /\ rev' = rev + 1
    /\ UNCHANGED <<rmCache, queued, pc, rm, serviceMonitors, pr, prCache, misread, route>>

DeleteServiceMonitor(k) ==
    /\ sm[k] # NoObj /\ Edit
    /\ WriteServiceMonitor(k, NoObj)
    /\ UNCHANGED <<obj, rmCache, queued, pc, rm, smCache, pr, prCache, misread, route, rev>>

ChangeRoute ==
    /\ Edit
    /\ \E r \in Routes \ {route} : route' = r
    /\ UNCHANGED <<obj, rmCache, queued, pc, rm, serviceMonitors, pr, prCache, misread, rev>>

Users == CreateMonitor \/ EditSpec \/ DeleteMonitor \/ ChangeRoute
         \/ \E k \in Meddled : DeleteServiceMonitor(k)

Next ==
    \/ Reconcile
    \/ SyncMonitor \/ SyncPrometheusRule
    \/ \E k \in Kinds : SyncServiceMonitor(k) \/ GarbageCollect(k)
    \/ CallFails \/ Restart \/ Resync
    \/ Users

Spec == Init /\ [][Next]_vars

(***************************************************************************)
(* A queued name is picked up and a reconcile goes on; watches deliver; a  *)
(* dependent whose owner is gone is collected.  Users, failures and        *)
(* restarts need not happen.                                               *)
(***************************************************************************)
Fairness ==
    /\ WF_vars(Reconcile)
    /\ WF_vars(SyncMonitor)
    /\ WF_vars(SyncPrometheusRule)
    /\ \A k \in Kinds : WF_vars(SyncServiceMonitor(k)) /\ WF_vars(GarbageCollect(k))

FairSpec == Spec /\ Fairness

----------------------------------------------------------------------------
(* Properties.                                                             *)

\* While a reconcile puts up or rewrites dependents for its copy of the
\* monitor, that very monitor (same uid) is on the API server and carries the
\* finalizer, however old the copy is: nothing is ever created for a monitor
\* that is gone or was replaced (routemonitor.go, the order of
\* GetRouteMonitor, EnsureFinalizerSet and the Ensure... steps).
DeployUnderFinalizer ==
    pc \in Deploying =>
        /\ obj # NoObj
        /\ obj.uid = rm.uid
        /\ FinalizerKey \in obj.fin

\* The operator's own writes never undo what a user did: a step in which no
\* user acts leaves the spec of a surviving monitor and its deletion request as
\* they are, although the whole object is written from a cached copy
\* (UpdateMonitorResource, UpdateMonitorResourceStatus).
KeepsUserIntent ==
    [][ (edits' = edits /\ obj # NoObj /\ obj' # NoObj)
        => /\ obj'.uid = obj.uid
           /\ obj'.spec = obj.spec
           /\ obj'.deleting = obj.deleting ]_vars

(***************************************************************************)
(* The controller implements MonitorLife: the phase of the monitor can be  *)
(* read off its finalizers and its deletion timestamp.                     *)
(***************************************************************************)
LifeOf(m) == IF m = NoObj THEN "absent" ELSE Phase(m)
dependents == [d \in Kinds \cup {"rule"} |-> IF d = "rule" THEN pr ELSE sm[d]]

Life == INSTANCE MonitorLife WITH
    Dependents <- Kinds \cup {"rule"}, Missing <- NoObj,
    life <- LifeOf(obj), deps <- dependents

\* Whatever is done on stale copies, by failed calls and restarts: a dependent is
\* put up or rewritten only while the finalizer of a monitor protects it, the
\* finalizer goes only after a deletion request, and a monitor under deletion
\* never becomes a live one again (the order of GetRouteMonitor,
\* EnsureMonitorAndDependenciesAbsent, EnsureFinalizerSet and the Ensure... steps).
ImplementsLife == Life!Spec

\* Nothing is left to do: no reconcile runs or is due and every cache is current.
Quiet ==
    /\ pc = "idle" /\ ~queued
    /\ rmCache = obj /\ smEvents = {} /\ prCache = pr

\* A monitor that the operator has dealt with.
Served == Quiet /\ obj # NoObj /\ ~obj.deleting

\* Once everything is quiet the monitor records a URL and its ServiceMonitor of
\* the requested kind exists, is referenced, and probes exactly that URL with
\* the requested module (EnsureServiceMonitorExists, "Ensures that a
\* ServiceMonitor is created from the RouteMonitor CR").
QuietServiceMonitor ==
    Served => /\ obj.routeURL # NoURL
              /\ obj.smRef = Ref
              /\ sm[Kind(obj.spec)] # NoObj
              /\ sm[Kind(obj.spec)].spec = ServiceMonitorTemplate(obj)

\* Once everything is quiet a monitor that asks for a PrometheusRule references
\* it and has it, with its URL and SLO, unless the step that settled it went by a
\* cached rule that was behind; one that does not ask references none
\* (EnsurePrometheusRuleExists; rules are cached and nothing watches them).
QuietPrometheusRule ==
    Served => IF WantsRule(obj)
              THEN obj.prRef = Ref /\ (misread \/ (pr # NoObj /\ pr.spec = RuleTemplate(obj)))
              ELSE obj.prRef = NoRef

\* Once everything is quiet the error status shows whether the SLO is invalid,
\* unless rules are skipped, where the code leaves the old status alone.
QuietErrorStatus ==
    Served /\ ~obj.spec.skip => obj.err = Parsed(obj).err

\* No PrometheusRule outlives its monitor ("Ensures that all dependencies
\* related to a RouteMonitor are deleted"), leaving aside one that a cache which
\* was behind hid from the step that deletes it.
NoOrphanedRule == pr # NoObj => obj # NoObj \/ misread

\* A monitor whose deletion is requested goes away: the finalizer is removed in
\* the end, whatever the caches show on the way.
DeletionCompletes ==
    (obj # NoObj /\ obj.deleting) ~> (obj = NoObj \/ ~obj.deleting)

\* If users leave a usable Route behind, the controller comes to rest: no pair
\* of steps keeps waking the other, in particular not the status writes that
\* report an update when nothing changed (SetResourceReference).
ComesToRest ==
    (<>[](obj = NoObj \/ RouteUsable(obj.spec))) => <>[](pc = "idle" /\ ~queued)

----------------------------------------------------------------------------
(* The inductive invariant behind DeployUnderFinalizer and KeepsUserIntent *)
(* (proved in RouteMonitorProofs).                                         *)

\* A step has a copy of the monitor to work on.
HasCopy == pc # "idle" => rm # NoObj

\* A copy of the monitor is never newer than the stored one, and is the stored
\* one when the revisions agree.
CopyOf(m) ==
    m # NoObj => /\ m.rv <= rev
                 /\ obj # NoObj => m.rv <= obj.rv /\ (m.rv = obj.rv => m = obj)

\* What makes it safe to act on a cached monitor.
CacheVouches ==
    (rmCache # NoObj /\ ~rmCache.deleting /\ FinalizerKey \in rmCache.fin)
        => /\ obj # NoObj
           /\ obj.uid = rmCache.uid
           /\ FinalizerKey \in obj.fin

\* A reconcile removes dependents only for a copy under deletion, and the cache
\* does not fall behind that copy.
RemovingCopy ==
    pc \in Removing => /\ rm.deleting
                       /\ rmCache # NoObj => rm.rv <= rmCache.rv

\* The finalizer is set on a copy without a deletion request.
ProtectedCopy == pc = "setFinalizer" => ~rm.deleting

IndInv ==
    /\ TypeOK
    /\ obj # NoObj => obj.rv <= rev
    /\ HasCopy
    /\ CopyOf(rmCache)
    /\ CopyOf(rm)
    /\ CacheVouches
    /\ RemovingCopy
    /\ ProtectedCopy
    /\ DeployUnderFinalizer
=============================================================================
