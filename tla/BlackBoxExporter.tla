-------------------------- MODULE BlackBoxExporter --------------------------
(***************************************************************************)
(* The one blackbox exporter that all monitors share                       *)
(* (pkg/blackboxexporter/blackboxexporter.go): a ConfigMap, a Deployment   *)
(* and a Service.  Every reconcile of a live monitor puts missing parts    *)
(* up; the reconcile of a monitor under deletion takes all of them down    *)
(* when it believes to be the last.  RouteMonitors and ClusterUrlMonitors  *)
(* have a controller each, with one worker, and the two run concurrently   *)
(* on the same caches.                                                     *)
(*                                                                         *)
(* A monitor is reduced to what the exporter depends on: "new" is a        *)
(* monitor without the operator's finalizer, "live" has it, "deleting" has *)
(* it and a deletion timestamp.  The other dependents of a monitor are     *)
(* module RouteMonitor's; here their steps are part of the neighbouring    *)
(* one.  What refreshes the spec of a Deployment is not kept, only whether *)
(* it is there.                                                            *)
(***************************************************************************)
EXTENDS Naturals, FiniteSets

CONSTANTS
    Monitors,            \* the names users give monitors, of both kinds
    KindOf,              \* the kind of each
    None,
    ExporterInformersLag,  \* whether the caches of the exporter's parts may be behind
    MaxEdits,            \* bound on creations and deletions by users
    MaxFaults            \* bound on failed calls and restarts

MonitorKinds == {"RouteMonitor", "ClusterUrlMonitor"}
Parts        == {"ConfigMap", "Deployment", "Service"}
States       == {"none", "new", "live", "deleting"}

ASSUME ExporterAssumption ==
    /\ KindOf \in [Monitors -> MonitorKinds]
    /\ None \notin Monitors
    /\ ExporterInformersLag \in BOOLEAN
    /\ MaxEdits \in Nat /\ MaxFaults \in Nat

VARIABLES
    mon,       \* the state of each monitor on the API server
    monCache,  \* and in the informer caches
    queue,     \* the monitors whose names wait in their controller's queue
    pc,        \* for each controller: the step its worker is at,
    cur,       \* the monitor it reconciles,
    listed,    \* and the RouteMonitors it has listed
    parts,     \* the parts of the exporter on the API server
    partCache, \* and in the informer caches
    crossed,   \* history: the parts last touched on a stale copy or across controllers
    edits,
    faults

vars    == <<mon, monCache, queue, pc, cur, listed, parts, partCache, crossed, edits, faults>>
workers == <<pc, cur, listed>>
budget  == <<edits, faults>>

Steps == {"idle", "finalizer", "ConfigMap", "Deployment", "Service", "listRouteMonitors",
          "listClusterUrlMonitors", "deleteService", "deleteDeployment", "deleteConfigMap",
          "removeFinalizer"}

TypeOK ==
    /\ mon \in [Monitors -> States]
    /\ monCache \in [Monitors -> States]
    /\ queue \in SUBSET Monitors
    /\ pc \in [MonitorKinds -> Steps]
    /\ cur \in [MonitorKinds -> Monitors \cup {None}]
    /\ listed \in [MonitorKinds -> SUBSET [name : Monitors, deleting : BOOLEAN]]
    /\ parts \in SUBSET Parts
    /\ partCache \in SUBSET Parts
    /\ crossed \in SUBSET Parts
    /\ edits \in 0..MaxEdits
    /\ faults \in 0..MaxFaults

Init ==
    /\ mon = [m \in Monitors |-> "none"] /\ monCache = mon
    /\ queue = {}
    /\ pc = [c \in MonitorKinds |-> "idle"]
    /\ cur = [c \in MonitorKinds |-> None]
    /\ listed = [c \in MonitorKinds |-> {}]
    /\ parts = {} /\ partCache = {} /\ crossed = {}
    /\ edits = 0 /\ faults = 0

----------------------------------------------------------------------------
Goto(c, l) == pc' = [pc EXCEPT ![c] = l] /\ UNCHANGED <<cur, listed, queue>>
Stop(c) ==
    /\ pc' = [pc EXCEPT ![c] = "idle"]
    /\ cur' = [cur EXCEPT ![c] = None]
    /\ listed' = [listed EXCEPT ![c] = {}]
    /\ UNCHANGED queue

\* Mutant of Requeue: the request is read after it was cleared.
RequeueNothing(c) ==
    /\ pc' = [pc EXCEPT ![c] = "idle"]
    /\ cur' = [cur EXCEPT ![c] = None]
    /\ listed' = [listed EXCEPT ![c] = {}]
    /\ queue' = queue \cup {cur'[c]}

Requeue(c) ==
    /\ pc' = [pc EXCEPT ![c] = "idle"]
    /\ cur' = [cur EXCEPT ![c] = None]
    /\ listed' = [listed EXCEPT ![c] = {}]
    /\ queue' = queue \cup {cur[c]}

WriteParts(new) ==
    /\ parts' = new
    /\ partCache' = IF ExporterInformersLag THEN partCache ELSE new

DeletionOrder == [deleteService    |-> [part |-> "Service",    next |-> "deleteDeployment"],
                  deleteDeployment |-> [part |-> "Deployment", next |-> "deleteConfigMap"],
                  deleteConfigMap  |-> [part |-> "ConfigMap",  next |-> "removeFinalizer"]]

\* The other controller is taking the exporter down; it has a monitor to serve.
OthersTakeDown(c) == \E k \in MonitorKinds \ {c} : pc[k] \in DOMAIN DeletionOrder
OthersServed(c) == \E m \in Monitors : KindOf[m] # c /\ mon[m] \in {"live", "deleting"}

\* History: whether the step on part p went wrong in one of the ways that the two
\* controllers and their caches leave open.
Crosses(p, wrong) == crossed' = IF wrong THEN crossed \cup {p} ELSE crossed \ {p}
Misread(p) == crossed' = IF (p \in parts) = (p \in partCache) THEN crossed ELSE crossed \cup {p}

FirstStep(m) ==
    CASE monCache[m] = "new"      -> "finalizer"
      [] monCache[m] = "live"     -> "ConfigMap"
      [] monCache[m] = "deleting" -> "listRouteMonitors"

\* Mutant of Start: a monitor that is gone is an error.
StartOrRequeue(c, m) ==
    /\ pc[c] = "idle" /\ m \in queue /\ KindOf[m] = c
    /\ queue' = IF monCache[m] = "none" THEN queue ELSE queue \ {m}
    /\ IF monCache[m] = "none" THEN UNCHANGED <<pc, cur>>
       ELSE cur' = [cur EXCEPT ![c] = m] /\ pc' = [pc EXCEPT ![c] = FirstStep(m)]
    /\ UNCHANGED <<mon, monCache, listed, parts, partCache, crossed, budget>>

\* The head of both Reconcile functions: a monitor that is gone needs nothing.
Start(c, m) ==
    /\ pc[c] = "idle" /\ m \in queue /\ KindOf[m] = c
    /\ queue' = queue \ {m}
    /\ IF monCache[m] = "none" THEN UNCHANGED <<pc, cur>>
       ELSE cur' = [cur EXCEPT ![c] = m] /\ pc' = [pc EXCEPT ![c] = FirstStep(m)]
    /\ UNCHANGED <<mon, monCache, listed, parts, partCache, crossed, budget>>

\* EnsureFinalizerSet: the update fails when the monitor has changed since.
SetFinalizer(c) ==
    /\ pc[c] = "finalizer"
    /\ IF mon[cur[c]] = "new"
       THEN Stop(c) /\ mon' = [mon EXCEPT ![cur[c]] = "live"]
       ELSE Requeue(c) /\ UNCHANGED mon
    /\ UNCHANGED <<monCache, parts, partCache, crossed, budget>>

(***************************************************************************)
(* EnsureBlackBoxExporterResourcesExist: the ConfigMap, then the           *)
(* Deployment, then the Service.  A part that the cache shows is taken to  *)
(* be there; one that it does not show is created, which fails when it is  *)
(* there after all.  A cached Deployment with another spec is updated,     *)
(* which fails when it is gone.                                            *)
(***************************************************************************)
\* Mutant of AfterPart: the Service is put up before the Deployment.
AfterPartServiceFirst(c, p) ==
    CASE p = "ConfigMap"  -> Goto(c, "Service")
      [] p = "Service"    -> Goto(c, "Deployment")
      [] p = "Deployment" -> Stop(c)

AfterPart(c, p) ==
    CASE p = "ConfigMap"  -> Goto(c, "Deployment")
      [] p = "Deployment" -> Goto(c, "Service")
      [] p = "Service"    -> Stop(c)

EnsurePartExists(c, p) ==
    /\ pc[c] = p
    /\ \/ /\ p \in partCache
          /\ AfterPart(c, p) /\ Misread(p) /\ UNCHANGED <<parts, partCache>>
       \/ /\ p = "Deployment" /\ p \in partCache /\ p \notin parts
          /\ Requeue(c) /\ UNCHANGED <<parts, partCache, crossed>>
       \/ /\ p \notin partCache /\ p \notin parts
          /\ AfterPart(c, p) /\ Crosses(p, OthersTakeDown(c)) /\ WriteParts(parts \cup {p})
       \/ /\ p \notin partCache /\ p \in parts
          /\ Requeue(c) /\ UNCHANGED <<parts, partCache, crossed>>
    /\ UNCHANGED <<mon, monCache, budget>>

(***************************************************************************)
(* ShouldDeleteBlackBoxExporterResources lists the RouteMonitors, then the *)
(* ClusterUrlMonitors, and says yes when there is one object in all and it *)
(* is under deletion.                                                      *)
(***************************************************************************)
Listed(k) ==
    {[name |-> m, deleting |-> monCache[m] = "deleting"] :
        m \in {n \in Monitors : KindOf[n] = k /\ monCache[n] # "none"}}

ListRouteMonitors(c) ==
    /\ pc[c] = "listRouteMonitors"
    /\ listed' = [listed EXCEPT ![c] = Listed("RouteMonitor")]
    /\ pc' = [pc EXCEPT ![c] = "listClusterUrlMonitors"]
    /\ UNCHANGED <<mon, monCache, queue, cur, parts, partCache, crossed, budget>>

\* Mutant of ShouldDelete: any object under deletion counts.
ShouldDeleteEagerly(objects) == \E o \in objects : o.deleting

ShouldDelete(objects) ==
    Cardinality(objects) = 1 /\ \A o \in objects : o.deleting

ListClusterUrlMonitors(c) ==
    /\ pc[c] = "listClusterUrlMonitors"
    /\ pc' = [pc EXCEPT ![c] = IF ShouldDelete(listed[c] \cup Listed("ClusterUrlMonitor"))
                               THEN "deleteService" ELSE "removeFinalizer"]
    /\ listed' = [listed EXCEPT ![c] = {}]
    /\ UNCHANGED <<mon, monCache, queue, cur, parts, partCache, crossed, budget>>

(***************************************************************************)
(* EnsureBlackBoxExporterResourcesAbsent: the Service, the Deployment, the *)
(* ConfigMap.  Deleting a part that is gone is an error.                   *)
(***************************************************************************)
EnsurePartAbsent(c) ==
    /\ pc[c] \in DOMAIN DeletionOrder
    /\ LET p == DeletionOrder[pc[c]].part
           l == DeletionOrder[pc[c]].next
       IN  \/ /\ p \notin partCache
              /\ Goto(c, l) /\ Misread(p) /\ UNCHANGED <<parts, partCache>>
           \/ /\ p \in partCache /\ p \in parts
              /\ Goto(c, l) /\ Crosses(p, OthersServed(c)) /\ WriteParts(parts \ {p})
           \/ /\ p \in partCache /\ p \notin parts
              /\ Requeue(c) /\ UNCHANGED <<parts, partCache, crossed>>
    /\ UNCHANGED <<mon, monCache, budget>>

\* Mutant of RemoveFinalizer: a monitor stays as long as the exporter does.
RemoveFinalizerWhenLast(c) ==
    /\ pc[c] = "removeFinalizer"
    /\ IF parts = {}
       THEN Stop(c) /\ mon' = [mon EXCEPT ![cur[c]] = "none"]
       ELSE Requeue(c) /\ UNCHANGED mon
    /\ UNCHANGED <<monCache, parts, partCache, crossed, budget>>

\* The monitor goes with its finalizer; the update fails when it is gone already.
RemoveFinalizer(c) ==
    /\ pc[c] = "removeFinalizer"
    /\ IF mon[cur[c]] = "deleting"
       THEN Stop(c) /\ mon' = [mon EXCEPT ![cur[c]] = "none"]
       ELSE Requeue(c) /\ UNCHANGED mon
    /\ UNCHANGED <<monCache, parts, partCache, crossed, budget>>

Reconcile(c) ==
    \/ \E m \in Monitors : Start(c, m)
    \/ SetFinalizer(c)
    \/ \E p \in Parts : EnsurePartExists(c, p)
    \/ ListRouteMonitors(c)
    \/ ListClusterUrlMonitors(c)
    \/ EnsurePartAbsent(c)
    \/ RemoveFinalizer(c)

----------------------------------------------------------------------------
(* Caches: only monitors are watched, the exporter's parts are not.        *)

SyncMonitor(m) ==
    /\ monCache[m] # mon[m]
    /\ monCache' = [monCache EXCEPT ![m] = mon[m]]
    /\ queue' = queue \cup {m}
    /\ UNCHANGED <<mon, workers, parts, partCache, crossed, budget>>

SyncPart(p) ==
    /\ (p \in parts) # (p \in partCache)
    /\ partCache' = IF p \in parts THEN partCache \cup {p} ELSE partCache \ {p}
    /\ UNCHANGED <<mon, monCache, queue, workers, parts, crossed, budget>>

Fault == faults < MaxFaults /\ faults' = faults + 1 /\ UNCHANGED edits

CallFails(c) ==
    /\ pc[c] # "idle"
    /\ Fault /\ Requeue(c)
    /\ UNCHANGED <<mon, monCache, parts, partCache, crossed>>

Restart ==
    /\ Fault
    /\ pc' = [c \in MonitorKinds |-> "idle"]
    /\ cur' = [c \in MonitorKinds |-> None]
    /\ listed' = [c \in MonitorKinds |-> {}]
    /\ monCache' = mon /\ partCache' = parts
    /\ queue' = {m \in Monitors : mon[m] # "none"}
    /\ UNCHANGED <<mon, parts, crossed>>

Edit == edits < MaxEdits /\ edits' = edits + 1 /\ UNCHANGED faults

CreateMonitor(m) ==
    /\ mon[m] = "none" /\ Edit
    /\ mon' = [mon EXCEPT ![m] = "new"]
    /\ UNCHANGED <<monCache, queue, workers, parts, partCache, crossed>>

DeleteMonitor(m) ==
    /\ mon[m] \in {"new", "live"} /\ Edit
    /\ mon' = [mon EXCEPT ![m] = IF @ = "new" THEN "none" ELSE "deleting"]
    /\ UNCHANGED <<monCache, queue, workers, parts, partCache, crossed>>

Next ==
    \/ \E c \in MonitorKinds : Reconcile(c) \/ CallFails(c)
    \/ \E m \in Monitors : SyncMonitor(m) \/ CreateMonitor(m) \/ DeleteMonitor(m)
    \/ \E p \in Parts : SyncPart(p)
    \/ Restart

Spec == Init /\ [][Next]_vars

\* Both workers go on, and watches deliver.
Fairness ==
    /\ \A c \in MonitorKinds : WF_vars(Reconcile(c))
    /\ \A m \in Monitors : WF_vars(SyncMonitor(m))
    /\ \A p \in Parts : WF_vars(SyncPart(p))

FairSpec == Spec /\ Fairness

----------------------------------------------------------------------------
(* Properties.                                                             *)

Quiet ==
    /\ \A c \in MonitorKinds : pc[c] = "idle"
    /\ queue = {} /\ monCache = mon /\ partCache = parts

\* When everything is quiet and some monitor is in place, the exporter is
\* complete ("The operator is making sure that there is one deployment + service
\* of the blackbox exporter").
ExporterServesMonitors ==
    (Quiet /\ \E m \in Monitors : mon[m] # "none") => parts = Parts

\* When everything is quiet and some monitor is in place, no part of the exporter
\* is missing but one that a controller took for present on a stale copy, or took
\* down from under a monitor of the other kind: a controller's own monitors, their
\* failures and its restarts never cost a part (ShouldDeleteBlackBoxExporterResources
\* and the two Ensure... operations).
OnlyCrossedPartsMissing ==
    (Quiet /\ \E m \in Monitors : mon[m] # "none") => Parts \ parts \subseteq crossed

\* A Service without its Deployment is the work of two controllers at once or of a
\* stale copy: the orders of creation and deletion alone never leave one, whatever
\* fails in between ("A Service should not point to an empty target (Deployment)").
OnlyCrossedServiceEmpty ==
    "Service" \in parts => "Deployment" \in parts \/ crossed \cap {"Service", "Deployment"} # {}

\* Monitors are removed whatever the two controllers do to the exporter at the
\* same time: failing to delete what the other has just deleted is retried.
DeletionCompletes ==
    \A m \in Monitors : mon[m] = "deleting" ~> mon[m] # "deleting"

\* The controllers do not keep each other busy: with no more user actions both
\* come to rest.
ComesToRest == <>[](queue = {} /\ \A c \in MonitorKinds : pc[c] = "idle")
=============================================================================
